---------------------------- MODULE ServicesProofs ----------------------------
(***************************************************************************)
(* Services beside the filing core.  A media job reports what happened and *)
(* leaves no child unattended, in whatever order the answer, the deadline, *)
(* the signals and the end of the child meet; that it ends is liveness,    *)
(* and left to TLC.  No cache of the Ollama daemon's answers outlives a    *)
(* pull; a switch of the provider reaches every copy of the choice; and    *)
(* settings.json holds what the user last gave.  An upload that was        *)
(* answered with success is not lost, and archive, table and index agree.  *)
(* All for any number of callers, models, threads, providers, processes,   *)
(* scans and names.                                                        *)
(***************************************************************************)
EXTENDS MediaJob, Ollama, Provider, Settings, Uploads, TLAPS

Listening == {"polling", "checking", "lastPoll", "receiving"}
Ending == {"judging", "terminated", "killed"}

\* A job without a process of its own has no pipe either.
InProcess ==
    /\ isolated <=> child # "none"
    /\ ~isolated => call \in {"polling", "returned"} /\ pipe = "empty"

\* How far the child has come shows in the pipe; while the caller listens, only
\* the kernel cuts an answer short.
PipeFollows ==
    /\ child = "working" => answer = "none" /\ pipe = "empty"
    /\ child = "sending" => pipe = "partial"
    /\ child = "sent" => pipe = "whole"
    /\ pipe # "empty" => answer # "none"
    /\ call \in Listening =>
         /\ signals \subseteq {"limit"}
         /\ pipe = "partial" /\ WriteEndClosed => "limit" \in signals /\ child = "gone"

\* No answer was, is or will be in the pipe.
Silent == pipe = "empty" /\ WriteEndClosed

\* The child ended in the middle of its answer.
Lost == pipe # "whole" /\ child = "gone"

\* Why the caller is where it is.
CallerKnows ==
    /\ timedOut => late
    /\ outcome = "none" <=> call \in Listening \union Ending
    /\ call = "receiving" => pipe # "empty"
    /\ call = "lastPoll" => child = "gone"
    /\ call = "judging" => timedOut \/ Silent \/ Lost
    /\ call \in {"terminated", "killed"} => late \/ Silent
    /\ call = "terminatedLast" => signals # {}

OutcomeKnown ==
    /\ outcome \in {"ok", "err"} => outcome = answer /\ child # "working"
    /\ outcome = "failed" => Silent \/ Lost
    /\ outcome = "timeout" => late \/ Silent
    /\ outcome = "broken" => "limit" \in signals

MediaIInv == MediaTypeOK /\ InProcess /\ PipeFollows /\ CallerKnows /\ OutcomeKnown
             /\ ChildReaped

-----------------------------------------------------------------------------
\* What the child and the clock do.
LEMMA ChildStep ==
    MediaIInv /\ (Work \/ SendRest \/ SendBreaks \/ Leave \/ Crash \/ Die \/ TimePasses)
        => MediaIInv'
<1> SUFFICES ASSUME MediaIInv,
                    Work \/ SendRest \/ SendBreaks \/ Leave \/ Crash \/ Die \/ TimePasses
             PROVE  MediaIInv'
  OBVIOUS
<1> USE DEF MediaIInv, MediaTypeOK, CallPcs, InProcess, PipeFollows, CallerKnows,
            OutcomeKnown, ChildReaped, Alive, WriteEndClosed, Silent, Lost, Listening, Ending
<1>1. CASE Work
  BY <1>1 DEF Work
<1>2. CASE SendRest
  BY <1>2 DEF SendRest
<1>3. CASE SendBreaks
  BY <1>3 DEF SendBreaks, PipeClosed
<1>4. CASE Leave
  BY <1>4 DEF Leave
<1>5. CASE Crash
  BY <1>5 DEF Crash
<1>6. CASE Die
  BY <1>6 DEF Die
<1>7. CASE TimePasses
  BY <1>7 DEF TimePasses
<1> QED
  BY <1>1, <1>2, <1>3, <1>4, <1>5, <1>6, <1>7

\* What the caller does: each way out of its loop knows why.
LEMMA CallStep == MediaIInv /\ CallerStep => MediaIInv'
<1> SUFFICES ASSUME MediaIInv, CallerStep PROVE MediaIInv'
  OBVIOUS
<1> USE DEF MediaIInv, MediaTypeOK, CallPcs, InProcess, PipeFollows, CallerKnows,
            OutcomeKnown, ChildReaped, Alive, WriteEndClosed, Silent, Lost, Listening, Ending,
            Go, Signal, Settle
<1>1. CASE RunInProcess
  BY <1>1 DEF RunInProcess
<1>2. CASE DeadlineMet
  BY <1>2 DEF DeadlineMet
<1>3. CASE PollPipe
  <2>1. CASE Readable /\ Take
    BY <1>3, <2>1 DEF PollPipe, Readable, Take
  <2>2. CASE Go("checking")
    BY <1>3, <2>2 DEF PollPipe
  <2> QED
    BY <1>3, <2>1, <2>2 DEF PollPipe
<1>4. CASE CheckAlive
  BY <1>4 DEF CheckAlive
<1>5. CASE LastPoll
  BY <1>5 DEF LastPoll, Take
<1>6. CASE Receive
  <2>1. CASE pipe = "whole" /\ Settle(answer, "closing")
    BY <1>6, <2>1 DEF Receive
  <2>2. CASE pipe # "whole" /\ WriteEndClosed /\ Settle("broken", "closing")
    BY <1>6, <2>2 DEF Receive
  <2>3. CASE pipe # "whole" /\ WriteEndClosed /\ Go("judging")
    BY <1>6, <2>3 DEF Receive
  <2> QED
    BY <1>6, <2>1, <2>2, <2>3 DEF Receive
<1>7. CASE Judge
  BY <1>7 DEF Judge
<1>8. CASE AfterTerm
  <2>1. CASE Signal("kill", "killed")
    BY <1>8, <2>1 DEF AfterTerm
  <2>2. CASE ~Alive /\ Settle("timeout", "closing")
    BY <1>8, <2>2 DEF AfterTerm
  <2> QED
    BY <1>8, <2>1, <2>2 DEF AfterTerm
<1>9. CASE AfterKill
  BY <1>9 DEF AfterKill
<1>10. CASE Close
  BY <1>10 DEF Close
<1>11. CASE AfterWait
  <2>1. CASE ~Alive /\ Go("returned")
    BY <1>11, <2>1 DEF AfterWait
  <2>2. CASE Signal("term", "terminatedLast")
    BY <1>11, <2>2 DEF AfterWait
  <2> QED
    BY <1>11, <2>1, <2>2 DEF AfterWait
<1>12. CASE AfterLast
  BY <1>12 DEF AfterLast
<1> QED
  BY <1>1, <1>2, <1>3, <1>4, <1>5, <1>6, <1>7, <1>8, <1>9, <1>10, <1>11, <1>12
     DEF CallerStep

\* The invariant of a media job is inductive.
THEOREM MediaInvariant == MediaInit /\ [][MediaNext]_mediaVars => []MediaIInv
<1>1. MediaInit => MediaIInv
  BY DEF MediaInit, MediaIInv, MediaTypeOK, CallPcs, InProcess, PipeFollows, CallerKnows,
     OutcomeKnown, ChildReaped, Alive, WriteEndClosed, Silent, Lost, Listening, Ending
<1>2. MediaIInv /\ UNCHANGED mediaVars => MediaIInv'
  BY DEF mediaVars, MediaIInv, MediaTypeOK, InProcess, PipeFollows, CallerKnows,
     OutcomeKnown, ChildReaped, Alive, WriteEndClosed, Silent, Lost
<1>3. MediaIInv /\ [MediaNext]_mediaVars => MediaIInv'
  BY <1>2, ChildStep, CallStep DEF MediaNext
<1> QED
  BY <1>1, <1>3, PTL

\* The caller reports the child's answer, or the true reason why there is none.
THEOREM ReportsAreHonest == MediaInit /\ [][MediaNext]_mediaVars => []MediaHonest
<1>1. MediaIInv => MediaHonest
  BY DEF MediaIInv, MediaHonest, OutcomeKnown, Silent, Lost
<1> QED
  BY <1>1, MediaInvariant, PTL

\* A child that outlives the call was told to end.
THEOREM ChildrenAreReaped == MediaInit /\ [][MediaNext]_mediaVars => []ChildReaped
<1>1. MediaIInv => ChildReaped
  BY DEF MediaIInv
<1> QED
  BY <1>1, MediaInvariant, PTL

-----------------------------------------------------------------------------
\* An answer that a thread is about to cache, and that no drop of the caches has
\* crossed, knows every model a pull has brought.
HeldSeen ==
    /\ pulled \subseteq installed
    /\ \A c \in Callers :
         LET held == query[c].answer
         IN  query[c].pc \in {"store", "verdict"} /\ held.up /\ ~held.crossed =>
               pulled \subseteq held.models

PullIInv == OllamaTypeOK /\ HeldSeen /\ PullIsSeen

\* What the daemon answers is an answer.
LEMMA AnAnswer == OllamaTypeOK => Current \in Answers /\ NoAnswer \in Answers
<1> SUFFICES ASSUME OllamaTypeOK PROVE Current \in Answers /\ NoAnswer \in Answers
  OBVIOUS
<1>1. (daemon = "up") \in BOOLEAN
  OBVIOUS
<1> QED
  BY <1>1 DEF OllamaTypeOK, Answers, Current, NoAnswer

\* Every variable keeps its type.
LEMMA OllamaTypeStep == OllamaTypeOK /\ [OllamaNext]_ollamaVars => OllamaTypeOK'
<1> SUFFICES ASSUME OllamaTypeOK, [OllamaNext]_ollamaVars PROVE OllamaTypeOK'
  OBVIOUS
<1> DEFINE Query == [op : Ops \union {"none"}, pc : QueryPcs, model : SUBSET Models,
                     answer : Answers]
<1> USE DEF OllamaTypeOK
<1>q. NoQuery \in Query
  BY AnAnswer DEF NoQuery, Ops, QueryPcs
<1>a. ASSUME NEW c \in Callers, NEW op \in Ops, NEW model \in SUBSET Models,
             NEW pc \in QueryPcs, Ask(c, op, model, pc)
      PROVE  OllamaTypeOK'
  BY <1>a, <1>q DEF Ask
<1>m. ASSUME NEW c \in Callers, NEW pc \in QueryPcs, Move(c, pc)
      PROVE  query' \in [Callers -> Query]
  BY <1>m DEF Move
<1>d. ASSUME NEW c \in Callers, Done(c) PROVE query' \in [Callers -> Query]
  BY <1>d, <1>q DEF Done
<1>1. ASSUME NEW c \in Callers, StartAsking(c) PROVE OllamaTypeOK'
  BY <1>1, <1>a DEF StartAsking, Ops, QueryPcs
<1>2. ASSUME NEW c \in Callers, Probe(c) PROVE OllamaTypeOK'
  BY <1>2, AnAnswer DEF Probe, QueryPcs
<1>3. ASSUME NEW c \in Callers, Store(c) PROVE OllamaTypeOK'
  BY <1>3, <1>m, <1>d DEF Store, Stored, AfterStatus, Caches, QueryPcs
<1>4. ASSUME NEW c \in Callers, Verdict(c) PROVE OllamaTypeOK'
  BY <1>4, <1>d DEF Verdict, Caches
<1>5. ASSUME NEW c \in Callers, Post(c) PROVE OllamaTypeOK'
  BY <1>5, <1>m, <1>d DEF Post, QueryPcs
<1>c. ASSUME NEW c \in Callers PROVE Crossed(c) \in [Callers -> Query]
  BY <1>c DEF Crossed, Answers
<1>p. ASSUME NEW c \in Callers, NEW pc \in QueryPcs, Drop(c, pc)
      PROVE  query' \in [Callers -> Query] /\ tags' \in Caches /\ ready' \in Caches
  BY <1>p, <1>c, <1>q DEF Drop, Caches
<1>6. ASSUME NEW c \in Callers, Clear(c) PROVE OllamaTypeOK'
  <2>1. AfterClear(c) \in QueryPcs
    BY DEF AfterClear, QueryPcs
  <2> QED
    BY <1>6, <1>p, <2>1 DEF Clear
<1>7. ASSUME NEW c \in Callers, Command(c) PROVE OllamaTypeOK'
  <2>1. query' \in [Callers -> Query]
    BY <1>7, <1>m, <1>d DEF Command, QueryPcs, Ops
  <2> QED
    BY <1>7, <2>1 DEF Command
<1>8. ASSUME NEW c \in Callers, Wait(c) PROVE OllamaTypeOK'
  BY <1>8, <1>p DEF Wait, QueryPcs
<1>9. ASSUME NEW c \in Callers, Look(c) PROVE OllamaTypeOK'
  BY <1>9, <1>m, <1>d DEF Look, QueryPcs, Ops
<1>10. CASE EntryExpires
  BY <1>10 DEF EntryExpires, Caches
<1>11. CASE DaemonChanges
  BY <1>11 DEF DaemonChanges
<1>12. CASE UNCHANGED ollamaVars
  BY <1>12 DEF ollamaVars
<1> QED
  BY <1>1, <1>2, <1>3, <1>4, <1>5, <1>6, <1>7, <1>8, <1>9, <1>10, <1>11, <1>12
     DEF OllamaNext

\* Answers are held uncrossed only as long as no pull is announced.
LEMMA PullStep == PullIInv /\ [OllamaNext]_ollamaVars => HeldSeen' /\ PullIsSeen'
<1> SUFFICES ASSUME PullIInv, [OllamaNext]_ollamaVars PROVE HeldSeen' /\ PullIsSeen'
  OBVIOUS
<1> USE DEF PullIInv, OllamaTypeOK, HeldSeen, PullIsSeen, NoQuery
<1>1. ASSUME NEW c \in Callers, StartAsking(c) PROVE HeldSeen' /\ PullIsSeen'
  <2>1. ASSUME NEW op, NEW model, NEW pc, pc \notin {"store", "verdict"}, Ask(c, op, model, pc)
        PROVE  HeldSeen' /\ PullIsSeen'
    BY <2>1 DEF Ask
  <2>2. PICK op \in Ops, model \in SUBSET Models, pc \in {"probe", "post", "clear"} :
           Ask(c, op, model, pc)
    BY <1>1 DEF StartAsking, Ops
  <2> QED
    BY <2>1, <2>2
<1>2. ASSUME NEW c \in Callers, Probe(c) PROVE HeldSeen' /\ PullIsSeen'
  BY <1>2 DEF Probe, Current
<1>3. ASSUME NEW c \in Callers, Store(c) PROVE HeldSeen' /\ PullIsSeen'
  BY <1>3 DEF Store, At, Stored, AfterStatus, Move, Done
<1>4. ASSUME NEW c \in Callers, Verdict(c) PROVE HeldSeen' /\ PullIsSeen'
  BY <1>4 DEF Verdict, At, Done
<1>5. ASSUME NEW c \in Callers, Post(c) PROVE HeldSeen' /\ PullIsSeen'
  BY <1>5 DEF Post, Move, Done
<1>p. ASSUME NEW c \in Callers, NEW pc, pc \notin {"store", "verdict"}, Drop(c, pc),
             pulled' \subseteq installed'
      PROVE  HeldSeen' /\ PullIsSeen'
  <2>1. tags' = {} /\ ready' = {}
    BY <1>p DEF Drop
  <2>2. query'[c].pc \notin {"store", "verdict"}
    BY <1>p DEF Drop, Crossed
  <2>3. ASSUME NEW d \in Callers, d # c
        PROVE  \/ query'[d].pc \notin {"store", "verdict"}
               \/ query'[d].answer.crossed
    BY <1>p, <2>3 DEF Drop, Crossed, Answers
  <2> QED
    BY <1>p, <2>1, <2>2, <2>3
<1>6. ASSUME NEW c \in Callers, Clear(c) PROVE HeldSeen' /\ PullIsSeen'
  BY <1>6, <1>p DEF Clear, AfterClear
<1>7. ASSUME NEW c \in Callers, Command(c) PROVE HeldSeen' /\ PullIsSeen'
  BY <1>7 DEF Command, Move, Done
<1>8. ASSUME NEW c \in Callers, Wait(c) PROVE HeldSeen' /\ PullIsSeen'
  BY <1>8, <1>p DEF Wait
<1>9. ASSUME NEW c \in Callers, Look(c) PROVE HeldSeen' /\ PullIsSeen'
  BY <1>9 DEF Look, Move, Done
<1>10. CASE EntryExpires
  BY <1>10 DEF EntryExpires
<1>11. CASE DaemonChanges
  BY <1>11 DEF DaemonChanges
<1>12. CASE UNCHANGED ollamaVars
  BY <1>12 DEF ollamaVars
<1> QED
  BY <1>1, <1>2, <1>3, <1>4, <1>5, <1>6, <1>7, <1>8, <1>9, <1>10, <1>11, <1>12
     DEF OllamaNext

\* The invariant of the two caches is inductive.
THEOREM PullInvariant == OllamaSpec => []PullIInv
<1>1. OllamaInit => PullIInv
  BY AnAnswer DEF OllamaInit, PullIInv, OllamaTypeOK, HeldSeen, PullIsSeen, NoQuery, NoAnswer,
     Answers, Ops, QueryPcs, Caches
<1>2. PullIInv /\ [OllamaNext]_ollamaVars => PullIInv'
  BY OllamaTypeStep, PullStep DEF PullIInv
<1> QED
  BY <1>1, <1>2, PTL DEF OllamaSpec

\* No uncrossed entry of a cache is ignorant of a pulled model.
THEOREM PullsAreSeen == OllamaSpec => []PullIsSeen
<1>1. PullIInv => PullIsSeen
  BY DEF PullIInv
<1> QED
  BY <1>1, PullInvariant, PTL

-----------------------------------------------------------------------------
\* As long as switches do not overlap there is one at most, and what it has done
\* so far can be told from its step.
Orderly ==
    /\ \A q, r \in Routes : Switching(q) /\ Switching(r) => q = r
    /\ \A r \in Routes : Switching(r) => switch[r].to = chosen
    /\ \A r \in Routes :
         /\ switch[r].pc \in {"model", "embedding", "environ", "read", "open", "write",
                              "replace"} => config["provider"] = chosen
         /\ switch[r].pc \in {"embedding", "environ", "read", "open", "write", "replace"}
               => config["model"] = chosen
         /\ switch[r].pc \in {"environ", "read", "open", "write", "replace"}
               => config["embedding"] = chosen
         /\ switch[r].pc \in {"read", "open", "write", "replace"} => environ = chosen
         /\ switch[r].pc \in {"open", "write", "replace"} =>
               switch[r].text.token /\ switch[r].text.backend = chosen
         /\ switch[r].pc = "write" => envOpen[r] = "draft" /\ envDraft = NoLines("empty")
         /\ switch[r].pc = "replace" => envDraft = switch[r].text
         /\ switch[r].pc # "write" => envOpen[r] = "none"
         /\ Switching(r) => notInEnv
    /\ ~notInEnv => env.backend = chosen



USE BackendAssumption

\* The two marks of the history are true or false.
LEMMA SwitchMarks ==
    mixed \in BOOLEAN /\ notInEnv \in BOOLEAN /\ [ProviderNext]_providerVars
        => mixed' \in BOOLEAN /\ notInEnv' \in BOOLEAN
<1> SUFFICES ASSUME mixed \in BOOLEAN, notInEnv \in BOOLEAN, [ProviderNext]_providerVars
             PROVE  mixed' \in BOOLEAN /\ notInEnv' \in BOOLEAN
  OBVIOUS
<1>1. \A a, b : (a \/ b) \in BOOLEAN /\ (a = b) \in BOOLEAN
  OBVIOUS
<1>2. mixed' \in BOOLEAN
  BY <1>1 DEF ProviderNext, providerVars, Switch, Assign, SetEnviron, ReadEnv, OpenEnv,
     WriteEnv, ReplaceEnv, SaveEnvFails, Reexec, Relaunch
<1>3. notInEnv' \in BOOLEAN
  BY <1>1 DEF ProviderNext, providerVars, Switch, Assign, SetEnviron, ReadEnv, OpenEnv,
     WriteEnv, ReplaceEnv, SaveEnvFails, Reexec, Relaunch
<1> QED
  BY <1>2, <1>3

\* The three assignments, one by one.
LEMMA AssignOne ==
    ASSUME NEW r \in Routes, Assign(r)
    PROVE  \E g \in Globals : \E next \in {"model", "embedding", "environ"} :
              /\ switch[r].pc = g /\ GoTo(r, next)
              /\ config' = [config EXCEPT ![g] = switch[r].to]
              /\ g = "provider" => next = "model"
              /\ g = "model" => next = "embedding"
              /\ g = "embedding" => next = "environ"
<1>1. PICK step \in {<<"provider", "model">>, <<"model", "embedding">>,
                     <<"embedding", "environ">>} :
         /\ SwitchAt(r, step[1]) /\ GoTo(r, step[2])
         /\ config' = [config EXCEPT ![step[1]] = switch[r].to]
  BY DEF Assign
<1>2. CASE step = <<"provider", "model">>
  BY <1>1, <1>2 DEF SwitchAt, Globals
<1>3. CASE step = <<"model", "embedding">>
  BY <1>1, <1>3 DEF SwitchAt, Globals
<1>4. CASE step = <<"embedding", "environ">>
  BY <1>1, <1>4 DEF SwitchAt, Globals
<1> QED
  BY <1>1, <1>2, <1>3, <1>4

\* Every variable keeps its type, and a switch under way has a backend to go to.
Typed == ProviderTypeOK /\ \A r \in Routes : Switching(r) => switch[r].to \in Backends

\* Every step of a switch keeps the types.
LEMMA ProviderTypeStep == Typed /\ [ProviderNext]_providerVars => Typed'
<1> SUFFICES ASSUME Typed, [ProviderNext]_providerVars PROVE Typed'
  OBVIOUS
<1> USE DEF Typed, ProviderTypeOK, AnyBackend, EnvFile!Handles, Switching
<1>m. mixed' \in BOOLEAN /\ notInEnv' \in BOOLEAN
  BY SwitchMarks
<1>t. \A form \in {"missing", "empty", "torn"} : NoLines(form) \in EnvTexts
  BY DEF NoLines, EnvTexts
<1>n. NoSwitch \in [pc : {"idle", "provider", "model", "embedding", "environ",
                           "read", "open", "write", "replace"},
                     to : AnyBackend, text : EnvTexts] /\ NoSwitch.pc = "idle"
  BY <1>t DEF NoSwitch
<1>1. ASSUME NEW r \in Routes, NEW b \in Backends, Switch(r, b) PROVE Typed'
  BY <1>1, <1>m, <1>n DEF Switch
<1>2. ASSUME NEW r \in Routes, Assign(r) PROVE Typed'
  <2>1. PICK g \in Globals, next \in {"model", "embedding", "environ"} :
           /\ switch[r].pc = g /\ GoTo(r, next)
           /\ config' = [config EXCEPT ![g] = switch[r].to]
    BY <1>2, AssignOne
  <2>2. switch[r].to \in Backends
    BY <2>1 DEF Globals
  <2>3. config' \in [Globals -> Backends]
    BY <2>1, <2>2
  <2>4. /\ switch' = [switch EXCEPT ![r].pc = next]
        /\ UNCHANGED <<environ, env, envDraft, envOpen, chosen>>
    BY <1>2, <2>1 DEF Assign, GoTo
  <2> QED
    BY <1>m, <2>1, <2>2, <2>3, <2>4 DEF Globals
<1>3. ASSUME NEW r \in Routes, SetEnviron(r) PROVE Typed'
  BY <1>3, <1>m DEF SetEnviron, SwitchAt, GoTo
<1>4. ASSUME NEW r \in Routes, ReadEnv(r) PROVE Typed'
  <2>1. Upsert(env, switch[r].to) \in EnvTexts
    BY DEF Upsert, EnvTexts
  <2> QED
    BY <1>4, <1>m, <2>1 DEF ReadEnv, SwitchAt
<1>5. ASSUME NEW r \in Routes, OpenEnv(r) PROVE Typed'
  BY <1>5, <1>m, <1>t DEF OpenEnv, SwitchAt, GoTo, EnvFile!OpenDraft
<1>6. ASSUME NEW r \in Routes, WriteEnv(r) PROVE Typed'
  <2>1. switch[r].text \in EnvTexts
    OBVIOUS
  <2>2. env' \in EnvTexts /\ envDraft' \in EnvTexts
    BY <1>6, <1>t, <2>1 DEF WriteEnv, EnvFile!WriteText, EnvFile!Over
  <2>3. envOpen' \in [Routes -> EnvFile!Handles]
    BY <1>6 DEF WriteEnv, EnvFile!WriteText
  <2> QED
    BY <1>6, <1>m, <2>2, <2>3 DEF WriteEnv, SwitchAt, GoTo
<1>7. ASSUME NEW r \in Routes, ReplaceEnv(r) PROVE Typed'
  <2>1. envOpen' \in [Routes -> EnvFile!Handles]
    BY <1>7 DEF ReplaceEnv, EnvFile!Publish
  <2>2. env' \in EnvTexts /\ envDraft' \in EnvTexts
    BY <1>7, <1>t DEF ReplaceEnv, EnvFile!Publish
  <2> QED
    BY <1>7, <1>m, <1>n, <2>1, <2>2 DEF ReplaceEnv
<1>8. ASSUME NEW r \in Routes, SaveEnvFails(r) PROVE Typed'
  BY <1>8, <1>m, <1>n, <1>t DEF SaveEnvFails, EnvFile!Raise
<1>l. ASSUME NEW b \in AnyBackend, Launch(b)
      PROVE  /\ environ' \in AnyBackend /\ config' \in [Globals -> Backends]
             /\ chosen' \in Backends /\ envOpen' = [r \in Routes |-> "none"]
             /\ switch' = [r \in Routes |-> NoSwitch]
  BY <1>l DEF Launch, Filled, Resolved, EnvTexts
<1>9. CASE Reexec
  BY <1>9, <1>m, <1>n, <1>l DEF Reexec
<1>10. CASE Relaunch
  <2>1. env' \in EnvTexts
    BY <1>10 DEF Relaunch, EnvTexts
  <2>2. envDraft' \in EnvTexts
    BY <1>10, <1>t DEF Relaunch
  <2>3. Launch(NoBackend) /\ NoBackend \in AnyBackend
    BY <1>10 DEF Relaunch
  <2> QED
    BY <1>m, <1>n, <1>l, <2>1, <2>2, <2>3
<1>11. CASE UNCHANGED providerVars
  BY <1>11 DEF providerVars
<1> QED
  BY <1>1, <1>2, <1>3, <1>4, <1>5, <1>6, <1>7, <1>8, <1>9, <1>10, <1>11 DEF ProviderNext

ProviderIInv == Typed /\ (~mixed => Orderly) /\ ProviderAgrees

\* In an orderly run .env keeps its token, and an idle app has one backend.
Kept == (~mixed => env.token) /\ (~mixed /\ (\A r \in Routes : ~Switching(r)) =>
            config = [g \in Globals |-> chosen] /\ environ \in {chosen, NoBackend})

\* A switch that begins alone is the only one, until it ends or a second begins.
LEMMA OrderStep == ProviderIInv /\ [ProviderNext]_providerVars => (~mixed => Orderly)' /\ Kept'
<1> SUFFICES ASSUME ProviderIInv, [ProviderNext]_providerVars
             PROVE  (~mixed => Orderly)' /\ Kept'
  OBVIOUS
<1> USE DEF ProviderIInv, Typed, ProviderTypeOK, Orderly, Kept, ProviderAgrees, Switching,
            Globals
<1>1. ASSUME NEW r \in Routes, NEW b \in Backends, Switch(r, b)
      PROVE  (~mixed => Orderly)' /\ Kept'
  BY <1>1 DEF Switch, NoSwitch
<1>2. ASSUME NEW r \in Routes, Assign(r) PROVE (~mixed => Orderly)' /\ Kept'
  <2>1. PICK g \in Globals, next \in {"model", "embedding", "environ"} :
           /\ switch[r].pc = g /\ GoTo(r, next)
           /\ config' = [config EXCEPT ![g] = switch[r].to]
           /\ g = "provider" => next = "model"
           /\ g = "model" => next = "embedding"
           /\ g = "embedding" => next = "environ"
    BY <1>2, AssignOne
  <2>2. UNCHANGED <<environ, env, envDraft, envOpen, chosen, mixed, notInEnv>>
    BY <1>2 DEF Assign
  <2>3. switch' = [switch EXCEPT ![r].pc = next]
    BY <2>1 DEF GoTo
  <2> QED
    BY <2>1, <2>2, <2>3
<1>3. ASSUME NEW r \in Routes, SetEnviron(r) PROVE (~mixed => Orderly)' /\ Kept'
  BY <1>3 DEF SetEnviron, SwitchAt, GoTo
<1>4. ASSUME NEW r \in Routes, ReadEnv(r) PROVE (~mixed => Orderly)' /\ Kept'
  BY <1>4 DEF ReadEnv, SwitchAt, Upsert, EnvTexts
<1>5. ASSUME NEW r \in Routes, OpenEnv(r) PROVE (~mixed => Orderly)' /\ Kept'
  BY <1>5 DEF OpenEnv, SwitchAt, GoTo, EnvFile!OpenDraft
<1>6. ASSUME NEW r \in Routes, WriteEnv(r) PROVE (~mixed => Orderly)' /\ Kept'
  <2>1. ~mixed => envDraft' = switch[r].text /\ env' = env
    BY <1>6 DEF WriteEnv, SwitchAt, EnvFile!WriteText, EnvFile!Over
  <2>2. /\ switch' = [switch EXCEPT ![r].pc = "replace"] /\ switch[r].pc = "write"
        /\ envOpen' = [envOpen EXCEPT ![r] = "none"]
        /\ UNCHANGED <<config, environ, chosen, mixed, notInEnv>>
    BY <1>6 DEF WriteEnv, SwitchAt, GoTo, EnvFile!WriteText
  <2> QED
    BY <2>1, <2>2
<1>7. ASSUME NEW r \in Routes, ReplaceEnv(r) PROVE (~mixed => Orderly)' /\ Kept'
  <2>1. ~mixed => env' = switch[r].text /\ \A q \in Routes : envOpen'[q] = "none"
    BY <1>7 DEF ReplaceEnv, SwitchAt, EnvFile!Publish
  <2>2. /\ switch' = [switch EXCEPT ![r] = NoSwitch] /\ switch[r].pc = "replace"
        /\ notInEnv' = mixed /\ UNCHANGED <<config, environ, chosen, mixed>>
        /\ NoSwitch.pc = "idle"
    BY <1>7 DEF ReplaceEnv, SwitchAt, NoSwitch
  <2> QED
    BY <2>1, <2>2
<1>8. ASSUME NEW r \in Routes, SaveEnvFails(r) PROVE (~mixed => Orderly)' /\ Kept'
  <2>1. /\ switch' = [switch EXCEPT ![r] = NoSwitch] /\ NoSwitch.pc = "idle"
        /\ UNCHANGED <<config, environ, chosen, mixed, notInEnv, env>>
        /\ switch[r].pc \in {"open", "write", "replace"}
    BY <1>8 DEF SaveEnvFails, EnvFile!Raise, NoSwitch
  <2>2. ~mixed => \A q \in Routes : envOpen'[q] = "none"
    BY <1>8 DEF SaveEnvFails, EnvFile!Raise
  <2> QED
    BY <2>1, <2>2
<1>l. ASSUME NEW b, Launch(b)
      PROVE  /\ environ' = Filled(b)
             /\ \E c \in Resolved(environ') :
                   /\ config' = [g \in Globals |-> c]
                   /\ chosen' = IF notInEnv \/ mixed THEN c ELSE chosen
             /\ \A r \in Routes : switch'[r].pc = "idle" /\ envOpen'[r] = "none"
  BY <1>l DEF Launch, NoSwitch
<1>9. CASE Reexec
  <2>1. Launch(environ) /\ UNCHANGED <<env, envDraft, mixed, notInEnv>>
    BY <1>9 DEF Reexec
  <2>2. ~mixed /\ ~notInEnv => environ' = chosen /\ chosen' = chosen
    BY <1>l, <2>1 DEF Filled, AnyBackend
  <2>3. ~mixed => /\ config' = [g \in Globals |-> chosen']
                  /\ environ' \in {chosen', NoBackend}
    BY <1>l, <2>1, <2>2 DEF Resolved
  <2> QED
    BY <1>l, <2>1, <2>2, <2>3
<1>10. CASE Relaunch
  <2>1. /\ Launch(NoBackend) /\ env'.token /\ env'.backend = env.backend
        /\ notInEnv' = (env.backend = NoBackend) /\ mixed' = FALSE
    BY <1>10 DEF Relaunch, EnvTexts
  <2>2. environ' = env.backend
    BY <1>l, <2>1 DEF Filled
  <2>3. ~mixed /\ ~notInEnv => env.backend = chosen
    OBVIOUS
  <2>4. /\ config' = [g \in Globals |-> chosen'] /\ environ' \in {chosen', NoBackend}
        /\ env.backend # NoBackend => chosen' = env.backend
    BY <1>l, <2>1, <2>2, <2>3 DEF Resolved
  <2> QED
    BY <1>l, <2>1, <2>2, <2>4
<1>11. CASE UNCHANGED providerVars
  BY <1>11 DEF providerVars
<1> QED
  BY <1>1, <1>2, <1>3, <1>4, <1>5, <1>6, <1>7, <1>8, <1>9, <1>10, <1>11 DEF ProviderNext

\* The invariant of the provider's choice is inductive.
THEOREM ProviderInvariant == ProviderSpec => []ProviderIInv
<1>1. ProviderInit => ProviderIInv
  <2> SUFFICES ASSUME ProviderInit PROVE ProviderIInv
    OBVIOUS
  <2>1. /\ Lines(NoBackend, TRUE) \in EnvTexts /\ NoLines("missing") \in EnvTexts
        /\ Lines(NoBackend, TRUE).token
    BY DEF Lines, NoLines, EnvTexts, AnyBackend
  <2>2. NoSwitch \in [pc : {"idle", "provider", "model", "embedding", "environ",
                            "read", "open", "write", "replace"},
                      to : AnyBackend, text : EnvTexts] /\ NoSwitch.pc = "idle"
    BY <2>1 DEF NoSwitch, AnyBackend
  <2>3. Typed
    BY <2>1, <2>2 DEF ProviderInit, Typed, ProviderTypeOK, Switching, Globals, AnyBackend,
       EnvFile!Handles
  <2>4. Orderly
    BY <2>2 DEF ProviderInit, Orderly, Switching
  <2>5. ProviderAgrees
    BY <2>1 DEF ProviderInit, ProviderAgrees
  <2> QED
    BY <2>3, <2>4, <2>5 DEF ProviderIInv
<1>2. ProviderIInv /\ [ProviderNext]_providerVars => ProviderIInv'
  <2> SUFFICES ASSUME ProviderIInv, [ProviderNext]_providerVars PROVE ProviderIInv'
    OBVIOUS
  <2>1. Typed' /\ (~mixed => Orderly)' /\ Kept'
    BY ProviderTypeStep, OrderStep DEF ProviderIInv
  <2>2. ProviderAgrees'
    BY <2>1 DEF Kept, Orderly, ProviderAgrees
  <2> QED
    BY <2>1, <2>2 DEF ProviderIInv
<1> QED
  BY <1>1, <1>2, PTL DEF ProviderSpec

\* An idle app that was switched in order has one backend in all four places.
THEOREM ProvidersAgree == ProviderSpec => []ProviderAgrees
<1>1. ProviderIInv => ProviderAgrees
  BY DEF ProviderIInv
<1> QED
  BY <1>1, ProviderInvariant, PTL

-----------------------------------------------------------------------------
USE SettingsAssumption

\* A writer's file is open while it writes, and under another name only after
\* writers crossed.
FilesOpen ==
    /\ \A p \in Processes : doing[p].pc # "write" => setOpen[p] = "none"
    /\ ~crossed => \A p \in Processes : setOpen[p] # "file"

\* Who writes alone finds its own text under the temporary name, and what it read
\* under the real one.
WritesAlone ==
    ~together =>
      /\ \A p, q \in Processes : InWrite(p) /\ InWrite(q) => p = q
      /\ \A p \in Processes :
           /\ doing[p].pc = "write" => setOpen[p] = "draft" /\ setDraft = Unreadable("empty")
           /\ doing[p].pc = "replace" => setDraft = Valid(doing[p].value)
           /\ ~crossed /\ InWrite(p) /\ doing[p].op = "seed" =>
                 setFile = NoText /\ doing[p].value = Default
           /\ ~crossed /\ InWrite(p) /\ doing[p].op = "migrate" =>
                 setFile = Old(doing[p].value)
           /\ InWrite(p) => doing[p].op \in {"seed", "migrate", "save"}

SettingsIInv == SettingsTypeOK /\ FilesOpen /\ WritesAlone /\ SettingsKept

\* The two marks of the history are true or false.
LEMMA SettingsMarks ==
    crossed \in BOOLEAN /\ together \in BOOLEAN /\ [SettingsNext]_settingsVars
        => crossed' \in BOOLEAN /\ together' \in BOOLEAN
<1> SUFFICES ASSUME crossed \in BOOLEAN, together \in BOOLEAN, [SettingsNext]_settingsVars
             PROVE  crossed' \in BOOLEAN /\ together' \in BOOLEAN
  OBVIOUS
<1>1. \A a, b : (a \/ b) \in BOOLEAN /\ (a /\ b) \in BOOLEAN
  OBVIOUS
<1>2. crossed' \in BOOLEAN
  BY <1>1 DEF SettingsNext, settingsVars, StartPoller, Poll, PollRaises, Save, HandEdit,
     StartProcess, SettingsStep, StopProcess, OpenSettings, WriteSettings, ReplaceSettings,
     SettingsRaise, Load
<1>3. together' \in BOOLEAN
  BY <1>1 DEF SettingsNext, settingsVars, StartPoller, Poll, PollRaises, Save, HandEdit,
     StartProcess, SettingsStep, StopProcess, OpenSettings, WriteSettings, ReplaceSettings,
     SettingsRaise, Load, StartWrite, EndWrite, Proceed
<1> QED
  BY <1>2, <1>3

\* Every variable keeps its type.
LEMMA SettingsTypeStep == SettingsTypeOK /\ [SettingsNext]_settingsVars => SettingsTypeOK'
<1> SUFFICES ASSUME SettingsTypeOK, [SettingsNext]_settingsVars PROVE SettingsTypeOK'
  OBVIOUS
<1> USE DEF SettingsTypeOK, Text!Handles
<1>m. crossed' \in BOOLEAN /\ together' \in BOOLEAN
  BY SettingsMarks
<1>t. /\ \A v \in AnyValue : Valid(v) \in Texts /\ Old(v) \in Texts
      /\ \A form \in {"missing", "empty", "torn"} : Unreadable(form) \in Texts
      /\ NoText \in Texts /\ Default \in AnyValue
  BY DEF Valid, Old, Unreadable, NoText, Texts, AnyValue
<1>w. ASSUME NEW p \in Processes, NEW op \in {"seed", "migrate", "save"}, NEW v \in AnyValue,
             StartWrite(p, op, v)
      PROVE  doing' \in [Processes -> [op : {"none", "seed", "migrate", "save"},
                                       pc : {"idle", "open", "write", "replace"},
                                       value : AnyValue]]
  BY <1>w DEF StartWrite
<1>e. ASSUME NEW p \in Processes, EndWrite(p)
      PROVE  doing' \in [Processes -> [op : {"none", "seed", "migrate", "save"},
                                       pc : {"idle", "open", "write", "replace"},
                                       value : AnyValue]]
  BY <1>e, <1>t DEF EndWrite, Resting
<1>a. ASSUME NEW p \in Processes, NEW v \in AnyValue, Adopt(p, v)
      PROVE  cache' \in [Processes -> [form : {"none", "loaded"}, value : AnyValue]]
  BY <1>a DEF Adopt, Loaded
<1>l. ASSUME NEW p \in Processes, Load(p), poller' \in {"off", "on", "dead"}
      PROVE  SettingsTypeOK'
  <2>1. setFile.value \in AnyValue
    BY DEF Texts
  <2>2. UNCHANGED <<setFile, setDraft, setOpen, wanted, crossed>>
    BY <1>l DEF Load
  <2>3. CASE StartWrite(p, "seed", Default) /\ UNCHANGED <<cache, behind>>
    BY <1>l, <1>m, <1>t, <1>w, <2>2, <2>3
  <2>4. CASE StartWrite(p, "migrate", setFile.value) /\ UNCHANGED <<cache, behind>>
    BY <1>l, <1>m, <1>w, <2>1, <2>2, <2>4
  <2>5. CASE Adopt(p, setFile.value) /\ behind' = behind \ {p} /\ UNCHANGED <<doing, together>>
    BY <1>l, <1>m, <1>a, <2>1, <2>2, <2>5
  <2> QED
    BY <1>l, <2>3, <2>4, <2>5 DEF Load
<1>1. ASSUME NEW p \in Processes, StartProcess(p) PROVE SettingsTypeOK'
  BY <1>1, <1>l DEF StartProcess
<1>2. CASE StartPoller \/ PollRaises
  BY <1>2 DEF StartPoller, PollRaises
<1>3. CASE Poll
  BY <1>3, <1>l DEF Poll
<1>4. ASSUME NEW v \in AnyValue, Save(v) PROVE SettingsTypeOK'
  BY <1>4, <1>m, <1>w DEF Save
<1>p. ASSUME NEW p \in Processes, NEW pc \in {"write", "replace"}, Proceed(p, pc)
      PROVE  doing' \in [Processes -> [op : {"none", "seed", "migrate", "save"},
                                       pc : {"idle", "open", "write", "replace"},
                                       value : AnyValue]]
  BY <1>p DEF Proceed
<1>5. ASSUME NEW p \in Processes, OpenSettings(p) PROVE SettingsTypeOK'
  BY <1>5, <1>m, <1>p, <1>t DEF OpenSettings, Text!OpenDraft
<1>6. ASSUME NEW p \in Processes, WriteSettings(p) PROVE SettingsTypeOK'
  <2>1. Valid(doing[p].value) \in Texts
    BY <1>t
  <2>2. setFile' \in Texts /\ setDraft' \in Texts
    BY <1>6, <1>t, <2>1 DEF WriteSettings, Text!WriteText, Text!Over
  <2>3. setOpen' \in [Processes -> Text!Handles]
    BY <1>6 DEF WriteSettings, Text!WriteText
  <2> QED
    BY <1>6, <1>m, <1>p, <2>2, <2>3 DEF WriteSettings
<1>7. ASSUME NEW p \in Processes, ReplaceSettings(p) PROVE SettingsTypeOK'
  <2>1. setFile' \in Texts /\ setDraft' \in Texts
    BY <1>7, <1>t DEF ReplaceSettings, Text!Publish
  <2>2. setOpen' \in [Processes -> Text!Handles]
    BY <1>7 DEF ReplaceSettings, Text!Publish
  <2>3. doing[p].value \in AnyValue
    OBVIOUS
  <2> QED
    BY <1>7, <1>a, <1>e, <1>m, <1>t, <2>1, <2>2, <2>3 DEF ReplaceSettings
<1>8. ASSUME NEW p \in Processes, SettingsRaise(p) PROVE SettingsTypeOK'
  BY <1>8, <1>e, <1>m, <1>t DEF SettingsRaise, Text!Raise
<1>9. ASSUME NEW p \in Processes, StopProcess(p) PROVE SettingsTypeOK'
  <2>1. NoCache \in [form : {"none", "loaded"}, value : AnyValue]
    BY <1>t DEF NoCache
  <2> QED
    BY <1>9, <1>e, <1>m, <2>1 DEF StopProcess, Text!CloseAll
<1>10. ASSUME NEW text \in Edits, HandEdit(text) PROVE SettingsTypeOK'
  <2>1. text \in Texts
    BY <1>t DEF Edits
  <2> QED
    BY <1>10, <1>m, <2>1 DEF HandEdit, Text!ReplaceBy
<1>11. CASE UNCHANGED settingsVars
  BY <1>11 DEF settingsVars
<1> QED
  BY <1>1, <1>2, <1>3, <1>4, <1>5, <1>6, <1>7, <1>8, <1>9, <1>10, <1>11
     DEF SettingsNext, SettingsStep
\* A writer holds its file open only while it writes; the real name comes to bear
\* an open file only when writers cross.
LEMMA FilesOpenStep == SettingsIInv /\ [SettingsNext]_settingsVars => FilesOpen'
<1> SUFFICES ASSUME SettingsIInv, [SettingsNext]_settingsVars PROVE FilesOpen'
  OBVIOUS
<1> USE DEF SettingsIInv, SettingsTypeOK, FilesOpen
<1>l. ASSUME NEW p \in Processes, Load(p), ~InWrite(p) PROVE FilesOpen'
  BY <1>l DEF Load, StartWrite, InWrite
<1>1. ASSUME NEW p \in Processes, StartProcess(p) PROVE FilesOpen'
  BY <1>1, <1>l DEF StartProcess
<1>2. CASE StartPoller \/ PollRaises
  BY <1>2 DEF StartPoller, PollRaises
<1>3. CASE Poll
  BY <1>3, <1>l DEF Poll
<1>4. ASSUME NEW v \in AnyValue, Save(v) PROVE FilesOpen'
  BY <1>4 DEF Save, StartWrite, InWrite
<1>5. ASSUME NEW p \in Processes, OpenSettings(p) PROVE FilesOpen'
  BY <1>5 DEF OpenSettings, Text!OpenDraft, Proceed
<1>6. ASSUME NEW p \in Processes, WriteSettings(p) PROVE FilesOpen'
  BY <1>6 DEF WriteSettings, Text!WriteText, Proceed
<1>7. ASSUME NEW p \in Processes, ReplaceSettings(p) PROVE FilesOpen'
  <2>1. setOpen[p] = "none"
    BY <1>7 DEF ReplaceSettings
  <2>2. \A q \in Processes : doing'[q].pc # "write" => setOpen'[q] = "none"
    BY <1>7, <2>1 DEF ReplaceSettings, Text!Publish, EndWrite, Resting
  <2>3. ASSUME ~crossed' PROVE \A q \in Processes : setOpen'[q] # "file"
    <3>1. ~together
      BY <1>7, <2>3 DEF ReplaceSettings
    <3>2. \A q \in Processes : setOpen[q] = "none"
      BY <1>7, <2>1, <3>1 DEF ReplaceSettings, WritesAlone, InWrite
    <3> QED
      BY <1>7, <3>2 DEF ReplaceSettings, Text!Publish
  <2> QED
    BY <2>2, <2>3
<1>8. ASSUME NEW p \in Processes, SettingsRaise(p) PROVE FilesOpen'
  BY <1>8 DEF SettingsRaise, Text!Raise, EndWrite, Resting
<1>9. ASSUME NEW p \in Processes, StopProcess(p) PROVE FilesOpen'
  BY <1>9 DEF StopProcess, Text!CloseAll, EndWrite, Resting
<1>10. ASSUME NEW text \in Edits, HandEdit(text) PROVE FilesOpen'
  BY <1>10 DEF HandEdit, Text!ReplaceBy, InWrite
<1>11. CASE UNCHANGED settingsVars
  BY <1>11 DEF settingsVars
<1> QED
  BY <1>1, <1>2, <1>3, <1>4, <1>5, <1>6, <1>7, <1>8, <1>9, <1>10, <1>11
     DEF SettingsNext, SettingsStep

\* Who writes alone goes on to find what it left and what it read.
LEMMA AloneStep == SettingsIInv /\ [SettingsNext]_settingsVars => WritesAlone'
<1> SUFFICES ASSUME SettingsIInv, [SettingsNext]_settingsVars PROVE WritesAlone'
  OBVIOUS
<1> USE DEF SettingsIInv, SettingsTypeOK, FilesOpen, WritesAlone, InWrite
<1>w. ASSUME NEW p \in Processes, NEW op \in {"seed", "migrate", "save"}, NEW v \in AnyValue,
             StartWrite(p, op, v), ~InWrite(p), UNCHANGED <<setFile, setDraft, setOpen, crossed>>,
             op = "seed" => setFile = NoText /\ v = Default,
             op = "migrate" => setFile = Old(v)
      PROVE  WritesAlone'
  BY <1>w DEF StartWrite, OthersWrite
<1>l. ASSUME NEW p \in Processes, Load(p), ~InWrite(p) PROVE WritesAlone'
  <2>1. setFile.value \in AnyValue /\ Default \in AnyValue
    BY DEF Texts, AnyValue
  <2>2. setFile.form = "old" => setFile = Old(setFile.value)
    BY DEF Texts, Old
  <2>3. UNCHANGED <<setFile, setDraft, setOpen, crossed>>
    BY <1>l DEF Load
  <2>4. CASE setFile = NoText /\ StartWrite(p, "seed", Default)
    BY <1>l, <1>w, <2>1, <2>3, <2>4
  <2>5. CASE setFile.form = "old" /\ StartWrite(p, "migrate", setFile.value)
    BY <1>l, <1>w, <2>1, <2>2, <2>3, <2>5
  <2>6. CASE UNCHANGED <<doing, together>>
    BY <2>3, <2>6
  <2> QED
    BY <1>l, <2>4, <2>5, <2>6 DEF Load
<1>1. ASSUME NEW p \in Processes, StartProcess(p) PROVE WritesAlone'
  BY <1>1, <1>l DEF StartProcess
<1>2. CASE StartPoller \/ PollRaises
  BY <1>2 DEF StartPoller, PollRaises
<1>3. CASE Poll
  BY <1>3, <1>l, SettingsAssumption DEF Poll
<1>4. ASSUME NEW v \in AnyValue, Save(v) PROVE WritesAlone'
  BY <1>4, <1>w, SettingsAssumption DEF Save
<1>5. ASSUME NEW p \in Processes, OpenSettings(p) PROVE WritesAlone'
  BY <1>5 DEF OpenSettings, Text!OpenDraft, Proceed
<1>6. ASSUME NEW p \in Processes, WriteSettings(p) PROVE WritesAlone'
  <2>1. CASE together
    BY <1>6, <2>1 DEF WriteSettings, Proceed
  <2>2. CASE ~together
    <3>1. setOpen[p] = "draft" /\ setDraft = Unreadable("empty")
      BY <1>6, <2>2 DEF WriteSettings
    <3>2. setDraft' = Valid(doing[p].value) /\ setFile' = setFile
      BY <1>6, <3>1 DEF WriteSettings, Text!WriteText, Text!Over
    <3>3. doing' = [doing EXCEPT ![p].pc = "replace"] /\ UNCHANGED <<together, crossed>>
      BY <1>6 DEF WriteSettings, Proceed
    <3> QED
      BY <1>6, <2>2, <3>2, <3>3 DEF WriteSettings
  <2> QED
    BY <2>1, <2>2
<1>o. ASSUME NEW p \in Processes, EndWrite(p), ~together, InWrite(p) PROVE WritesAlone'
  BY <1>o DEF EndWrite, OthersWrite, Resting
<1>t. ASSUME NEW p \in Processes, EndWrite(p), together PROVE WritesAlone'
  BY <1>t DEF EndWrite, OthersWrite, Resting
<1>7. ASSUME NEW p \in Processes, ReplaceSettings(p) PROVE WritesAlone'
  BY <1>7, <1>o, <1>t DEF ReplaceSettings
<1>8. ASSUME NEW p \in Processes, SettingsRaise(p) PROVE WritesAlone'
  BY <1>8, <1>o, <1>t DEF SettingsRaise
<1>9. ASSUME NEW p \in Processes, StopProcess(p) PROVE WritesAlone'
  BY <1>9, <1>t DEF StopProcess, Text!CloseAll, EndWrite, OthersWrite, Resting
<1>10. ASSUME NEW text \in Edits, HandEdit(text) PROVE WritesAlone'
  BY <1>10 DEF HandEdit, Text!ReplaceBy
<1>11. CASE UNCHANGED settingsVars
  BY <1>11 DEF settingsVars
<1> QED
  BY <1>1, <1>2, <1>3, <1>4, <1>5, <1>6, <1>7, <1>8, <1>9, <1>10, <1>11
     DEF SettingsNext, SettingsStep
\* No step of a writer that is alone, and no crash, leaves another text than the
\* user's, or a cache that is behind without being counted as such.
LEMMA KeptStep == SettingsIInv /\ [SettingsNext]_settingsVars => SettingsKept'
<1> SUFFICES ASSUME SettingsIInv, [SettingsNext]_settingsVars, ~crossed'
             PROVE  SettingsKept'
  BY DEF SettingsKept
<1> USE DEF SettingsIInv, SettingsTypeOK, SettingsKept, InWrite
<1>d. NoText = [form |-> "missing", value |-> Default]
  BY DEF NoText
<1>u. ASSUME UNCHANGED <<setFile, wanted, crossed>>,
             \A q \in Processes : Running(q)' /\ q \notin behind' =>
                 \/ q \notin behind /\ cache'[q] = cache[q]
                 \/ setFile = Valid(cache'[q].value)
      PROVE  SettingsKept'
  BY <1>u DEF Running
<1>l. ASSUME NEW p \in Processes, Load(p) PROVE SettingsKept'
  <2>1. UNCHANGED <<setFile, wanted, crossed>>
    BY <1>l DEF Load
  <2>2. CASE UNCHANGED <<cache, behind>>
    BY <1>u, <2>1, <2>2
  <2>3. CASE setFile.form = "valid" /\ Adopt(p, setFile.value) /\ behind' = behind \ {p}
    <3>1. setFile = Valid(setFile.value)
      BY <2>3 DEF Texts, Valid
    <3>2. cache'[p].value = setFile.value
      BY <2>3 DEF Adopt, Loaded
    <3>3. \A q \in Processes \ {p} : cache'[q] = cache[q]
      BY <2>3 DEF Adopt
    <3> QED
      BY <1>u, <2>1, <2>3, <3>1, <3>2, <3>3
  <2> QED
    BY <1>l, <2>2, <2>3 DEF Load
<1>1. ASSUME NEW p \in Processes, StartProcess(p) PROVE SettingsKept'
  BY <1>1, <1>l DEF StartProcess
<1>2. CASE StartPoller \/ PollRaises
  BY <1>2, <1>u DEF StartPoller, PollRaises
<1>3. CASE Poll
  BY <1>3, <1>l, SettingsAssumption DEF Poll
<1>4. ASSUME NEW v \in AnyValue, Save(v) PROVE SettingsKept'
  BY <1>4, <1>u DEF Save
<1>5. ASSUME NEW p \in Processes, OpenSettings(p) PROVE SettingsKept'
  BY <1>5, <1>u DEF OpenSettings, Text!OpenDraft
<1>6. ASSUME NEW p \in Processes, WriteSettings(p) PROVE SettingsKept'
  <2>1. setOpen[p] # "file"
    BY <1>6 DEF WriteSettings, FilesOpen
  <2>2. UNCHANGED setFile
    BY <1>6, <2>1 DEF WriteSettings, Text!WriteText
  <2> QED
    BY <1>6, <1>u, <2>2 DEF WriteSettings
<1>7. ASSUME NEW p \in Processes, ReplaceSettings(p) PROVE SettingsKept'
  <2>1. ~together
    BY <1>7 DEF ReplaceSettings
  <2>2. setFile' = Valid(doing[p].value)
    BY <1>7, <2>1 DEF ReplaceSettings, Text!Publish, WritesAlone
  <2>3. /\ cache'[p].value = doing[p].value
        /\ \A q \in Processes : q \notin behind' => q = p
    BY <1>7 DEF ReplaceSettings, Adopt, Loaded
  <2>4. \/ setFile' = wanted'
        \/ wanted'.form = "old" /\ setFile' = Valid(wanted'.value)
        \/ wanted' = NoText /\ setFile' = Valid(Default)
    <3>1. CASE doing[p].op = "save"
      BY <1>7, <2>2, <3>1 DEF ReplaceSettings
    <3>2. CASE doing[p].op # "save"
      <4>1. ~crossed /\ wanted' = wanted
        BY <1>7, <3>2 DEF ReplaceSettings
      <4>2. CASE doing[p].op = "seed"
        <5>1. setFile = NoText /\ doing[p].value = Default
          BY <1>7, <2>1, <4>1, <4>2 DEF ReplaceSettings, WritesAlone
        <5>2. wanted = NoText
          BY <4>1, <5>1 DEF NoText, Valid
        <5> QED
          BY <2>2, <4>1, <5>1, <5>2
      <4>3. CASE doing[p].op = "migrate"
        <5>1. setFile = Old(doing[p].value)
          BY <1>7, <2>1, <4>1, <4>3 DEF ReplaceSettings, WritesAlone
        <5>2. wanted.form = "old" /\ wanted.value = doing[p].value
          BY <4>1, <5>1 DEF Old, Valid
        <5> QED
          BY <2>2, <4>1, <5>2
      <4>4. doing[p].op \in {"seed", "migrate"}
        BY <1>7, <2>1, <3>2 DEF ReplaceSettings, WritesAlone
      <4> QED
        BY <4>2, <4>3, <4>4
    <3> QED
      BY <3>1, <3>2
  <2> QED
    BY <2>2, <2>3, <2>4
<1>8. ASSUME NEW p \in Processes, SettingsRaise(p) PROVE SettingsKept'
  BY <1>8, <1>u DEF SettingsRaise, Text!Raise
<1>9. ASSUME NEW p \in Processes, StopProcess(p) PROVE SettingsKept'
  <2>1. UNCHANGED <<setFile, wanted, crossed, behind>>
    BY <1>9 DEF StopProcess, Text!CloseAll
  <2>2. \A q \in Processes : Running(q)' => cache'[q] = cache[q]
    BY <1>9 DEF StopProcess, Running
  <2> QED
    BY <1>u, <2>1, <2>2
<1>10. ASSUME NEW text \in Edits, HandEdit(text) PROVE SettingsKept'
  BY <1>10 DEF HandEdit, Text!ReplaceBy
<1>11. CASE UNCHANGED settingsVars
  BY <1>11, <1>u DEF settingsVars
<1> QED
  BY <1>1, <1>2, <1>3, <1>4, <1>5, <1>6, <1>7, <1>8, <1>9, <1>10, <1>11
     DEF SettingsNext, SettingsStep

\* The invariant of the settings holds initially and is kept.
THEOREM SettingsInvariant == SettingsSpec => []SettingsIInv
<1>1. ASSUME SettingsInit PROVE SettingsIInv
  <2>1. SettingsTypeOK
    <3>1. setFile \in Texts /\ setDraft \in Texts
      BY <1>1 DEF SettingsInit, NoText, Valid, Old, Texts, AnyValue
    <3>2. /\ NoCache \in [form : {"none", "loaded"}, value : AnyValue]
          /\ Resting \in [op : {"none", "seed", "migrate", "save"},
                          pc : {"idle", "open", "write", "replace"}, value : AnyValue]
      BY DEF NoCache, Resting, AnyValue
    <3> QED
      BY <1>1, <3>1, <3>2 DEF SettingsInit, SettingsTypeOK, Text!Handles
  <2>2. FilesOpen /\ WritesAlone
    BY <1>1 DEF SettingsInit, FilesOpen, WritesAlone, InWrite, Resting
  <2>3. SettingsKept
    BY <1>1 DEF SettingsInit, SettingsKept, Running
  <2> QED
    BY <2>1, <2>2, <2>3 DEF SettingsIInv
<1>2. SettingsIInv /\ [SettingsNext]_settingsVars => SettingsIInv'
  BY SettingsTypeStep, FilesOpenStep, AloneStep, KeptStep DEF SettingsIInv
<1> QED
  BY <1>1, <1>2, PTL DEF SettingsSpec

\* For any processes and values: what the user saved or wrote stays, and who has
\* loaded since acts on it, unless writers crossed.
THEOREM SettingsAreKept == SettingsSpec => []SettingsKept
<1>1. SettingsIInv => SettingsKept
  BY DEF SettingsIInv
<1> QED
  BY <1>1, SettingsInvariant, PTL

-----------------------------------------------------------------------------
(* Uploads. *)

\* An upload under way holds a name, and counts every scan that may still take
\* that name as a rival.  What lies in the inbox was uploaded.
Reserved ==
    /\ \A s \in Scans : upload[s] = "receiving" =>
         /\ dest[s] \in InboxNames
         /\ inbox[dest[s]] \in rivals[s] \union {NoScan}
         /\ \A r \in Scans : upload[r] \in {"none", "receiving"} => r \in rivals[s]
    /\ \A n \in InboxNames : inbox[n] # NoScan => upload[inbox[n]] = "stored"

\* The filing thread's scan is in the archive from the copy on; until its source
\* is retired it bears its name, unless a clear or a rival took it away.
Custodial ==
    /\ filing.at = "idle" <=> filing = NotFiling
    /\ filing.at # "idle" => filing.name \in InboxNames /\ filing.scan \in Scans
    /\ filing.at \in {"row", "retire", "index"} => filing.scan \in archive \union cleared
    /\ filing.at \in {"row", "retire"} =>
         inbox[filing.name] = filing.scan \/ filing.scan \in cleared \union excused

\* A filing about to write a row has its copy, unless a clear that listed an older
\* row of the scan took it, and an older row has been marked by such a clear; one
\* that has written its row still has it, or a clear has marked the scan.
FilingRecorded ==
    /\ filing.at = "row" =>
         /\ filing.scan \in archive \union half
         /\ filing.scan \in rows => filing.scan \in half
    /\ Unindexed \subseteq rows \union stray

\* Until a clear drops the table, it has passed over every file that still has a
\* row.
ClearMarks ==
    clearing \in {"files", "inbox"} => rows \intersect archive \subseteq left \union Unrecorded

StoresInOrder == FilingRecorded /\ ClearMarks /\ StoresAgree

UploadIInv == /\ UploadTypeOK /\ Reserved /\ Custodial /\ PartialsExplained
              /\ UploadKept /\ StoresInOrder

-----------------------------------------------------------------------------
USE NamesAssumption

\* Every variable keeps its type.
LEMMA UploadTypeStep == UploadTypeOK /\ Reserved /\ Custodial /\ [UploadNext]_uploadVars
                            => UploadTypeOK'
<1> SUFFICES ASSUME UploadTypeOK, Reserved, Custodial, [UploadNext]_uploadVars
             PROVE  UploadTypeOK'
  OBVIOUS
<1> USE DEF UploadTypeOK, InboxNames, NotFiling, Forgotten, Filed
<1>1. ASSUME NEW s \in Scans, BeginUpload(s) PROVE UploadTypeOK'
  BY <1>1 DEF BeginUpload
<1>2. ASSUME NEW s \in Scans, RejectUpload(s) PROVE UploadTypeOK'
  BY <1>2 DEF RejectUpload
<1>3. ASSUME NEW s \in Scans, StoreUpload(s) PROVE UploadTypeOK'
  BY <1>3 DEF StoreUpload, Reserved
<1>4. ASSUME NEW n \in InboxNames, TakeScan(n) PROVE UploadTypeOK'
  BY <1>4 DEF TakeScan
<1>5. CASE CopyScan
  <2>1. filing.name \in InboxNames
    BY <1>5 DEF CopyScan, Custodial
  <2>2. inbox[filing.name] \in Scans \union {NoScan}
    BY <2>1
  <2>3. filing' \in [at : {"idle", "copy", "row", "retire", "index"}, name : 0..MaxName,
                     scan : Scans \union {NoScan}]
    <3>1. CASE filing' = NotFiling
      BY <3>1
    <3>2. CASE filing' = [filing EXCEPT !.at = "row", !.scan = inbox[filing.name]]
      BY <2>2, <3>2
    <3> QED
      BY <1>5, <3>1, <3>2 DEF CopyScan
  <2>4. archive' \in SUBSET Scans
    BY <1>5, <2>1, <2>2 DEF CopyScan
  <2> QED
    BY <1>5, <2>3, <2>4 DEF CopyScan
<1>6. CASE SaveMetadata
  <2>1. filing.scan \in Scans /\ Unlisted(filing.scan) \subseteq Scans
    BY <1>6 DEF SaveMetadata, Custodial, Unlisted
  <2>2. filing' \in [at : {"idle", "copy", "row", "retire", "index"}, name : 0..MaxName,
                     scan : Scans \union {NoScan}]
    BY <1>6 DEF SaveMetadata
  <2> QED
    BY <1>6, <2>1, <2>2 DEF SaveMetadata
<1>7. CASE RetireScan
  BY <1>7 DEF RetireScan, Custodial
<1>8. CASE IndexScan
  BY <1>8 DEF IndexScan, Custodial
<1>n. ASSUME ClearNames
      PROVE  inbox' \in [InboxNames -> Scans \union {NoScan}] /\ cleared' \in SUBSET Scans
  BY <1>n DEF ClearNames
<1>9. CASE ClearInbox
  BY <1>9, <1>n DEF ClearInbox
<1>10. CASE ClearFiles
  BY <1>10 DEF ClearFiles, Listings, Deletable, DeleteFiles
<1>11. CASE ClearScans
  BY <1>11, <1>n DEF ClearScans
<1>12. CASE ClearTable \/ ClearIndex \/ ClearFails
  BY <1>12 DEF ClearTable, ClearIndex, ClearFails, Custodial, Unindexed
<1>13. CASE StopServer
  BY <1>13 DEF StopServer, Custodial, Unrecorded
<1>14. CASE UNCHANGED uploadVars
  BY <1>14 DEF uploadVars
<1> QED
  BY <1>1, <1>2, <1>3, <1>4, <1>5, <1>6, <1>7, <1>8, <1>9, <1>10, <1>11, <1>12, <1>13,
     <1>14 DEF UploadNext

\* A name that was free when an upload chose it can only be taken by a rival.
LEMMA ReservedStep == UploadTypeOK /\ Reserved /\ Custodial /\ [UploadNext]_uploadVars
                          => Reserved'
<1> SUFFICES ASSUME UploadTypeOK, Reserved, Custodial, [UploadNext]_uploadVars
             PROVE  Reserved'
  OBVIOUS
<1> USE DEF UploadTypeOK, Reserved, InboxNames
<1>1. ASSUME NEW s \in Scans, BeginUpload(s) PROVE Reserved'
  BY <1>1 DEF BeginUpload, FreeName
<1>2. ASSUME NEW s \in Scans, RejectUpload(s) PROVE Reserved'
  BY <1>2 DEF RejectUpload, Forgotten
<1>3. ASSUME NEW s \in Scans, StoreUpload(s) PROVE Reserved'
  BY <1>3 DEF StoreUpload, Forgotten
<1>4. CASE RetireScan
  BY <1>4 DEF RetireScan
<1>5. CASE ClearInbox \/ ClearScans
  BY <1>5 DEF ClearInbox, ClearScans, ClearNames
<1>6. CASE StopServer
  BY <1>6 DEF StopServer
<1>7. ASSUME UNCHANGED <<upload, dest, rivals, inbox>> PROVE Reserved'
  BY <1>7
<1>8. CASE \E n \in InboxNames : TakeScan(n)
  BY <1>7, <1>8 DEF TakeScan
<1>9. CASE CopyScan \/ SaveMetadata \/ IndexScan \/ ClearFiles \/ ClearTable \/ ClearIndex
           \/ ClearFails \/ UNCHANGED uploadVars
  BY <1>7, <1>9 DEF CopyScan, SaveMetadata, IndexScan, ClearFiles, ClearTable, ClearIndex,
     ClearFails, uploadVars
<1> QED
  BY <1>1, <1>2, <1>3, <1>4, <1>5, <1>6, <1>8, <1>9 DEF UploadNext

\* The filing thread's scan stays where it put it, and its source's name stays
\* its own unless somebody removed the scan.
LEMMA CustodialStep == UploadTypeOK /\ Reserved /\ Custodial /\ [UploadNext]_uploadVars
                           => Custodial'
<1> SUFFICES ASSUME UploadTypeOK, Reserved, Custodial, [UploadNext]_uploadVars
             PROVE  Custodial'
  OBVIOUS
<1> USE DEF UploadTypeOK, Custodial, InboxNames, NotFiling, Filed
<1>1. ASSUME NEW s \in Scans, StoreUpload(s) PROVE Custodial'
  <2>1. /\ dest[s] \in InboxNames /\ inbox[dest[s]] \in rivals[s] \union {NoScan}
        /\ UNCHANGED <<filing, archive, cleared>> /\ excused \subseteq excused'
        /\ inbox' = [inbox EXCEPT ![dest[s]] = s]
        /\ excused' = excused \union (rivals[s] \intersect {inbox[dest[s]]})
    BY <1>1 DEF StoreUpload, Reserved
  <2>2. CASE filing.at \in {"row", "retire"} /\ filing.name = dest[s]
    BY <2>1, <2>2
  <2>3. CASE ~(filing.at \in {"row", "retire"} /\ filing.name = dest[s])
    BY <2>1, <2>3
  <2> QED
    BY <2>2, <2>3
<1>2. ASSUME NEW n \in InboxNames, TakeScan(n) PROVE Custodial'
  BY <1>2 DEF TakeScan
<1>3. CASE CopyScan
  <2>1. filing.name \in InboxNames
    BY <1>3 DEF CopyScan
  <2>2. CASE filing' = NotFiling
    BY <2>2
  <2>3. CASE filing' = [filing EXCEPT !.at = "row", !.scan = inbox[filing.name]]
             /\ inbox[filing.name] # NoScan
             /\ archive' = archive \union {inbox[filing.name]}
    BY <1>3, <2>1, <2>3 DEF CopyScan
  <2> QED
    BY <1>3, <2>2, <2>3 DEF CopyScan
<1>4. CASE SaveMetadata
  <2>1. UNCHANGED <<inbox, cleared, excused>>
    BY <1>4 DEF SaveMetadata
  <2>2. CASE filing' = NotFiling
    BY <2>2
  <2>3. CASE filing' = [filing EXCEPT !.at = "retire"] /\ archive' = archive
    BY <1>4, <2>1, <2>3 DEF SaveMetadata
  <2> QED
    BY <1>4, <2>2, <2>3 DEF SaveMetadata
<1>5. CASE RetireScan
  BY <1>5 DEF RetireScan
<1>6. CASE IndexScan
  BY <1>6 DEF IndexScan
<1>7. ASSUME ClearNames, UNCHANGED <<filing, archive, excused>> PROVE Custodial'
  BY <1>7 DEF ClearNames
<1>8. CASE ClearInbox \/ ClearScans
  BY <1>7, <1>8 DEF ClearInbox, ClearScans
<1>9. CASE ClearFiles
  BY <1>9 DEF ClearFiles, DeleteFiles
<1>10. CASE StopServer
  BY <1>10 DEF StopServer
<1>11. ASSUME UNCHANGED <<filing, inbox, archive, cleared, excused>> PROVE Custodial'
  BY <1>11
<1>12. ASSUME NEW s \in Scans, BeginUpload(s) \/ RejectUpload(s) PROVE Custodial'
  BY <1>11, <1>12 DEF BeginUpload, RejectUpload
<1>13. CASE ClearTable \/ ClearIndex \/ ClearFails \/ UNCHANGED uploadVars
  BY <1>11, <1>13 DEF ClearTable, ClearIndex, ClearFails, uploadVars
<1> QED
  BY <1>1, <1>2, <1>3, <1>4, <1>5, <1>6, <1>8, <1>9, <1>10, <1>12, <1>13 DEF UploadNext

\* A .part file goes with its upload on every way out but the end of the process.
LEMMA PartialsStep == UploadTypeOK /\ PartialsExplained /\ [UploadNext]_uploadVars
                          => PartialsExplained'
BY DEF UploadTypeOK, PartialsExplained, UploadNext, uploadVars, BeginUpload, RejectUpload,
   StoreUpload, TakeScan, CopyScan, SaveMetadata, RetireScan, IndexScan, ClearInbox,
   ClearFiles, ClearScans, ClearTable, ClearIndex, ClearFails, StopServer

-----------------------------------------------------------------------------
\* A stored scan leaves the inbox for the archive, by a clear, or to a rival.
LEMMA UploadKeptStep == UploadTypeOK /\ Reserved /\ Custodial /\ UploadKept
                      /\ [UploadNext]_uploadVars => UploadKept'
<1> SUFFICES ASSUME UploadTypeOK, Reserved, Custodial, UploadKept, [UploadNext]_uploadVars,
                    NEW s \in Scans, upload'[s] = "stored"
             PROVE  InFolder(s)' \/ (s \in archive \union cleared \union excused)'
  BY DEF UploadKept
<1> USE DEF UploadTypeOK, UploadKept, InFolder, Waiting, InboxNames
<1>1. ASSUME NEW r \in Scans, StoreUpload(r)
      PROVE  InFolder(s)' \/ (s \in archive \union cleared \union excused)'
  <2>1. /\ dest[r] \in InboxNames /\ inbox[dest[r]] \in rivals[r] \union {NoScan}
        /\ inbox' = [inbox EXCEPT ![dest[r]] = r] /\ r # NoScan
        /\ excused' = excused \union (rivals[r] \intersect {inbox[dest[r]]})
        /\ archive' = archive /\ cleared' = cleared
    BY <1>1 DEF StoreUpload, Reserved
  <2>2. inbox'[dest[r]] = r
    BY <2>1
  <2>3. CASE s = r
    BY <2>1, <2>2, <2>3
  <2>4. CASE s # r
    <3>1. upload[s] = "stored"
      BY <1>1, <2>4 DEF StoreUpload
    <3>2. CASE s \in archive \union cleared \union excused
      BY <2>1, <3>2
    <3>3. CASE InFolder(s)
      <4>1. PICK n \in InboxNames : inbox[n] = s
        BY <3>3
      <4>2. CASE n = dest[r]
        BY <2>1, <4>1, <4>2
      <4>3. CASE n # dest[r]
        BY <2>1, <4>1, <4>3
      <4> QED
        BY <4>2, <4>3
    <3> QED
      BY <3>1, <3>2, <3>3
  <2> QED
    BY <2>3, <2>4
<1>2. CASE SaveMetadata
  BY <1>2 DEF SaveMetadata, Custodial
<1>3. CASE RetireScan
  BY <1>3 DEF RetireScan, Custodial
<1>4. ASSUME ClearNames, UNCHANGED <<upload, archive, excused>>
      PROVE  InFolder(s)' \/ (s \in archive \union cleared \union excused)'
  <2>1. PICK stop \in 0..MaxName :
           /\ inbox' = [n \in InboxNames |-> IF n <= stop THEN NoScan ELSE inbox[n]]
           /\ cleared' = cleared \union ({inbox[n] : n \in 1..stop} \ {NoScan})
    BY <1>4 DEF ClearNames
  <2>2. CASE InFolder(s)
    <3>1. PICK n \in InboxNames : inbox[n] = s
      BY <2>2
    <3> QED
      BY <2>1, <3>1
  <2>3. CASE s \in archive \union cleared \union excused
    BY <1>4, <2>1, <2>3
  <2> QED
    BY <1>4, <2>2, <2>3
<1>5. CASE ClearInbox \/ ClearScans
  BY <1>4, <1>5 DEF ClearInbox, ClearScans
<1>6. CASE ClearFiles
  BY <1>6 DEF ClearFiles, DeleteFiles
<1>7. CASE CopyScan
  BY <1>7 DEF CopyScan
<1>8. ASSUME UNCHANGED <<inbox, archive, cleared, excused>>, upload[s] = "stored"
      PROVE  InFolder(s)' \/ (s \in archive \union cleared \union excused)'
  BY <1>8
<1>9. ASSUME NEW r \in Scans, BeginUpload(r) \/ RejectUpload(r)
      PROVE  InFolder(s)' \/ (s \in archive \union cleared \union excused)'
  BY <1>8, <1>9 DEF BeginUpload, RejectUpload
<1>10. CASE \/ \E n \in InboxNames : TakeScan(n)
            \/ IndexScan \/ ClearTable \/ ClearIndex \/ ClearFails \/ StopServer
            \/ UNCHANGED uploadVars
  BY <1>8, <1>10 DEF TakeScan, IndexScan, ClearTable, ClearIndex, ClearFails, StopServer,
     uploadVars
<1> QED
  BY <1>1, <1>2, <1>3, <1>5, <1>6, <1>7, <1>9, <1>10 DEF UploadNext

\* A filing and a clear change the stores in their order, and whichever of them
\* leaves the stores apart marks the scan.
LEMMA StoresStep == UploadTypeOK /\ Custodial /\ StoresInOrder /\ [UploadNext]_uploadVars
                        => StoresInOrder'
<1> SUFFICES ASSUME UploadTypeOK, Custodial, StoresInOrder, [UploadNext]_uploadVars
             PROVE  StoresInOrder'
  OBVIOUS
<1> USE DEF UploadTypeOK, StoresInOrder, FilingRecorded, ClearMarks, StoresAgree, Unrecorded,
            Unindexed, NotFiling, Filed
<1>1. ASSUME NEW n \in InboxNames, TakeScan(n) PROVE StoresInOrder'
  BY <1>1 DEF TakeScan
<1>2. CASE CopyScan
  <2>1. UNCHANGED <<rows, chunks, clearing, left, half, stray>> /\ filing.at = "copy"
    BY <1>2 DEF CopyScan
  <2>2. CASE filing' = NotFiling /\ UNCHANGED archive
    BY <2>1, <2>2
  <2>3. CASE /\ filing' = [filing EXCEPT !.at = "row", !.scan = inbox[filing.name]]
             /\ inbox[filing.name] \notin archive
             /\ archive' = archive \union {inbox[filing.name]}
    <3>1. filing'.at = "row" /\ filing'.scan = inbox[filing.name]
      BY <2>3
    <3> QED
      BY <2>1, <2>3, <3>1
  <2> QED
    BY <1>2, <2>2, <2>3 DEF CopyScan
<1>3. CASE SaveMetadata
  BY <1>3 DEF SaveMetadata, Unlisted, Custodial
<1>4. CASE RetireScan
  BY <1>4 DEF RetireScan
<1>5. CASE IndexScan
  BY <1>5 DEF IndexScan
<1>6. CASE ClearFiles
  <2>1. PICK files \in SUBSET archive :
           /\ DeleteFiles(files)
           /\ \/ /\ clearing' = "files"
                 /\ left' = (left \ files) \union ((rows \intersect archive) \ files)
              \/ clearing' = "idle" /\ left' = left
           /\ files \subseteq rows
    BY <1>6 DEF ClearFiles, Listings, Deletable
  <2> QED
    BY <1>6, <2>1 DEF ClearFiles, DeleteFiles
<1>7. CASE ClearScans
  BY <1>7 DEF ClearScans
<1>8. CASE ClearTable
  BY <1>8 DEF ClearTable
<1>9. CASE ClearIndex
  BY <1>9 DEF ClearIndex
<1>10. CASE ClearFails
  BY <1>10 DEF ClearFails
<1>11. CASE StopServer
  BY <1>11 DEF StopServer
<1>12. ASSUME UNCHANGED <<filing, archive, rows, chunks, clearing, left, half, stray>>
       PROVE  StoresInOrder'
  BY <1>12
<1>13. ASSUME NEW r \in Scans, BeginUpload(r) \/ RejectUpload(r) \/ StoreUpload(r)
       PROVE  StoresInOrder'
  BY <1>12, <1>13 DEF BeginUpload, RejectUpload, StoreUpload
<1>14. CASE ClearInbox \/ UNCHANGED uploadVars
  BY <1>12, <1>14 DEF ClearInbox, uploadVars
<1> QED
  BY <1>1, <1>2, <1>3, <1>4, <1>5, <1>6, <1>7, <1>8, <1>9, <1>10, <1>11, <1>13, <1>14
     DEF UploadNext

-----------------------------------------------------------------------------
\* The invariant of uploads, filing and clears is inductive.
THEOREM UploadInvariant == UploadSpec => []UploadIInv
<1>1. UploadInit => UploadIInv
  BY DEF UploadInit, UploadIInv, UploadTypeOK, Reserved, Custodial, PartialsExplained,
     UploadKept, StoresInOrder, FilingRecorded, ClearMarks, StoresAgree, Unrecorded,
     Unindexed, NotFiling, InboxNames
<1>2. UploadIInv /\ [UploadNext]_uploadVars => UploadIInv'
  BY UploadTypeStep, ReservedStep, CustodialStep, PartialsStep, UploadKeptStep, StoresStep
     DEF UploadIInv
<1> QED
  BY <1>1, <1>2, PTL DEF UploadSpec

\* An upload that was answered with success is in the inbox or the archive until
\* the user clears it, or a rival that had chosen its name replaces it.
THEOREM UploadsAreKept == UploadSpec => []UploadKept
<1>1. UploadIInv => UploadKept
  BY DEF UploadIInv
<1> QED
  BY <1>1, UploadInvariant, PTL

\* At every moment archive, table and index agree on every scan but those a clear
\* or the end of the process has left apart at a step that is named.
THEOREM StoresDoAgree == UploadSpec => []StoresAgree
<1>1. UploadIInv => StoresAgree
  BY DEF UploadIInv, StoresInOrder
<1> QED
  BY <1>1, UploadInvariant, PTL

\* Only the end of the process leaves a .part file without its upload.
THEOREM PartialsAreExplained == UploadSpec => []PartialsExplained
<1>1. UploadIInv => PartialsExplained
  BY DEF UploadIInv
<1> QED
  BY <1>1, UploadInvariant, PTL

=============================================================================
