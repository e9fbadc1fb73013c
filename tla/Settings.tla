------------------------------- MODULE Settings -------------------------------
(***************************************************************************)
(* settings.json and its caches (deepcatalog/settings.py, the settings     *)
(* routes, and the inbox poller that re-reads the file in every cycle).    *)
(* The server and scripts/watch_inbox.py may run on one data directory;    *)
(* each keeps a cache of its own, and a lock (_lock) that excludes its own *)
(* threads only, so a process is doing one thing to the settings at a      *)
(* time.                                                                   *)
(*                                                                         *)
(* A text is a valid file with its value, an old one without the review    *)
(* or ocr keys, or one that does not load.                                 *)
(***************************************************************************)

CONSTANTS Processes,   \* "server" is one of them
          Values,      \* what a user may set
          Default,     \* default_settings()
          FoldersFail  \* a folder of the settings may be out of reach

ASSUME SettingsAssumption == "server" \in Processes /\ FoldersFail \in BOOLEAN

VARIABLES
    setFile,    \* settings.json
    setDraft,   \* settings.json.tmp
    setOpen,    \* where the open file of each process is
    cache,      \* _cache of each process; one that is not running has none
    doing,      \* the write a process is in: why, how far, and the settings
    poller,     \* inbox_poll_loop of the server
    wanted,     \* the text the user last gave: history
    crossed,    \* two writers overlapped since: history
    together,   \* the writers under way overlap: history
    behind      \* processes that have not loaded since another wrote: history

settingsVars == <<setFile, setDraft, setOpen, cache, doing, poller, wanted, crossed,
                  together, behind>>

NoText == [form |-> "missing", value |-> Default]
Unreadable(form) == [form |-> form, value |-> Default]
Valid(v) == [form |-> "valid", value |-> v]
Old(v) == [form |-> "old", value |-> v]
AnyValue == Values \union {Default}
Texts == [form : {"missing", "empty", "torn", "valid", "old"}, value : AnyValue]
Resting == [op |-> "none", pc |-> "idle", value |-> Default]
NoCache == [form |-> "none", value |-> Default]
Loaded(v) == [form |-> "loaded", value |-> v]

Text == INSTANCE SecretFile WITH
            Writers <- Processes, file <- setFile, draft <- setDraft, open <- setOpen,
            Absent <- NoText, Empty <- Unreadable("empty"), Torn <- Unreadable("torn")

SettingsTypeOK ==
    /\ setFile \in Texts /\ setDraft \in Texts
    /\ setOpen \in [Processes -> Text!Handles]
    /\ cache \in [Processes -> [form : {"none", "loaded"}, value : AnyValue]]
    /\ doing \in [Processes -> [op : {"none", "seed", "migrate", "save"},
                                pc : {"idle", "open", "write", "replace"},
                                value : AnyValue]]
    /\ poller \in {"off", "on", "dead"} /\ wanted \in Texts
    /\ crossed \in BOOLEAN /\ together \in BOOLEAN /\ behind \subseteq Processes

SettingsInit ==
    /\ setFile \in {NoText, Valid(Default), Old(Default)} /\ wanted = setFile
    /\ setDraft = NoText /\ setOpen = [p \in Processes |-> "none"]
    /\ cache = [p \in Processes |-> NoCache]
    /\ doing = [p \in Processes |-> Resting]
    /\ poller = "off" /\ crossed = FALSE /\ together = FALSE /\ behind = {}

-----------------------------------------------------------------------------
InWrite(p) == doing[p].pc # "idle"
OthersWrite(p) == \E q \in Processes \ {p} : InWrite(q)
Running(p) == cache[p] # NoCache

StartWrite(p, op, v) ==
    /\ doing' = [doing EXCEPT ![p] = [op |-> op, pc |-> "open", value |-> v]]
    /\ together' = (together \/ OthersWrite(p))

EndWrite(p) == /\ doing' = [doing EXCEPT ![p] = Resting]
               /\ together' = (together /\ OthersWrite(p))

Proceed(p, pc) == doing' = [doing EXCEPT ![p].pc = pc] /\ UNCHANGED together

Adopt(p, v) == cache' = [cache EXCEPT ![p] = Loaded(v)]

\* Mutant: a file that does not load is replaced with the defaults.
LoadOrSeed(p) ==
    /\ UNCHANGED <<setFile, setDraft, setOpen, wanted, crossed>>
    /\ \/ /\ setFile.form \in {"missing", "empty", "torn"} /\ StartWrite(p, "seed", Default)
          /\ UNCHANGED <<cache, behind>>
       \/ /\ setFile.form = "valid" /\ Adopt(p, setFile.value)
          /\ behind' = behind \ {p} /\ UNCHANGED <<doing, together>>

\* load_settings from the disk: a missing file is seeded, an old one migrated,
\* one that does not load is left alone.
Load(p) ==
    /\ UNCHANGED <<setFile, setDraft, setOpen, wanted, crossed>>
    /\ \/ /\ setFile = NoText /\ StartWrite(p, "seed", Default)
          /\ UNCHANGED <<cache, behind>>
       \/ /\ setFile.form = "old" /\ StartWrite(p, "migrate", setFile.value)
          /\ UNCHANGED <<cache, behind>>
       \/ /\ setFile.form = "valid" /\ Adopt(p, setFile.value)
          /\ behind' = behind \ {p} /\ UNCHANGED <<doing, together>>

\* lifespan and the main of watch_inbox load before anything else, and end when
\* the file does not load.
StartProcess(p) == /\ ~Running(p) /\ ~InWrite(p)
                   /\ Load(p) /\ UNCHANGED poller

\* The server starts its poller once it has settings.
StartPoller == /\ Running("server") /\ poller = "off" /\ poller' = "on"
               /\ UNCHANGED <<setFile, setDraft, setOpen, cache, doing, wanted,
                              crossed, together, behind>>

\* A cycle of the poller, which begins with load_settings(reload=True).
Poll == /\ poller = "on" /\ ~InWrite("server")
        /\ Load("server") /\ UNCHANGED poller

\* load_settings raises, for a file that does not load or a folder that cannot
\* be made, and the loop ends with it: the call stands outside of its try.
PollRaises == /\ poller = "on" /\ ~InWrite("server")
              /\ setFile.form \in {"empty", "torn"} \/ FoldersFail
              /\ poller' = "dead"
              /\ UNCHANGED <<setFile, setDraft, setOpen, cache, doing, wanted, crossed,
                             together, behind>>

\* save_settings, for a payload that validates.
Save(v) == /\ Running("server") /\ ~InWrite("server")
           /\ StartWrite("server", "save", v)
           /\ UNCHANGED <<setFile, setDraft, setOpen, cache, poller, wanted, crossed,
                          behind>>

\* The three steps of write_secret_text.
OpenSettings(p) ==
    /\ doing[p].pc = "open" /\ Text!OpenDraft(p) /\ Proceed(p, "write")
    /\ UNCHANGED <<cache, poller, wanted, crossed, behind>>

WriteSettings(p) ==
    /\ doing[p].pc = "write" /\ Text!WriteText(p, Valid(doing[p].value))
    /\ Proceed(p, "replace")
    /\ UNCHANGED <<cache, poller, wanted, crossed, behind>>

ReplaceSettings(p) ==
    /\ doing[p].pc = "replace" /\ Text!Publish(p) /\ EndWrite(p)
    /\ Adopt(p, doing[p].value)
    /\ behind' = Processes \ {p}
    /\ IF doing[p].op = "save"
       THEN wanted' = Valid(doing[p].value) /\ crossed' = together
       ELSE crossed' = (crossed \/ together) /\ UNCHANGED wanted
    /\ UNCHANGED poller

\* Whatever fails in it: nothing is cached; a request answers 500, the poller
\* ends, a process that was starting does not come up.
SettingsRaise(p) ==
    /\ InWrite(p) /\ Text!Raise(p) /\ EndWrite(p)
    /\ poller' = IF p = "server" /\ poller = "on" /\ doing[p].op # "save"
                 THEN "dead" ELSE poller
    /\ UNCHANGED <<cache, wanted, crossed, behind>>

\* The user edits, restores or deletes the file, or breaks it.
HandEdit(text) ==
    /\ Text!ReplaceBy(text)
    /\ wanted' = text /\ behind' = Processes
    /\ crossed' = \E p \in Processes : InWrite(p)
    /\ UNCHANGED <<cache, doing, poller, together>>

\* The process ends between two of these steps.
StopProcess(p) ==
    /\ Text!CloseAll({p}) /\ EndWrite(p)
    /\ cache' = [cache EXCEPT ![p] = NoCache]
    /\ poller' = IF p = "server" THEN "off" ELSE poller
    /\ UNCHANGED <<wanted, crossed, behind>>

SettingsStep(p) ==
    OpenSettings(p) \/ WriteSettings(p) \/ ReplaceSettings(p) \/ SettingsRaise(p)

Edits == {NoText, Unreadable("torn")} \union {Valid(v) : v \in AnyValue}
           \union {Old(v) : v \in AnyValue}

SettingsNext ==
    \/ StartPoller \/ Poll \/ PollRaises
    \/ \E v \in AnyValue : Save(v)
    \/ \E text \in Edits : HandEdit(text)
    \/ \E p \in Processes : StartProcess(p) \/ SettingsStep(p) \/ StopProcess(p)

SettingsSpec == SettingsInit /\ [][SettingsNext]_settingsVars

\* The event loop runs the poller, and a write that has begun gets on.
SettingsFairSpec ==
    /\ SettingsSpec
    /\ WF_settingsVars(StartPoller) /\ WF_settingsVars(Poll \/ PollRaises)
    /\ \A p \in Processes : WF_settingsVars(SettingsStep(p))

-----------------------------------------------------------------------------
\* settings.json is what the user last saved or wrote by hand: seeding fills a
\* missing file only, a migration keeps the value, a file that does not load
\* stays until it is replaced, and no crash or full disk leaves half a text.  A
\* process that has loaded since the last change acts on it.  Excepted are the
\* writes of two processes, or a write and an edit, that overlapped.
SettingsKept ==
    ~crossed =>
        /\ \/ setFile = wanted
           \/ wanted.form = "old" /\ setFile = Valid(wanted.value)
           \/ wanted = NoText /\ setFile = Valid(Default)
        /\ \A p \in Processes : Running(p) /\ p \notin behind =>
              setFile = Valid(cache[p].value)

\* "settings are re-read each cycle" (inbox_poll_loop): the server comes to act
\* on the settings the user leaves in the file.
SettingsReread ==
    \A v \in Values :
        <>[](setFile = Valid(v) /\ Running("server") /\ doing["server"] = Resting)
            => []<>(cache["server"] = Loaded(v))
===============================================================================
