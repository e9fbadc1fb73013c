-------------------------------- MODULE Ollama --------------------------------
(***************************************************************************)
(* The local Ollama daemon as the app sees it (deepcatalog/                *)
(* ollama_setup.py): its answers are kept in two caches of the process,    *)
(* the installed models for 30 seconds and the verdict "ready" for five,   *)
(* both read and written without a lock by handler threads and the         *)
(* worker, and dropped by whoever pulls, unloads, starts or restarts.      *)
(*                                                                         *)
(* The daemon is external: it starts, dies, and gains and loses models     *)
(* behind the app's back.  That an entry expires, and that a wait is over, *)
(* may happen at any time.                                                 *)
(***************************************************************************)
CONSTANTS Callers, Models

VARIABLES
    daemon,      \* down, booting or up
    installed,   \* the models it has
    tags,        \* _tags_cache
    ready,       \* _ready_cache
    query,       \* what each thread is asking the daemon, or about to
    pulled       \* models a pull of the app has brought and announced: history

ollamaVars == <<daemon, installed, tags, ready, query, pulled>>

Ops == {"list", "ready", "pull", "unload", "start", "restart"}
QueryPcs == {"idle", "probe", "store", "verdict", "post", "clear", "command", "wait",
             "look"}

\* An answer of the daemon: whether it came, the models, and whether a thread
\* dropped the caches since (crossed).
Answers == [up : BOOLEAN, models : SUBSET Models, crossed : BOOLEAN]
NoAnswer == [up |-> FALSE, models |-> {}, crossed |-> FALSE]
Current == [up |-> daemon = "up", crossed |-> FALSE,
            models |-> IF daemon = "up" THEN installed ELSE {}]
NoQuery == [op |-> "none", pc |-> "idle", model |-> {}, answer |-> NoAnswer]
Caches == {{}} \union {{a} : a \in Answers}      \* empty, or one entry

OllamaTypeOK ==
    /\ daemon \in {"down", "booting", "up"} /\ installed \subseteq Models
    /\ tags \in Caches /\ ready \in Caches
    /\ query \in [Callers -> [op : Ops \union {"none"}, pc : QueryPcs,
                              model : SUBSET Models, answer : Answers]]
    /\ pulled \subseteq Models

OllamaInit ==
    /\ daemon \in {"down", "up"} /\ installed = {} /\ tags = {} /\ ready = {}
    /\ query = [c \in Callers |-> NoQuery] /\ pulled = {}

-----------------------------------------------------------------------------
At(c, pc) == query[c].pc = pc
Doing(c, ops) == query[c].op \in ops
Move(c, pc) == query' = [query EXCEPT ![c].pc = pc]
Done(c) == query' = [query EXCEPT ![c] = NoQuery]

\* A request, or a call that finds its cache empty or expired: list_installed_models,
\* ensure_ollama_ready, pull_model, unload_model, start_ollama and restart_ollama.
Ask(c, op, model, pc) ==
    /\ At(c, "idle")
    /\ query' = [query EXCEPT ![c] = [NoQuery EXCEPT !.op = op, !.pc = pc,
                                                     !.model = model]]
    /\ UNCHANGED <<daemon, installed, tags, ready, pulled>>

StartAsking(c) ==
    \/ tags = {} /\ Ask(c, "list", {}, "probe")
    \/ ready = {} /\ Ask(c, "ready", {}, "probe")
    \/ \E m \in Models : Ask(c, "pull", {m}, "post")
    \/ Ask(c, "unload", {}, IF tags = {} THEN "probe" ELSE "post")
    \/ Ask(c, "start", {}, "clear")
    \/ Ask(c, "restart", {}, "clear")

\* GET /api/tags.
Probe(c) ==
    /\ At(c, "probe")
    /\ query' = [query EXCEPT ![c].pc = "store", ![c].answer = Current]
    /\ UNCHANGED <<daemon, installed, tags, ready, pulled>>

\* list_installed_models caches any answer, ollama_status one that came.
Stored(c) == IF query[c].answer.up \/ Doing(c, {"list", "unload"})
             THEN {query[c].answer} ELSE tags

\* What follows on the status: a verdict, the daemon's start, or the response; an
\* unload, which looks its models up in the list, goes on with them.
NeedsStart(c) == Doing(c, {"start"}) /\ ~query[c].answer.up

AfterStatus(c) ==
    \/ Doing(c, {"ready"}) /\ Move(c, "verdict")
    \/ NeedsStart(c) /\ Move(c, "command")
    \/ Doing(c, {"unload"}) /\ Move(c, "post")
    \/ ~Doing(c, {"ready", "unload"}) /\ Done(c)    \* also if there is nothing to start

Store(c) ==
    /\ At(c, "store")
    /\ tags' = Stored(c) /\ AfterStatus(c)
    /\ UNCHANGED <<daemon, installed, ready, pulled>>

\* ensure_ollama_ready caches its verdict; the answer stands for it.
Verdict(c) ==
    /\ At(c, "verdict") /\ ready' = {query[c].answer} /\ Done(c)
    /\ UNCHANGED <<daemon, installed, tags, pulled>>

\* POST /api/pull, /api/chat and /api/embed: done, or an error, which ends a pull
\* and which an unload passes over.
Post(c) ==
    /\ At(c, "post")
    /\ \/ /\ daemon = "up" /\ Move(c, "clear")
          /\ installed' = installed \union query[c].model
       \/ /\ IF Doing(c, {"unload"}) THEN Move(c, "clear") ELSE Done(c)
          /\ UNCHANGED installed
    /\ UNCHANGED <<daemon, tags, ready, pulled>>

\* An answer somebody holds while the caches are dropped is from before that.
Crossed(c) ==
    [d \in Callers |-> IF d # c /\ query[d].pc \in {"store", "verdict"}
                       THEN [query[d] EXCEPT !.answer.crossed = TRUE] ELSE query[d]]

\* clear_ollama_tags_cache, and where each request goes from there.
AfterClear(c) == IF Doing(c, {"restart"}) THEN "command"
                 ELSE IF Doing(c, {"unload"}) THEN "idle" ELSE "probe"

Drop(c, pc) ==
    /\ tags' = {} /\ ready' = {}
    /\ query' = [Crossed(c) EXCEPT ![c] = IF pc = "idle" THEN NoQuery
                                          ELSE [query[c] EXCEPT !.pc = pc]]

\* Mutant: the caches stay.
KeepCaches(c) ==
    /\ At(c, "clear") /\ Move(c, AfterClear(c))
    /\ pulled' = IF Doing(c, {"pull"}) THEN pulled \union (query[c].model \cap installed)
                 ELSE pulled
    /\ UNCHANGED <<daemon, installed, tags, ready>>

Clear(c) ==
    /\ At(c, "clear") /\ Drop(c, AfterClear(c))
    /\ pulled' = IF Doing(c, {"pull"}) THEN pulled \union (query[c].model \cap installed)
                 ELSE pulled
    /\ UNCHANGED <<daemon, installed>>

\* systemctl or a detached `ollama serve`; a restart first stops what runs, and
\* without systemd, or if that fails, ends or starts the daemon by itself.
Command(c) ==
    /\ At(c, "command")
    /\ \/ /\ daemon' \in {"booting"} \union (IF Doing(c, {"restart"}) THEN {} ELSE {daemon})
          /\ Move(c, "wait")
       \/ /\ Doing(c, {"restart"}) /\ daemon' \in {"down"} \union ({daemon} \ {"up"})
          /\ query' = [query EXCEPT ![c].op = "start", ![c].pc = "clear"]
       \/ Done(c) /\ UNCHANGED daemon
    /\ UNCHANGED <<installed, tags, ready, pulled>>

\* A turn of the waiting loop drops the caches and then looks whether it is up.
Wait(c) == /\ At(c, "wait") /\ Drop(c, "look")
           /\ UNCHANGED <<daemon, installed, pulled>>

Look(c) ==
    /\ At(c, "look")
    /\ IF daemon = "up"
       THEN query' = [query EXCEPT ![c].pc = "probe", ![c].op = "restart"]
       ELSE Move(c, "wait") \/ Done(c)          \* Done: it took too long
    /\ UNCHANGED <<daemon, installed, tags, ready, pulled>>

\* An entry is older than its time to live.
EntryExpires == /\ \/ tags # {} /\ tags' = {} /\ UNCHANGED ready
                   \/ ready # {} /\ ready' = {} /\ UNCHANGED tags
                /\ UNCHANGED <<daemon, installed, query, pulled>>

\* The daemon comes up, ends, gains or loses a model at somebody else's hands.
DaemonChanges ==
    /\ \/ daemon' \in {"up", "down"} /\ UNCHANGED <<installed, pulled>>
       \/ \E m \in Models : /\ installed' \in {installed \union {m}, installed \ {m}}
                            /\ pulled' = pulled \cap installed'
                            /\ UNCHANGED daemon
    /\ UNCHANGED <<tags, ready, query>>

OllamaNext ==
    \/ EntryExpires \/ DaemonChanges
    \/ \E c \in Callers :
          \/ StartAsking(c) \/ Probe(c) \/ Store(c) \/ Verdict(c) \/ Post(c) \/ Clear(c)
          \/ Command(c) \/ Wait(c) \/ Look(c)

OllamaSpec == OllamaInit /\ [][OllamaNext]_ollamaVars

-----------------------------------------------------------------------------
\* Once the app has pulled a model, no cache says any more that it is missing:
\* neither the list of models, by which a name is resolved to a tag, nor the
\* verdict that refuses a scan or a question.  Excepted are answers of the daemon
\* that another thread held when the pull dropped the caches (they are cached
\* after it, for up to 30 and 5 seconds), and those of a daemon that was not up.
PullIsSeen ==
    \A answer \in tags \union ready :
        answer.up /\ ~answer.crossed => pulled \subseteq answer.models
===============================================================================
