------------------------------- MODULE Provider -------------------------------
(***************************************************************************)
(* The choice of the LLM provider (apply_llm_provider in                   *)
(* deepcatalog/ollama_setup.py): handler threads assign the globals of     *)
(* deepcatalog.config one after another, copy them into the environment of *)
(* the process, and read, edit and rewrite .env (upsert_env_values) with   *)
(* write_secret_text, all of it without a lock.  At its start a process    *)
(* takes the provider from its environment, else from .env, else looks for *)
(* one, and makes an API token if it finds none (ensure_api_token).        *)
(*                                                                         *)
(* A backend stands for provider, chat model, embedding model and URL of   *)
(* one switch.  .env is one file: that of the data directory.              *)
(***************************************************************************)

CONSTANTS Routes,     \* handler threads that switch
          Backends,   \* what they may switch to
          NoBackend   \* .env, or the environment, names none

ASSUME BackendAssumption == NoBackend \notin Backends

VARIABLES
    config,      \* LLM_PROVIDER, MODEL_NAME and EMBEDDING_MODEL
    environ,     \* the same in os.environ
    env,         \* .env
    envDraft,    \* .env.tmp
    envOpen,     \* where the open file of each thread is
    switch,      \* what each thread is doing
    chosen,      \* the backend of the last switch: history
    mixed,       \* switches have overlapped since the last launch: history
    notInEnv      \* the last switch has not reached .env: history

providerVars == <<config, environ, env, envDraft, envOpen, switch, chosen, mixed,
                  notInEnv>>

Globals == {"provider", "model", "embedding"}
AnyBackend == Backends \union {NoBackend}

\* What .env says: a backend and the API token, unless it is no such text.
Lines(b, token) == [form |-> "text", backend |-> b, token |-> token]
NoLines(form) == [form |-> form, backend |-> NoBackend, token |-> FALSE]
EnvTexts == [form : {"text", "missing", "empty", "torn"}, backend : AnyBackend,
             token : BOOLEAN]
NoSwitch == [pc |-> "idle", to |-> NoBackend, text |-> NoLines("missing")]

EnvFile == INSTANCE SecretFile WITH
               Writers <- Routes, file <- env, draft <- envDraft, open <- envOpen,
               Absent <- NoLines("missing"), Empty <- NoLines("empty"),
               Torn <- NoLines("torn")

ProviderTypeOK ==
    /\ config \in [Globals -> Backends] /\ environ \in AnyBackend
    /\ env \in EnvTexts /\ envDraft \in EnvTexts
    /\ envOpen \in [Routes -> EnvFile!Handles]
    /\ switch \in [Routes -> [pc : {"idle", "provider", "model", "embedding", "environ",
                                    "read", "open", "write", "replace"},
                              to : AnyBackend, text : EnvTexts]]
    /\ chosen \in Backends /\ mixed \in BOOLEAN /\ notInEnv \in BOOLEAN

\* The first start: .env holds the token, the provider was found by probing.
ProviderInit ==
    /\ \E b \in Backends : config = [g \in Globals |-> b] /\ chosen = b
    /\ environ = NoBackend /\ env = Lines(NoBackend, TRUE)
    /\ envDraft = NoLines("missing") /\ envOpen = [r \in Routes |-> "none"]
    /\ switch = [r \in Routes |-> NoSwitch]
    /\ mixed = FALSE /\ notInEnv = TRUE

-----------------------------------------------------------------------------
Switching(r) == switch[r].pc # "idle"
SwitchAt(r, pc) == switch[r].pc = pc
GoTo(r, pc) == switch' = [switch EXCEPT ![r].pc = pc]

\* The request is valid and, where it must be, the disclaimer accepted.
Switch(r, b) ==
    /\ ~Switching(r)
    /\ switch' = [switch EXCEPT ![r] = [NoSwitch EXCEPT !.pc = "provider", !.to = b]]
    /\ chosen' = b /\ notInEnv' = TRUE
    /\ mixed' = (mixed \/ \E q \in Routes \ {r} : Switching(q))
    /\ UNCHANGED <<config, environ, env, envDraft, envOpen>>

\* The globals are assigned in this order, and threads read them in between.
Assign(r) ==
    /\ \E step \in {<<"provider", "model">>, <<"model", "embedding">>,
                    <<"embedding", "environ">>} :
          /\ SwitchAt(r, step[1]) /\ GoTo(r, step[2])
          /\ config' = [config EXCEPT ![step[1]] = switch[r].to]
    /\ UNCHANGED <<environ, env, envDraft, envOpen, chosen, mixed, notInEnv>>

SetEnviron(r) ==
    /\ SwitchAt(r, "environ") /\ GoTo(r, "read")
    /\ environ' = switch[r].to
    /\ UNCHANGED <<config, env, envDraft, envOpen, chosen, mixed, notInEnv>>

\* Mutant: .env is rewritten with the keys of the switch.
OnlyItsKeys(text, b) == Lines(b, FALSE)

\* upsert_env_values: its keys are replaced or added, other lines are kept.
Upsert(text, b) == [text EXCEPT !.form = "text", !.backend = b]

ReadEnv(r) ==
    /\ SwitchAt(r, "read")
    /\ switch' = [switch EXCEPT ![r].pc = "open", ![r].text = Upsert(env, switch[r].to)]
    /\ UNCHANGED <<config, environ, env, envDraft, envOpen, chosen, mixed,
                   notInEnv>>

OpenEnv(r) ==
    /\ SwitchAt(r, "open") /\ EnvFile!OpenDraft(r) /\ GoTo(r, "write")
    /\ UNCHANGED <<config, environ, chosen, mixed, notInEnv>>

WriteEnv(r) ==
    /\ SwitchAt(r, "write") /\ EnvFile!WriteText(r, switch[r].text)
    /\ GoTo(r, "replace")
    /\ UNCHANGED <<config, environ, chosen, mixed, notInEnv>>

\* The last step; the mark of the index as stale is in RagIndex.
ReplaceEnv(r) ==
    /\ SwitchAt(r, "replace") /\ EnvFile!Publish(r)
    /\ switch' = [switch EXCEPT ![r] = NoSwitch]
    /\ notInEnv' = mixed
    /\ UNCHANGED <<config, environ, chosen, mixed>>

\* .env cannot be written: the request fails, the globals stay as they are.
SaveEnvFails(r) ==
    /\ switch[r].pc \in {"open", "write", "replace"}
    /\ EnvFile!Raise(r)
    /\ switch' = [switch EXCEPT ![r] = NoSwitch]
    /\ UNCHANGED <<config, environ, chosen, mixed, notInEnv>>

-----------------------------------------------------------------------------
\* _resolve_provider: what is named first, else what it finds.
Resolved(named) == IF named = NoBackend THEN Backends ELSE {named}

\* load_dotenv fills in what the environment does not have.
Filled(inherited) == IF inherited = NoBackend THEN env.backend ELSE inherited

Launch(inherited) ==
    /\ environ' = Filled(inherited)
    /\ \E b \in Resolved(environ') :
          /\ config' = [g \in Globals |-> b]
          /\ chosen' = IF notInEnv \/ mixed THEN b ELSE chosen
    /\ envOpen' = [r \in Routes |-> "none"]
    /\ switch' = [r \in Routes |-> NoSwitch]

\* The updater's os.execv: the environment, and the token in it, live on.
Reexec == /\ Launch(environ)
          /\ UNCHANGED <<env, envDraft, mixed, notInEnv>>

\* The process ends at any point and is launched anew; ensure_api_token makes a
\* token, and writes it, if .env has none.
Relaunch == /\ Launch(NoBackend)
            /\ env' = [env EXCEPT !.form = "text", !.token = TRUE]
            /\ envDraft' = IF env.token THEN envDraft ELSE NoLines("missing")
            /\ notInEnv' = (env.backend = NoBackend) /\ mixed' = FALSE

ProviderNext ==
    \/ \E r \in Routes :
          \/ \E b \in Backends : Switch(r, b)
          \/ Assign(r) \/ SetEnviron(r) \/ ReadEnv(r) \/ OpenEnv(r) \/ WriteEnv(r)
          \/ ReplaceEnv(r) \/ SaveEnvFails(r)
    \/ Reexec \/ Relaunch

ProviderSpec == ProviderInit /\ [][ProviderNext]_providerVars

-----------------------------------------------------------------------------
\* When no switch is under way, the three globals, the environment and .env name
\* the backend of the last switch, a restart keeps it, and the other lines of
\* .env (the API token) are still there.  Excepted are switches that overlapped,
\* and for .env one that could not be saved or was cut off.
ProviderAgrees ==
    ~mixed =>
        /\ env.token
        /\ (\A r \in Routes : ~Switching(r)) =>
              /\ config = [g \in Globals |-> chosen]
              /\ environ \in {chosen, NoBackend}
              /\ ~notInEnv => env.backend = chosen
===============================================================================
