# A TLA+ model of DeepCatalog

DeepCatalog files scanned documents on one machine: scans land in an inbox folder,
are read (OCR, then a language model), get a name and a category, are perhaps
approved by a person, and end up in an archive folder, a SQLite table and a vector
index that a question-answering page searches. It is one Python process: a FastAPI
server whose `async def` routes and inbox poller share one event loop, and whose
`def` routes run in a pool of threads. What is hard about it is what happens between
those two: a review is approved while the worker reads the next file, an upload takes
a path that a review remembers, a backend is switched under a running embedding, the
server dies between two writes.

This directory holds the TLA+ modules that model it, the TLC configurations that check
them on small instances, and the theorems about them that TLAPS checks. Paths are
relative to the repository (`deepcatalog/` is `src/deepcatalog/` in `PROJECT.json`).

## Running it

    tlc -workers 2 -config MCFilingSerial.cfg MCFiling      # one run
    tlapm FilingProofs.tla                                  # the proofs of one module

`PROJECT.json` lists every run with its properties, every mutant, the source lines of
every definition, the hazards and the findings.

## Inventory

| component | source | state it keeps | operations | modelled in |
|---|---|---|---|---|
| inbox worker | `inbox_worker.py`, `job_control.py` | the process lock, the cancel scope (one event for the whole process), the poller's last result | poll, process inbox, process one file, retry, cancel | `Filing`, `ProgressBus`, `Reading` |
| ingest gate | `ingest.py`, `dedup.py` | none | read, checksum, duplicate lookup, decide: review or file | `Filing`; the read in `Reading` |
| reviews | `review.py`, `app/routers/reviews.py` | table `reviews`, status `pending / processing / approved / rejected` | create, claim, approve, reject, release, recover at startup | `Filing` |
| filing pipeline, archive | `pipeline/agents.py`, `tools/filesystem.py` | inbox and archive folders | check, pick a name, copy, save the row, retire the source, index | `Filing` |
| document database | `tools/metadata_db.py` | table `documents` | upsert, list, mark indexed | `Filing`, `RagIndex` (as sets of rows) |
| vector index | `tools/rag_index.py`, `chroma_local.py` | the collection, `index_meta.json`, `_rebuilding`, `_index_lock` | check compatibility, rebuild, index, retrieve, mark stale | `RagIndex` |
| progress bus | `progress.py`, `app/static/events.js`, part of `inbox.js` | ring buffer, subscribers and their queues; the page's busy flag, strip and queue of steps | publish, publish_sync, subscribe; handle an event; draw the queued steps | `ProgressBus`, `Strip` |
| updater | `updater.py`, `version.py`, `app/routers/updates.py` | the install directory, `.release-files`, the cached version, a restart timer | check, download, verify, copy, prune, swap the AppImage, restart | `UpdateInstall` |
| uploads, clear-all-data | `tools/filesystem.py`, `tools/storage.py`, `app/routers/processing.py` | `.part` files, inbox, archive, table, index | take a name, stream, store, reject; clear the inbox, clear everything | `Uploads`; a finished upload and clear-inbox also in `Filing` |
| access | `auth_rate_limit.py`, `desktop_bootstrap.py`, `app/routers/auth.py`, `sessions.py` | attempt and failure windows, locks; the nonce in memory and in a file; session cookies | admit, fail, lock, succeed; mint, consume | `RateLimit`, `Desktop`; not the cookies |
| ChatGPT login | `codex_oauth.py`, `auth.py`, `privacy.py` | pending logins, `auth.json`, the disclaimer, a key in the environment | start, exchange, refuse, refresh, save a key, log out | `SignIn` |
| OCR, LLM, media worker | `ocr.py`, `llm.py`, `media_worker.py` | running AI pages and calls, the event each was given; child process and pipe | text layer, Tesseract, AI pages, call, time out, abort, join; run a job, signal, reap | `Reading`, `MediaJob`; one outcome of a read in `Filing` |
| settings | `settings.py`, the poller of `inbox_worker.py` | `settings.json`, a cache per process | load, seed, migrate, save, re-read | `Settings` (over `SecretFile`) |
| providers | `ollama_setup.py`, `config.py`, `app/api_token.py` | three globals, the environment, `.env` | switch, upsert, restart | `Provider` (over `SecretFile`); the switch also in `RagIndex` |
| Ollama daemon | `ollama_setup.py` | `_tags_cache`, `_ready_cache` | list, check, pull, unload, start, restart | `Ollama` |
| desktop shell | `desktop.py` | a server thread, a port, a window per launcher | probe, pick a port, wait, mint, open, fall back | `Desktop` |
| Ask | `ask.py` | none | retrieve, answer | the retrieval, in `RagIndex` |
| service manager, hardening, usage counters, pages | see `PROJECT.json` | little or none | | not modelled |

How they interact:

- the worker and the reviewers both call `file_and_persist`, on the same inbox and archive
  folders and the same tables, and exclude each other nowhere;
- a review is created by the worker and resolved by a thread; in between it is only a
  row that remembers a path and a checksum;
- cancel is one event for the process, read also by the approving threads;
- the AI pages and the extraction are calls that poll the cancel event they were given when
  they started, while the worker asks the scope of the process whether its file is cancelled;
- the filing calls `index_document`, whose compatibility check may rebuild the whole
  index under a lock that every other filing and every question then waits for;
- everything the worker does is told to the pages through the progress bus, awaited
  from the coroutine and scheduled as tasks from the synchronous pipeline;
- an update changes the code of a server that is running, and ends its process;
- launchers share a data directory and find one another only by asking a port;
- `settings.json` and `.env` are written by any thread or process that cares to, through one
  temporary name; `auth.json` is truncated and rewritten in place.

What makes each part correct, in a sentence: a scan is never lost and never filed
twice by one review, and a resolved review stays resolved (filing); the index never
claims a backend it was not embedded with (vector index); a cancel wins over whatever else
a read comes to, and no page's text is dropped on the way to the extraction (reading); a page learns in the end what
happened (progress bus); after an update the directory is the release, the whole
release and only verified bytes (updater); an address is locked for a while and not for ever, a
nonce opens one window (access); what the user last chose, saved or uploaded is what the next
step, request or start finds (credentials, settings, providers, uploads); a child process never
outlives its job and is reported truthfully (media worker).

The behaviours that are hard to test are listed in `PROJECT.json` under `hazards`, each
at its line with the properties that cover it, or with the reason why none does yet.

## The modules

`Custody` (abstract) <- `Filing` -> `MCFiling`, `FilingProofs`;
`Reading` -> `MCReading`, `ReadingProofs`;
`RagIndex` -> `MCRagIndex`, `RagIndexProofs`;
`ProgressBus`, `Strip` -> `MCProgressBus`, `ProgressBusProofs`;
`UpdateInstall` -> `MCUpdateInstall`, `UpdateInstallProofs`;
`RateLimit`, `Desktop` -> `MCAccess`, `AccessProofs`;
`SecretFile` -> `Settings`, `Provider`;
`SignIn`, `Uploads`, `MediaJob`, `Settings`, `Provider`, `Ollama` -> `MCServices`,
with proofs in `SignInProofs` and `ServicesProofs` (the other five).

A definition that begins as a comment with "mutant" is a broken variant of the
definition after it; it is used only to show that a property can fail.

### Filing

Actors are the worker and a set of reviewers. Each runs the source's steps with a `pc`;
one action is the code between two points where another actor can get in: for the worker
that is the whole stretch between two suspensions or two file-system or database calls,
because the reviewers are threads and see every one of those. The worker suspends only
while it reads, so `Cancel` is possible only there.

| in the code | in the model |
|---|---|
| `process_inbox`, `_process_one_file` | `ProcessInbox`, `ProcessSingle`, `NextFile`, `ReadOk`, `IngestFails`, `Finish`, `JobDone` |
| `ingest_document` from the checksum on | `Gate`, `CreateReview`, `AutoFile` |
| `_claim_pending` (UPDATE ... WHERE status = 'pending') | `Claimable`, `ClaimPending` |
| `approve_review`, `reject_review`, `_release_claim` | `Approve`, `Reject`, `RejectRemove`, `RejectResolve`, `RejectFails`, `Resolve`, `Release` |
| `file_and_persist`, `move_to_archive` | `CheckMissing` ... `PickName`, `Place`, `SaveRow`, `RetireSource`, `Index` and their failures (`SaveRaises`: the row failed and then the unlink of the copy) |
| `recover_stale_processing` in the lifespan | `CrashRestart` |

A scan is a model value, its checksum another (`Bytes`); paths are numbers in listing
order; one archive category with the names stem, stem_2, ... OCR and the language model
are an outcome. The minimal age of a file and the time between polls are left out: a poll
may come at any moment. `Custody` is the promise to the user in three lines: a scan that
arrived is held, then filed for good or discarded. `Filing` states the refinement mapping (`CustodyOf`, `Promise`) and that it keeps the promise
(`KeepsCustody`); it does where only one actor files and the inbox is not cleared, which
`filing_serial` checks and `FilingProofs` proves.

### Reading

What `Filing` takes as one step with an outcome. Everything here runs on the event loop, and an
action is what runs between two suspensions: the worker suspends on the text layer, on each
Tesseract page, on the AI pages together, and on the extraction; emitting a step does not suspend.

| in the code | in the model |
|---|---|
| `_process_one_file`, the scope of `job_control` | `Bind`, `Finish`, `scope`, `cancelled`, `CancelFile` |
| `recover_document_text` | `ReadLayer`, `ReadLayerFails`, `VisionDone`, `VisionFails`, `VisionCancelled`, `Method` |
| `_tesseract_transcribe_indices` | `TesseractPage`, `TesseractFails`, `EndTesseract` |
| `_ai_vision_transcribe_indices` and its `asyncio.gather` | `StartVision`, `Acquire`, `Rendered`, `EndPage`, `error` |
| `run_cancellable` | `StartCall`, `Answer`, `Abort`, `Expire`, `Joined` |
| `extract_document_fields` | `StartExtract`, `Extracted` (the call of page 0) |

`gather` without `return_exceptions` raises the first failure and leaves the other tasks running,
so AI pages may outlive their scan: `page` keeps them for every scan, and they ask the one scope of
the process (`IsFileCancelled`), which by then may be that of the next scan. A call instead keeps
the event that was bound when it started (`event`). Joining a cancelled call is a step.

The text of a page is where it comes from; an embedded text is good enough, poor or none. The mode
"fast" differs from "balanced" in thresholds only. An image file is a scan without embedded text. An
extraction that is empty or no JSON counts as failed. A render by the media worker ends with an
image or an error. From the extraction's answer to the end of the file nothing suspends, so the later
checks for a cancel coincide with the one of `ingest.py:284`.

### RagIndex

Threads that file (`Indexers`) and threads that search (`Searchers`) go through
`ensure_index_compatible`, which reads `_rebuilding` without the lock, takes the lock,
compares `index_meta.json` with the configured backend and rebuilds; then through embed,
upsert and the metadata write, each a step of its own since none is locked. A backend is
provider and model as one value; the length of its vectors is apart (`Dim`), known to the program
before it embeds (`Known`) or only from the first vectors, and compared where both sides know one.
`SwitchBackend` and `MarkStale` are the two halves of `apply_provider`. A rebuild whose removal of the
old collection fails goes on with the old vectors (`ResetCollection`), embeds over them what it can and
writes clean metadata.

`raced`, `broken`, `undropped` and `skipped` are history variables: a switch overlapped a request, a
rebuild raised, the last rebuild kept the old collection, an embedding failed.

### ProgressBus

The server side is one event loop, and an awaited `publish` never suspends, so what the worker
publishes between two suspensions is one burst. A step is a payload, and any file that was started
may have another one at any time (`SayStep`): the worker's own (two to four for each page that is
read), those that `publish_sync` leaves to tasks, and those of AI pages that `gather` left running,
which come when their file is finished. How many there are is bounded for TLC only. A stream has its
snapshot (`replay`) and its queue; a full queue is dropped without telling anyone, as in the code.

Of the page this module keeps the busy flag (`Shown`) and the Retry button, whose answer travels on
another connection than the events. An answer that arrives after the job's last event marks the page
busy again until another job ends; `BusyEnds` is about the pages that an event made busy. `missed` holds
pages that were away while events left the ring buffer.

### Strip

What the page draws of the steps. `handleWorkflowEvent` queues a step (`pending`) and
`drainStepAnimQueue` draws it: a loop that sleeps after each step (`pauses`), or before it, with the step in
hand (`held`). A reset of the strip (`job_started`, `file_started`, an empty job, `hello`) empties the queue
and clears `stepAnimRunning`, but the sleeping drains sleep on and the next step starts another beside them.
`Drain` is one turn of the loop up to its next sleep, `DrawHeld` is the drawing after the sleep, which checks
no file id. A `file_finished` that finds an animation waits for it (`FinishLate`).

| in the code | in the model |
|---|---|
| `resetStepStatuses`, `clearStepTimers` | `Reset`, `Idle` |
| `enqueueStepUpdate` | `HearStep`, `Ignored` |
| `drainStepAnimQueue` | `Drain`, `NextItem`, `Resume`, `DrawHeld` |
| `file_finished`, `waitForAnim` | `HearFinished`, `Still`, `Finish`, `FinishLate` |
| the stream made anew | `Hello`: the strip is reset and events follow from some earlier place |

The pipeline is the page's environment and nearly unconstrained: steps of any started file in any order,
files that never end. So nothing the strip is shown to do depends on how many steps a read has or when its
tasks run. `MCProgressBus` runs bus and strip side by side; they share no state, and `part` says which one
a behaviour follows.

### UpdateInstall

Requests run `apply_update` in threads: check against the cached version, download, verify,
then copy file by file in sorted order and prune what the old `.release-files` lists and the
archive has not. A file's content is the release it came from, or minus that release when
its copy was cut off. A write may fail, the process may crash or be re-executed by the restart timer
between any two files. On an AppImage there is one `os.replace`. A download is the bytes the
signed manifest lists or something else; signature and URL checks are pure and left out.
The version is that of `pyproject.toml`, the fallback `get_current_version` uses for a
source tree; a distribution installed with pip is not modelled.

### RateLimit and Desktop

`RateLimit` is one address before `AuthRateLimiter`: threads in the session exchange, whose check
and record are two critical sections (`Admit`, then `ExchangeFails` or `ExchangeSucceeds`), or the
middleware, where they are one step (`ApiAccepted`, `ApiRefused`). A window is a set of numbered
stamps on a clock of ticks; `Recent` is `_prune`. The limits are constants per kind of request.

`Desktop` is any number of launchers on one data directory. A launcher walks through `run_desktop`
(`Reuse` or `FindNone`, `PickPort`, `HealthSeen` or `HealthTimeout`, `Mint`, the window and its
fall-backs), while its server thread binds the port by itself (`Bind`). Each process has its nonce in
`memory` and all share one `file`; `Expected` and `Clear` are `consume_desktop_bootstrap`. A health
probe may get no answer from a server that is there, and whoever answers on the port is taken for
one's own. `blind`, `outpaced`, `overlapped` and `kept` record the races the properties name.

`MCAccess` runs the two side by side; they share no state, and `part` says which one a behaviour follows.

### SignIn

Every way to get, change or lose a cloud credential: logins completed by the callback thread or by a
pasted URL (`CompleteSession` under the lock of the login), the refresh that any call to a model may
start, an API key, `Logout`. A write of `auth.json` is two steps, `Truncate` and `Write`, because
`write_text` empties the file first; a file that is unlinked meanwhile swallows what is written.
The token server is external: it issues turn n + 1 for the live turn n, and its answer may be
lost. Three history variables name what the
properties except: `pursued`, the logins whose refresh was under way when the user chose; `spoiled`, the
last write was cut off or crossed another; `unsaved`, a token was issued that never reached the file.

### Uploads

`BeginUpload` takes a name and opens the `.part` file, `StoreUpload` replaces whatever the name has by
then; in between are the body and the validation. One filing thread goes through copy, row, retire
and index, and Clear all data through files, inbox, table and index, each with its failures.
An archived scan keeps a path of its own here: two filings on one path are in `Filing`.
Clear all data deletes the files of the rows it lists, and the list has `ListLimit` of them (the code asks
for 100000 and `search_metadata` gives 100); files `Outside` the present archive roots are refused. `left`,
`half` and `stray` record what a clear passed over, what it has deleted and not yet dropped from the table,
and chunks whose row was dropped.

### MediaJob

One job of `run_media_job`: the caller (poll, check that the child is alive, a last poll, receive,
join, terminate, join, kill, join), the child (work, send, leave, or a crash), the pipe (an answer too
large for it waits for the reader), and signals that take effect some time after they were sent. The
deadline is an event, `TimePasses`.

### SecretFile, Settings, Provider

`SecretFile` holds the steps of `write_secret_text`: open `<path>.tmp` and truncate it, write,
replace. Since the temporary name is one for all writers, a writer's open file may by now bear the real
name, or none. `Settings` instantiates it for `settings.json` and several processes, each with its
cache; the user edits the file by hand, or breaks it. `Provider` instantiates it for `.env` and several
threads that switch the backend: three globals one by one, the environment, and read, edit and replace
of `.env`; then the process may be re-executed (the environment survives) or launched anew.

### Ollama

Threads that list, check, pull, unload, start or restart against a daemon that comes and goes by itself.
Each request is a probe, whose answer is held for a while, and then a store into a cache that
another thread may have dropped in between (`crossed`).

`MCServices` runs these six beside one another, one per behaviour (`part`): they share no state in the
code either, except that a switch of provider changes which credential and daemon are asked, which none
of the six depends on.

## What the runs show

| run | configuration | shows |
|---|---|---|
| `filing_concurrent` | 2 scans, 2 paths, 2 names, 2 reviews, 2 reviewers, worker; approval setting toggled, inbox cleared; no crash | claims are exclusive, resolutions final, approved means a row with the review's checksum, rejected means no row |
| `filing_serial` | the same with 1 reviewer, approval required, no clearing, crashes anywhere | every row has its file; only a rejection discards a scan; the refinement of `Custody`; jobs and requests end |
| `filing_overwrite` | 2 reviewers | violated: `ArchiveNeverOverwritten` |
| `filing_stranded` | 2 reviewers, auto-filing | violated: `ClaimOwned` |
| `rag` | 2 documents, 2 backends of different lengths, one of them known beforehand, 1 filing thread, 1 searching thread, 1 switch | metadata honest unless a switch overtakes a request or a rebuild raises, but for documents that a rebuild could neither drop nor embed again; nothing silently missing; requests end |
| `rag_switch` | 1 document, 1 switch | violated: `MismatchDetected` |
| `progress` | bus: a job of 2 files and one more job or Retry, 1 page that may drop and connects twice; strip: 2 files, 2 steps, 5 events, 1 connection made anew | a stream loses and repeats nothing; the page learns that the job ended; a strip shows no step of another file but one that a drain slept on; at rest a step is shown running only if the pipeline left it so |
| `reading` | a scan of 2 pages and one of 1 page, one page at the model at a time, both modes, a cancel at any moment, providers that answer, fail, time out or never answer | a cancel always wins; no page reaches the extraction without a text it has; each reported method means what the property says; pages outlive the wait only after a failure; every scan and every page ends |
| `update` | 2 requests, 3 releases over 5 files, failures, crashes and restarts without bound | an undisturbed install leaves exactly its release; one after a cut-off one is complete; one cut off early is noticed |
| `access` | an address with 2 exchanges, 3 attempts in 3 ticks, 2 or 3 failures in 4 and a lock of 2, on a clock of 6; 2 launchers in three installations, 3 ports, one of them perhaps foreign | a lock ends; a nonce signs in once and is refused only for a reason; two servers on a data directory are accounted for; a launch ends |
| `services` | 2 logins, 2 handlers and the callback, 2 tokens per login; 2 uploads of one name, one row listed and one file outside the roots; a media job; 2 processes on `settings.json`; 2 switches between 2 backends; 2 callers of a daemon with 1 model | the last choice stands but for refreshes under way, and its token is live; an upload is kept; the stores agree at every moment but for what a clear passed over or left half way; a media job is honest and ends; settings and provider are what was last given; a pull is seen |
| `settings_reread` | the server, a user who edits the file, no folder out of reach | violated: `SettingsReread` |

The bounds: two scans, two names and two reviews are the least with which two actors can
collide on a path, a name, a checksum or a review, and each of those collisions occurs (the
violation runs are such collisions). One backend switch is enough to overtake a request
at each of its steps. In `progress` the buffer of 4 and the queue of 5 stand for 200 and 256;
both overflow in the run, which is what matters of them, and the page connects twice, so that a
reconnect may find what it missed gone from the buffer. One step is published there, since all steps are alike
to the bus. The strip needs two files for a late step, two steps for a drain that goes on to the next, and
five events for a step of one file held across the start of the next and an end that waits for it. The three releases of `update` have a file that leaves,
one that arrives and leaves again, and one that changes; `.release-files` is copied first and
`pyproject.toml` before the file that arrives, as in the sorted order of the real archive.

In `reading` a second page waits for the semaphore, and the second scan is read in the same
process while a page of the first may still run.

In `access` and `services` two of everything is what the races need: two exchanges past one check, two
launchers on one port, two threads with one refresh token, two uploads with one name, two writers
of one draft. The clock of 6 ticks lets a lock of 2 start, be renewed by failures of a window of 4, and
end. Two turns are a login and one refresh, which both threads try.
With `ListLimit` 1 and one of the two scans `Outside`, a clear passes over files for either reason. `MaxKept` bounds how often the
nonce file cannot be removed.

Deadlock is not checked in the runs of `Filing`, `Reading`, `ProgressBus`, `access`, `services` and
`settings_reread`, whose bounded worlds end (no scan left to arrive or to read, no job left to start, the
clock at its bound, every launcher gone, the one media job returned). In `rag`, `rag_switch` and `update` it is.

Symmetry is used for the reviewers in the one run without liveness properties that needs it.

### Findings

The four violation runs are disagreements between the code and what its own documentation
says; `PROJECT.json` quotes the lines.

1. `filing_overwrite`: the free archive name is looked up long before the file is put there;
   two approvals can pick the same one and the second replaces the first.
2. `filing_stranded`: an exception in an approval (a cancel meant for another file, an index
   that raises) leaves the review claimed by nobody until the next start.
3. `rag_switch`: a filing overtaken by a backend switch erases the stale mark and labels its
   old vectors with the new backend.
4. `settings_reread`: a `settings.json` that does not load when a cycle of the poller begins ends the
   poller, and nothing re-reads the file the user puts right.

Met while modelling, and visible as exceptions in the properties or as behaviours of the modules:

- an approval files whatever is under the review's path by then, with the checksum of the review;
- when the row cannot be saved and the copy cannot be unlinked either (`agents.py:104`), the copy stays without a
  row and the approval's claim is stranded as in finding 2;
- a rebuild that fails to delete the old collection gets it back with its vectors and writes clean metadata over
  them: a document whose embedding then fails keeps the old model's vectors (`rag_index.py:205`);
- "pdf_text_layer_fallback" is also reported where no text is the layer's: one page read by Tesseract, another
  failed at the model with nothing embedded (`ocr.py:717`);
- a refresh that is answered after a log-out, or after another sign-in, writes its tokens all the same: the
  old sign-in is back (`codex_oauth.py:90`, `171`);
- Clear all data lists 100 documents at most (`storage.py:67`, `metadata_db.py:429`) and refuses paths outside the
  present archive roots, and then drops the whole table: the other files stay without rows, as does a
  file recorded between the list and the drop;
- a drain of the page's step queue that sleeps with a terminal step in hand draws it on the strip of the next
  file (`events.js:436`);
- an AI page that `gather` left running publishes "running" under its old file id; if the page shows that file
  still, the step stays running after the job, as does the read step of a file that failed;
- a page that reconnects after more than 200 events has missed the end of its job and stays busy, and a page
  that was dropped for a full queue is not told;
- a page that is rendered while its scan is cancelled calls the model afterwards, with no cancel event;
- an update that was cut off has replaced the list it prunes by, so the next one leaves the old release's files;
- a list of models, or "cannot reach Ollama", that a thread asked for before a pull or a start is cached after
  it; the verdict "ready" is kept by URL and is not dropped when the model changes;
- uploads of one name that overlap replace one another, and a filing whose source was cleared unlinks the
  scan that has taken its name; the end of the process leaves `.part` files behind;
- a key saved from the page and copied into the environment outlives a log-out until the process ends;
- an OAuth code that arrives for a refused login is answered "complete", and one whose exchange
  raises leaves its login pending;
- receiving a large answer from the media child has no deadline of its own, and a killed child leaves its
  temporary folder.

### Fairness

`Filing`: weak fairness of the worker's steps and of each reviewer's steps once a request
has begun. File-system and database calls return, OCR and LLM calls have timeouts. Nothing that
the outside decides (an arrival, a request, a cancel, a crash) is fair.
`Reading`: weak fairness of the worker and, for each call, of what ends for certain: a page gets the
semaphore when it is free, a render is bounded by the media worker's deadline, a call by its timeout, a
cancelled call is joined. A provider's answer and a cancel are not fair.
`RagIndex`: strong fairness of each thread's steps, because a waiter for `_index_lock`
needs the lock only infinitely often free; Python's lock does not starve a waiter for ever
under the scheduler of the operating system. Switches are not fair.
`ProgressBus`: weak fairness of the worker, whose calls have timeouts, and of each stream that has
something to send. Steps, connecting, retrying and the arrival of an answer are not fair. `Strip` states no liveness.
`Desktop`: weak fairness of each launcher's own steps and of its server thread's bind: they are code
that runs, under timeouts. Users, windows and clocks are not fair.
`MediaJob`: weak fairness of the caller, of a signal that was sent, and of a child's send that can proceed
or is broken off. The child's work is not fair: a parser may run for ever. That an undelivered deadline
arrives is not assumed either; `MediaEnds` is about calls whose deadline has passed. A job that runs in the
server's own process (`RunInProcess`, `media_worker.py:585`) has no deadline at all: there the fairness of the
caller assumes that the parse ends.
`Settings`: weak fairness of the poller's start, of its cycle, and of a write that has begun.
The other modules state no liveness.

## What is proved

TLAPS checks these for every value of the constants that the modules' assumptions admit
(any sets of scans, reviewers, threads, documents, launchers, logins, uploads, processes and backends, any
number of pages, scans to read and releases); TLC checks the same formulas on the instances above.

| theorem | module | says |
|---|---|---|
| `TypeCorrect` | `FilingProofs` | types, and that every actor holds what its step needs |
| `ClaimsAreExclusive` | `FilingProofs` | no two reviewers act on one review, a claimed review is `processing` |
| `ResolutionIsFinal` | `FilingProofs` | an approved or rejected review never changes |
| `ApprovalsAreFiled` | `FilingProofs` | an approved review has its row, with its checksum |
| `RejectionsFileNothing` | `FilingProofs` | if the server never dies, a rejected review has no row |
| `RowsStayBacked` | `FilingProofs` | with one filer every row has its file in the archive, at every step |
| `ScansAreKept` | `FilingProofs` | with one filer and no clearing, a scan leaves the disk only when its review is rejected |
| `FilingImplementsCustody` | `FilingProofs` | under the same conditions `Filing` refines `Custody` |
| `TypeCorrect` | `ReadingProofs` | types |
| `CancelWins` | `ReadingProofs` | a cancelled scan ends as cancelled or not at all |
| `PagesReachExtraction` | `ReadingProofs` | no page with embedded text reaches the extraction without a text |
| `NothingElseLeftBehind` | `ReadingProofs` | calls outlive the wait for them only after a failed page |
| `MethodsAreExplained` | `ReadingProofs` | what each reported method says of the sources of the page texts |
| `TypeCorrect`, `RebuildsAreExclusive` | `RagIndexProofs` | the lock protects the rebuild, and the flag read without it is exact |
| `LabelsAreHonest` | `RagIndexProofs` | unless a switch overtook a request or a rebuild raised, the metadata is true of every vector, but for those a rebuild could neither drop nor embed again |
| `NothingIsMissed` | `RagIndexProofs` | unless a rebuild raised, at rest only documents whose embedding failed are missing |
| `TypeCorrect` | `ProgressBusProofs` | types; the ring buffer and the queues keep their limits |
| `StreamsMissNothing` | `ProgressBusProofs` | a stream loses, repeats and reorders nothing from its snapshot on |
| `StripsAreHonest` | `ProgressBusProofs` | what a strip shows was published of the file it is of, but for steps drains slept on at its reset |
| `StripsSettle` | `ProgressBusProofs` | at rest a strip shows as running only what the pipeline left running |
| `TypeCorrect`, `OnlyVerifiedInstalled` | `UpdateInstallProofs` | nothing but verified bytes is installed |
| `InstallsComplete` | `UpdateInstallProofs` | an installation that ended left every file of its release |
| `InstallsExactly` | `UpdateInstallProofs` | an undisturbed installation left exactly the files of its release |
| `HalfInstallsNoticed` | `UpdateInstallProofs` | the version file never claims a release that files before it do not have |
| `AttemptsAreBounded`, `LockoutsEnd`, `OvershootIsBounded`, `LimitTypeCorrect` | `AccessProofs` | no window admits more than its limit; a lock ends; failures exceed their limit by the exchanges under way at most |
| `NoncesAreSpent`, `DeskTypeCorrect` | `AccessProofs` | a nonce signs in once |
| `RefusalsHaveReasons` | `AccessProofs` | a window is refused only for one of the reasons the property lists |
| `ServersAreAccountedFor` | `AccessProofs` | two servers run at once only if a launcher probed while another started or got no answer, or past a foreign program |
| `StoredTokensAreLive`, `ExchangesAreSingle`, `SignTypeCorrect` | `SignInProofs` | the stored token is one the server takes; a login is exchanged once |
| `LastChoiceStands` | `SignInProofs` | the credential in use is the user's last choice, or a login whose refresh was under way at that choice, or none after a spoiled write |
| `UploadsAreKept`, `StoresDoAgree`, `PartialsAreExplained` | `ServicesProofs` | a stored scan stays; archive, table and index agree at every moment but for what is named |
| `ReportsAreHonest`, `ChildrenAreReaped` | `ServicesProofs` | what a media job reports happened, and no child is left unattended |
| `PullsAreSeen` | `ServicesProofs` | no cache outlives a pull, but for answers under way |
| `ProvidersAgree` | `ServicesProofs` | globals, environment and `.env` name the last backend |
| `SettingsAreKept` | `ServicesProofs` | `settings.json` is what the user last gave |

The arguments:

- *Claims.* `ClaimExclusive` is inductive beside the types: the compare-and-set gives a claim
  only for a `pending` review, and every step that leaves `processing` lets go of the claim.
  `ResolvedFinal` follows step by step, since only the holder of a claim writes a status.
- *Approved means filed.* `RowInv` adds that a reviewer carries its review's checksum and that,
  from the step after `SaveRow` to `Resolve`, the row is there. Rows are only added.
- *Rejected means not filed.* `NoRowInv`: a review that is not being filed, or whose reviewer has
  not passed `SaveRow`, has no row. It needs a server that does not die: after a crash a review
  that has a row is pending again and can be rejected.
- *One filer.* That a row has its file, that scans are kept and the refinement hold where at most one actor
  ever files (`OneFiler`): one reviewer with approval always required, or the worker alone; with two,
  `filing_overwrite` shows them fail. Then the name that was picked is still free when the scan is copied
  there (`FilerInv`), and the copy that is about to be recorded is the scan that is then retired from the
  inbox (`CustodyInv`). The refinement is proved one scan at a time: what a step does to the folders and
  rows changes the custody of one scan at most, and in a way `Custody` allows.
- *Reading.* One invariant of five parts carries all four theorems (`Invariance`): types; the scope
  is bound to the scan being read, whose outcome is still open (`Bound`, from which a cancel wins); the
  locals of a recovery are those of its stage (`Held`); each page has its text or is still with
  Tesseract or the model (`Assigned`); and which calls may be in flight (`Running`), which says that
  in the vision stage a recorded failure is that of a page of this scan.
- *Method.* `Sourced` follows the text of each page: from the layer exactly if it went nowhere else, from
  Tesseract exactly if it was kept there, from the model or blank for every page that needed it unless
  one of them failed; each label is then read off.
- *Rebuilds.* Types and `RebuildExclusive` are proved together, because `todo` is empty
  outside a rebuild only if nobody else rebuilds.
- *Honest labels.* Whoever passed the check works with the configured backend as long as nobody switched
  meanwhile, and the metadata names that backend already or the rebuild under way will. A vector of another backend in a
  collection that was not dropped is still on the list of the rebuild, or its embedding has failed (`HonestInv`).
- *Nothing missed.* A document that is stored and not in the index is still with the filing that stored it,
  will be listed by a rebuild, or is on the list of one (`Pending`). This needs nothing of switches.
- *The progress bus.* A sequence is reasoned about place by place: what a stream has sent, the rest of its
  snapshot and its queue are three adjoining stretches of the log (`Stream`), and the buffer is the end of
  the log (`Ring`). `None` is assumed to be no status, page or file.
- *The strip.* What is queued concerns the file shown and was said (`Kept`), and what drains hold ends a step, of
  the file shown unless the strip was reset since (`HeldEnds`): so an old file's step can be drawn late only if
  it is terminal, and a step is drawn running only for its own file (`HonestIInv`). For what is left running
  `SettleIInv` adds that a step drawn running was said to run, and that whatever was said since to end it is still
  queued or held, or is an end of its file that waits (`Unfinished`, `Open`); at rest nothing is, and what
  remains is `LeftOpen`. Neither bounds the events, the drains or the connections.
- *Verified bytes.* `VerifiedInv` adds that a request copies only what it verified.
- *Complete installations.* `CompleteInv`: as long as no two requests for different releases
  have met, what a request copied stays in place and what it will prune is not of its release.
  That the next file is one of the files left needs the least element of a set of
  numbers; `NatMinimum` gets it from the well-foundedness of inclusion of finite sets.
- *Exact installations.* Where nothing was cut off and no two requests met, the directory is one release
  between installations, and during one each file that is not of its release is doomed by some request that
  is under way (`WholeInv`).
- *Noticed interruptions.* The release that `pyproject.toml` claims is never later than one being installed,
  and the files copied before it are at least as new (`NoticedInv`); files are copied in order.
- *The limiter.* The windows are finite sets of distinct stamps no later than the clock, and the stamps of
  the last `AttemptWindow` ticks that were ever admitted are still in `attempts`: pruning never drops one
  of them. Every step that adds a failure takes an exchange out of the route, which bounds their sum.
- *Nonces.* A server listens only on its launcher's port, and a nonce that was accepted is neither in
  the file any more nor in the memory of a process that has a server, unless the file could not be removed or the launcher lost its port.
- *Refusals.* Two nonces that could both still be asked for are marked as overlapping; one that is young,
  unused and alone is the one in the file (`RefuseInv`).
- *Servers.* Unless a launcher went on although a server was up or coming, or a foreign program holds the
  home port, at most one launcher has a server or is about to start one, and it is on the home port
  (`ServersInv`). The exception for a foreign program is needed: a launcher that had to take the next port
  is not found by later ones, which probe the home port only and start a server of their own.
- *Uploads.* A stored scan that is in neither folder was replaced by a rival that had chosen its name
  before, or cleared, or unlinked under the name of such a scan; the filing thread's scan is where its step says.
- *Tokens.* Of the tokens of a login that was not lost, the newest is with exactly one thread or in the
  file, because the server takes no other; a thread that holds an older one is refused.
- *The last choice.* Every refresh under way is of the login chosen last or of one in `pursued`, so what a write
  leaves in the file is one of those or the choice itself, and the file is blank only for the thread that
  opened it or where a write was spoiled (`ChoiceInv`).
- *The stores.* Each step of a filing and of a clear either keeps the three stores in their order or puts the
  scan in `left`, `half` or `stray` (`StoresInOrder`); the marks are removed where the cause ends.
- *Media jobs.* The invariant ties the caller's step to the child's, the pipe and the signals sent.
- *Pulls.* An answer that does not know of a pulled model was asked for before the pull, and whoever
  holds it was marked when the pull dropped the caches.
- *Settings and `.env`.* A writer that is alone finds its own text under the temporary name and what it read
  under the real one (`WritesAlone`, `Orderly`); no open file bears the real name (`FilesOpen`) until
  two writers have crossed.

## What is only model-checked, and what is not modelled

Every invariant and every action property of a passing run, and the refinement of `Custody`, is stated by
a theorem. Only TLC checks the liveness properties, since liveness under fairness and ENABLED are
out of the prover's reach: `JobEnds` and `RequestEnds` of `Filing`, `RequestEnds` of `RagIndex`, `BusyEnds`
of `ProgressBus`, `ReadEnds` and `PagesEnd` of `Reading`, `LaunchEnds` of `Desktop` and `MediaEnds` of
`MediaJob`. The properties of the four violation runs are false of the code and have no theorem.

Not modelled: the components marked so in the inventory, and of the modelled ones formatting,
logging, validation of input, file permissions and symlinks, prompts and answers, and the text
of documents. `HalfInstallNoticed` says nothing of files copied after `pyproject.toml`, nor of
a second installation of a release that is already in place. Two requests for different releases at once
(`overlapped`) leave a mixture, and the properties of `UpdateInstall` except them.

Simplifications worth knowing: `Desktop.Healthy` takes for a server only what a launcher started, where the code takes
any program that answers 2xx on the port; `UpdateInstall` takes the version from `pyproject.toml`, where an editable
pip install has that of its metadata; `Provider` has one `.env`, where the code writes that of the project if it
can and keeps the token in that of the data directory; a read in `ProgressBus` and `Strip` says its steps in any order.
`ProviderAgrees` and `SettingsKept` say nothing of switches, or writers of two processes, that overlap;
`PullIsSeen` nothing of the answers a thread held when the caches were dropped; `ApprovedHasRow` nothing of the
bytes filed.

Also not modelled: session cookies (rows with an expiry, no interleaving of their own), the service
manager, window and icon calls of the desktop shell, the usage counters (under one lock), the rendering of
the pages, URL and manifest rules, and the ranking of models (pure functions of their input). The watcher of
the inbox is a process of `Settings` and nothing more: its jobs are those of `Filing`.

## What is next

1. The read of `Filing` shown to be an abstraction of `Reading`, and the inbox of `Filing` of `Uploads`.
2. The pure parts as functions, checked against reference definitions: `dedup` similarity and
   `_unique_*` naming, version and checksum parsing, chunking, URL and manifest rules.
3. Proofs: what does hold where a violation run shows a claim of the documentation false (which overlaps
   an archive file needs to be overwritten, which outcomes strand a claim), and the abstractions of item 1.
