------------------------------- MODULE Desktop -------------------------------
(***************************************************************************)
(* Desktop launchers (run_desktop, deepcatalog/desktop.py) that share one  *)
(* DATA_DIR.  Each is a process: it reuses a healthy server or picks a     *)
(* port and starts its own in a thread, mints a one-time nonce             *)
(* (desktop_bootstrap.py: in its own memory and in one file of DATA_DIR)   *)
(* and opens the bootstrap URL in a native window, else in Chromium, else  *)
(* in the browser.  The server that listens on the window's port consumes  *)
(* the nonce (api_desktop_bootstrap, app/routers/auth.py).                 *)
(*                                                                         *)
(* A launcher mints once, so its nonce goes by its name.  What a program   *)
(* that is not DeepCatalog does with HomePort, and what the user, the      *)
(* window toolkits and the clock do, is nondeterministic.                  *)
(***************************************************************************)
EXTENDS Integers, FiniteSets

CONSTANTS Launchers,        \* the processes that may be started
          Installations,    \* how they may be started together
          Ports, HomePort,  \* HomePort is 8080, or DEEPCATALOG_PORT
          Nobody, Foreign,
          MaxKept           \* bound on removals of the nonce file that fail

\* With --headless, in a window, or in a window from the AppImage.
Styles == {"headless", "window", "image"}
Backends == {"webview", "chromium", "browser"}

ASSUME DesktopAssumption ==
    /\ Installations \subseteq [Launchers -> Styles]
    /\ HomePort \in Ports
    /\ IsFiniteSet(Ports) /\ IsFiniteSet(Launchers)
    /\ Cardinality(Ports) > Cardinality(Launchers)   \* a port is always to be had
    /\ Nobody \notin Launchers \union Backends /\ Foreign \notin Launchers
    /\ Foreign # Nobody

VARIABLES
    style,       \* how each launcher is started, fixed by Init
    step,        \* where run_desktop is
    port,        \* active_port
    thread,      \* the uvicorn thread of owned_server
    listener,    \* who listens on a port
    memory,      \* whether a process holds its nonce in _memory_nonce
    file,        \* whose nonce .desktop-bootstrap holds
    expired,     \* launchers whose nonce is past its time to live
    window,      \* the backend whose window shows the URL, or Nobody
    signedIn,    \* how often a launcher's nonce was accepted: history
    overlapped,  \* launchers whose nonce was outstanding beside another: history
    blind,       \* launchers that probed while another was starting: history
    outpaced,    \* launchers whose port was taken after they probed it: history
    kept         \* how often the file could not be removed: history

nonceVars == <<memory, file, expired, signedIn, overlapped, kept>>
deskVars == <<style, step, port, thread, listener, window, blind, outpaced, nonceVars>>

Steps == {"off", "probe", "pick", "health", "mint", "open", "foreground", "ended"}

DeskTypeOK ==
    /\ style \in [Launchers -> Styles]
    /\ step \in [Launchers -> Steps]
    /\ port \in [Launchers -> Ports]
    /\ thread \in [Launchers -> {"none", "starting", "serving", "dead"}]
    /\ listener \in [Ports -> Launchers \union {Nobody, Foreign}]
    /\ memory \in [Launchers -> BOOLEAN]
    /\ file \in Launchers \union {Nobody}
    /\ expired \subseteq Launchers
    /\ window \in [Launchers -> Backends \union {Nobody}]
    /\ signedIn \in [Launchers -> Nat]
    /\ overlapped \subseteq Launchers
    /\ blind \subseteq Launchers /\ outpaced \subseteq Launchers
    /\ kept \in Nat

DeskInit ==
    /\ style \in Installations
    /\ step = [l \in Launchers |-> "off"]
    /\ port = [l \in Launchers |-> HomePort]
    /\ thread = [l \in Launchers |-> "none"]
    /\ \E taken \in {Nobody, Foreign} :
          listener = [p \in Ports |-> IF p = HomePort THEN taken ELSE Nobody]
    /\ memory = [l \in Launchers |-> FALSE] /\ file = Nobody
    /\ expired = {}
    /\ window = [l \in Launchers |-> Nobody]
    /\ signedIn = [l \in Launchers |-> 0]
    /\ overlapped = {} /\ blind = {} /\ outpaced = {} /\ kept = 0

-----------------------------------------------------------------------------
\* _port_is_free: nothing listens, as far as a probe socket can tell.
Free(p) == listener[p] = Nobody

\* A port answers /api/health with success if DeepCatalog listens on it; that
\* no foreign program does is an assumption, for the code takes any 2xx.
Healthy(p) == listener[p] \in Launchers

\* A nonce somebody could still be asked for: minted, young and unused.
Outstanding(l) ==
    (memory[l] \/ file = l) /\ l \notin expired /\ signedIn[l] = 0

\* The process ends, and with it its daemon thread, its listening socket and
\* its memory; the nonce file stays.
ProcessEnds(l) ==
    /\ step' = [step EXCEPT ![l] = "ended"]
    /\ thread' = [thread EXCEPT ![l] = "none"]
    /\ listener' = [p \in Ports |-> IF listener[p] = l THEN Nobody ELSE listener[p]]
    /\ memory' = [memory EXCEPT ![l] = FALSE]
    /\ UNCHANGED <<style, port, file, expired, signedIn, overlapped, blind,
                   outpaced, kept>>

-----------------------------------------------------------------------------
\* The user starts DeepCatalog: _prepare_environment.
Start(l) ==
    /\ step[l] = "off"
    /\ step' = [step EXCEPT ![l] = "probe"]
    /\ UNCHANGED <<style, port, thread, listener, window, blind, outpaced, nonceVars>>

\* A healthy server on HomePort is reused; without a window there is then
\* nothing to do.
Reuse(l) ==
    /\ step[l] = "probe" /\ style[l] # "image" /\ Healthy(HomePort)
    /\ step' = [step EXCEPT ![l] = IF style[l] = "headless" THEN "ended" ELSE "mint"]
    /\ port' = [port EXCEPT ![l] = HomePort]
    /\ UNCHANGED <<style, thread, listener, window, blind, outpaced, nonceVars>>

\* An AppImage never reuses; others go on when the probe gets no answer, which
\* half a second of a busy server is enough for.
FindNone(l) ==
    /\ step[l] = "probe"
    /\ step' = [step EXCEPT ![l] = "pick"]
    /\ blind' = IF \/ Healthy(HomePort)
                   \/ \E k \in Launchers \ {l} : step[k] = "pick" \/ thread[k] = "starting"
                THEN blind \union {l} ELSE blind
    /\ UNCHANGED <<style, port, thread, listener, window, outpaced, nonceVars>>

\* _pick_port, then _start_uvicorn; the port stays free until the thread binds.
PickPort(l) ==
    /\ step[l] = "pick"
    /\ \E p \in Ports :
          /\ Free(p) /\ (p # HomePort => ~Free(HomePort))
          /\ port' = [port EXCEPT ![l] = p]
    /\ step' = [step EXCEPT ![l] = "health"]
    /\ thread' = [thread EXCEPT ![l] = "starting"]
    /\ UNCHANGED <<style, listener, window, blind, outpaced, nonceVars>>

\* uvicorn binds in its thread; if the port is gone the thread ends and
\* should_exit is never set.
Bind(l) ==
    /\ thread[l] = "starting"
    /\ IF Free(port[l])
       THEN /\ listener' = [listener EXCEPT ![port[l]] = l]
            /\ thread' = [thread EXCEPT ![l] = "serving"]
            /\ UNCHANGED outpaced
       ELSE /\ thread' = [thread EXCEPT ![l] = "dead"]
            /\ outpaced' = outpaced \union {l}
            /\ UNCHANGED listener
    /\ UNCHANGED <<style, step, port, window, blind, nonceVars>>

\* wait_for_health takes an answer from whichever DeepCatalog has the port.
HealthSeen(l) ==
    /\ step[l] = "health" /\ Healthy(port[l])
    /\ step' = [step EXCEPT ![l] = IF style[l] = "headless" THEN "foreground" ELSE "mint"]
    /\ outpaced' = IF listener[port[l]] = l THEN outpaced ELSE outpaced \union {l}
    /\ UNCHANGED <<style, port, thread, listener, window, blind, nonceVars>>

\* Mutants: the timeout is not raised; or it waits for the thread to end.
TimeoutIgnored(l) ==
    /\ step[l] = "health" /\ ~Healthy(port[l])
    /\ step' = [step EXCEPT ![l] = "foreground"]
    /\ UNCHANGED <<style, port, thread, listener, window, blind, outpaced, nonceVars>>

WaitsForBind(l) ==
    /\ step[l] = "health" /\ ~Healthy(port[l]) /\ thread[l] # "dead"
    /\ ProcessEnds(l)
    /\ UNCHANGED window

\* No answer for 30 seconds: TimeoutError ends the process.
HealthTimeout(l) ==
    /\ step[l] = "health" /\ ~Healthy(port[l])
    /\ ProcessEnds(l)
    /\ UNCHANGED window

-----------------------------------------------------------------------------
\* mint_desktop_bootstrap in the launcher's process, then the first backend.
Mint(l) ==
    /\ step[l] = "mint"
    /\ memory' = [memory EXCEPT ![l] = TRUE]
    /\ file' = l
    /\ LET others == {k \in Launchers \ {l} : Outstanding(k)}
       IN overlapped' = IF others = {} THEN overlapped ELSE overlapped \union others \union {l}
    /\ window' = [window EXCEPT ![l] = "webview"]
    /\ step' = [step EXCEPT ![l] = "open"]
    /\ UNCHANGED <<style, port, thread, listener, expired, signedIn, blind,
                   outpaced, kept>>

\* The time to live of a nonce runs out.
Expire(l) ==
    /\ step[l] \in {"open", "foreground", "ended"} /\ l \notin expired
    /\ memory[l] \/ file = l
    /\ expired' = expired \union {l}
    /\ UNCHANGED <<style, step, port, thread, listener, window, blind, outpaced, memory, file,
                   signedIn, overlapped, kept>>

\* Mutant: a nonce in memory hides the file's even once it is too old.
MemoryHides(server) ==
    IF memory[server] THEN (IF server \in expired THEN Nobody ELSE server)
    ELSE IF file # Nobody /\ file \notin expired THEN file ELSE Nobody

\* Which nonce the server of a process expects: its own while it is young,
\* else the file's.
Expected(server) ==
    IF memory[server] /\ server \notin expired THEN server
    ELSE IF file # Nobody /\ file \notin expired THEN file ELSE Nobody

\* The file's nonce is too old and nothing younger is in memory.
StaleFile(server) ==
    Expected(server) = Nobody /\ file # Nobody

\* Mutant: a consumed nonce stays in the file.
ClearMemory(server) ==
    memory' = [memory EXCEPT ![server] = FALSE] /\ UNCHANGED <<file, kept>>

\* _clear_unlocked: memory always, the file unless its removal fails.
Clear(server) ==
    /\ memory' = [memory EXCEPT ![server] = FALSE]
    /\ \/ file' = Nobody /\ UNCHANGED kept
       \/ kept < MaxKept /\ file # Nobody /\ kept' = kept + 1 /\ UNCHANGED file

\* A window loads its URL, and may load it again; a request that the rate
\* limiter turns away, or that finds no server, changes nothing.
Asks(l) == window[l] # Nobody /\ Healthy(port[l])

\* consume_desktop_bootstrap: the candidate matches what is expected.
Accept(l) ==
    /\ Asks(l) /\ Expected(listener[port[l]]) = l
    /\ signedIn' = [signedIn EXCEPT ![l] = @ + 1]
    /\ Clear(listener[port[l]])
    /\ UNCHANGED <<style, step, port, thread, listener, window, blind, outpaced, expired, overlapped>>

\* It does not match: nothing changes, but for a file past its time.
Refusable(l) == Asks(l) /\ Expected(listener[port[l]]) # l

RefuseStale(l) ==
    /\ Refusable(l) /\ StaleFile(listener[port[l]])
    /\ Clear(listener[port[l]])
    /\ UNCHANGED <<style, step, port, thread, listener, window, blind, outpaced, expired, signedIn,
                   overlapped>>

-----------------------------------------------------------------------------
\* A backend is missing or fails, before or after it loaded the URL: the next
\* one opens the same URL.
FallBack(l) ==
    /\ step[l] = "open" /\ window[l] \in {"webview", "chromium"}
    /\ window' = [window EXCEPT ![l] = IF @ = "webview" THEN "chromium" ELSE "browser"]
    /\ UNCHANGED <<style, step, port, thread, listener, blind, outpaced, memory, file, expired,
                   signedIn, overlapped, kept>>

\* The user closes the window: the launcher stops its own server and returns.
CloseWindow(l) ==
    /\ step[l] = "open" /\ window[l] \in {"webview", "chromium"}
    /\ window' = [window EXCEPT ![l] = Nobody]
    /\ ProcessEnds(l)

\* Chromium hands off to a running instance, or the browser has been asked to
\* open the page: a launcher with a server of its own stays for it.
HandOff(l) ==
    /\ step[l] = "open" /\ window[l] \in {"chromium", "browser"}
    /\ IF thread[l] = "none"
       THEN ProcessEnds(l)
       ELSE /\ step' = [step EXCEPT ![l] = "foreground"]
            /\ UNCHANGED <<style, port, thread, listener, blind, outpaced, nonceVars>>
    /\ UNCHANGED window

\* SIGINT or SIGTERM in _wait_for_server, or the process is killed: a native
\* window goes with it, Chromium and the browser have sessions of their own.
Stop(l) ==
    /\ step[l] \in {"mint", "open", "foreground"}
    /\ ProcessEnds(l)
    /\ window' = [window EXCEPT ![l] = IF @ = "webview" THEN Nobody ELSE @]

\* What a launcher does by itself, up to the window or the foreground.
Launch(l) == \/ Reuse(l) \/ FindNone(l) \/ PickPort(l)
             \/ HealthSeen(l) \/ HealthTimeout(l) \/ Mint(l)

DeskNext ==
    \E l \in Launchers :
        \/ Start(l) \/ Launch(l) \/ Bind(l) \/ Expire(l)
        \/ Accept(l) \/ RefuseStale(l)
        \/ FallBack(l) \/ CloseWindow(l) \/ HandOff(l) \/ Stop(l)

\* Processes and threads are scheduled; users, windows and clocks are not.
DeskFairness == \A l \in Launchers : WF_deskVars(Launch(l)) /\ WF_deskVars(Bind(l))

DeskSpec == DeskInit /\ [][DeskNext]_deskVars /\ DeskFairness

-----------------------------------------------------------------------------
\* A nonce signs a window in at most once, whatever servers, files and
\* memories it passes through, unless the file could not be removed or another
\* server answered on the launcher's port (consume_desktop_bootstrap).
NonceOnce ==
    \A l \in Launchers : signedIn[l] > 1 => kept > 0 \/ l \in outpaced

\* A window is refused only with an old nonce, a nonce already used by an
\* earlier backend, or because two launchers' nonces were outstanding at once
\* and share one file, or two servers contended for a port: a launcher that has
\* the desktop to itself is never turned away.
RefusedForReason ==
    \A l \in Launchers :
        Refusable(l) => l \in expired \/ signedIn[l] > 0 \/ l \in overlapped
                                     \/ outpaced # {}

\* Two servers, and so two inbox workers, share a DATA_DIR only if some launcher
\* went on although a server was up or starting (an AppImage always does), or a
\* foreign program holds the port that is probed; and a launcher that stays in
\* the foreground for its server has one unless it lost its port (run_desktop).
\* The two servers need not be the ones that contended: one that found HomePort
\* taken stays where later launchers do not look, when HomePort is free again.
ServersAccountedFor ==
    /\ \A p, q \in Ports :
         (p # q /\ Healthy(p) /\ Healthy(q)) =>
            blind # {} \/ listener[HomePort] = Foreign
    /\ \A l \in Launchers :
         step[l] = "foreground" => listener[port[l]] = l \/ l \in outpaced

\* A start ends in an open window, a server in the foreground or the end of
\* the process, never in a silent wait.
LaunchEnds ==
    \A l \in Launchers :
        step[l] = "probe" ~> step[l] \in {"open", "foreground", "ended"}
=============================================================================
