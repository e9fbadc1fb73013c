-------------------------------- MODULE SignIn --------------------------------
(***************************************************************************)
(* Cloud credentials (deepcatalog/codex_oauth.py, auth.py and privacy.py,  *)
(* routes in app/routers/auth.py): ChatGPT logins that a browser callback  *)
(* or a pasted URL completes, an API key, Log out, and the refresh that    *)
(* any LLM call may start.  All of them rewrite auth.json: truncated and   *)
(* then written, with no lock around the read, the network call and the    *)
(* write.  _complete_session alone is serialised, per login, by the lock   *)
(* of its OAuthSession.                                                    *)
(*                                                                         *)
(* The token server is external: it rotates refresh tokens, one answer     *)
(* making the token it was given worthless.  A token is its login and its  *)
(* turn; near expiry is a free choice of the step that reads the file.     *)
(***************************************************************************)
EXTENDS Integers

CONSTANTS Logins,     \* sign-ins a user may start
          Requests,   \* handler threads, and the worker that calls a model
          MaxTurns    \* bound of the tokens issued for a login

ASSUME TurnsAssumption == MaxTurns \in Nat

VARIABLES
    accepted,    \* the cloud disclaimer is accepted
    known,       \* _sessions: logins the server remembers
    login,       \* none, pending, done, or refused by the authorize page
    job,         \* what each thread is doing to the credentials
    live,        \* the turn of the token the server accepts, 0 before the first
    auth,        \* auth.json, as far as a credential can be read from it
    opened,      \* threads whose open file is the one that bears the name now
    exported,    \* a key was copied into OPENAI_API_KEY of the process
    choice,      \* what the user last completed: history
    pursued,      \* logins whose refresh was under way when the user chose: history
    spoiled,     \* the last write was cut off, or crossed another: history
    unsaved      \* logins with a token issued that was never written: history

signVars == <<accepted, known, login, job, live, auth, opened, exported, choice,
              pursued, spoiled, unsaved>>

Workers == Requests \union {"callback"}
Token == [login : Logins, turn : Nat]
Absent == [there |-> FALSE, key |-> FALSE, tokens |-> {}]
Blank == [there |-> TRUE, key |-> FALSE, tokens |-> {}]     \* empty or not JSON
Idle == [op |-> "none", pc |-> "idle", tokens |-> {}]
Job == [op : {"none", "login", "refresh", "key"},
        pc : {"idle", "asking", "holding", "writing"}, tokens : SUBSET Token]

SignTypeOK ==
    /\ accepted \in BOOLEAN /\ known \in SUBSET Logins
    /\ login \in [Logins -> {"none", "pending", "done", "refused"}]
    /\ job \in [Workers -> Job]
    /\ live \in [Logins -> Nat]
    /\ auth \in [there : BOOLEAN, key : BOOLEAN, tokens : SUBSET Token]
    /\ opened \in SUBSET Workers
    /\ exported \in BOOLEAN
    /\ choice \in {"none", "key"} \union Logins
    /\ pursued \in SUBSET Logins /\ spoiled \in BOOLEAN
    /\ unsaved \in SUBSET Logins

SignInit ==
    /\ accepted = FALSE /\ known = {} /\ login = [l \in Logins |-> "none"]
    /\ job = [w \in Workers |-> Idle]
    /\ live = [l \in Logins |-> 0]
    /\ auth = Absent /\ opened = {} /\ exported = FALSE
    /\ choice = "none" /\ pursued = {} /\ spoiled = FALSE /\ unsaved = {}

-----------------------------------------------------------------------------
Busy(w) == job[w].pc # "idle"
LoginOf(w) == {t.login : t \in job[w].tokens}
InLogin(w, l) == job[w].op = "login" /\ l \in LoginOf(w)

Begin(w, op, pc, tokens) ==
    /\ ~Busy(w)
    /\ job' = [job EXCEPT ![w] = [op |-> op, pc |-> pc, tokens |-> tokens]]

End(w) == job' = [job EXCEPT ![w] = Idle]

\* accept_cloud_disclaimer and revoke_cloud_disclaimer.
Disclaim == /\ accepted' = ~accepted
            /\ UNCHANGED <<known, login, job, live, auth, opened, exported, choice,
                           pursued, spoiled, unsaved>>

\* start_oauth_login; logins older than fifteen minutes are forgotten.
StartLogin(l) ==
    /\ accepted /\ login[l] = "none"
    /\ \E old \in SUBSET known : known' = (known \ old) \union {l}
    /\ login' = [login EXCEPT ![l] = "pending"]
    /\ UNCHANGED <<accepted, job, live, auth, opened, exported, choice, pursued,
                   spoiled, unsaved>>

\* _complete_session has the lock of the login and finds it open.  A callback
\* comes in a thread of its own, a pasted URL in a request, which the
\* disclaimer guards.  A login that has ended is answered without a change.
CompleteSession(w, l) ==
    /\ w = "callback" \/ accepted
    /\ l \in known /\ login[l] = "pending"
    /\ \A v \in Workers : ~InLogin(v, l)
    /\ Begin(w, "login", "asking", {[login |-> l, turn |-> live[l]]})
    /\ UNCHANGED <<accepted, known, login, live, auth, opened, exported, choice,
                   pursued, spoiled, unsaved>>

\* The authorize page sent the browser back with an error.
RefuseLogin(l) ==
    /\ ~Busy("callback") /\ l \in known /\ login[l] = "pending"
    /\ \A v \in Workers : ~InLogin(v, l)
    /\ login' = [login EXCEPT ![l] = "refused"]
    /\ UNCHANGED <<accepted, known, job, live, auth, opened, exported, choice,
                   pursued, spoiled, unsaved>>

\* get_valid_chatgpt_tokens reads a token that is near expiry.
RefreshDue(r) ==
    /\ r \in Requests /\ ~auth.key /\ ~exported /\ auth.tokens # {}
    /\ Begin(r, "refresh", "asking", auth.tokens)
    /\ UNCHANGED <<accepted, known, login, live, auth, opened, exported, choice,
                   pursued, spoiled, unsaved>>

\* save_api_key has checked the key and is about to open the file.
SaveKey(r) ==
    /\ r \in Requests /\ accepted
    /\ Begin(r, "key", "holding", {})
    /\ UNCHANGED <<accepted, known, login, live, auth, opened, exported, choice,
                   pursued, spoiled, unsaved>>

-----------------------------------------------------------------------------
\* The token server takes the code, or the refresh token if it is the live one.
Issue(w) ==
    /\ job[w].pc = "asking"
    /\ \E t \in job[w].tokens :
          /\ job[w].op = "refresh" => t.turn = live[t.login]
          /\ live[t.login] < MaxTurns
          /\ live' = [live EXCEPT ![t.login] = @ + 1]
          /\ \/ /\ job' = [job EXCEPT ![w].pc = "holding",
                                      ![w].tokens = {[t EXCEPT !.turn = live[t.login] + 1]}]
                /\ UNCHANGED unsaved
             \* The answer is lost, or has no account in it.
             \/ End(w) /\ unsaved' = unsaved \union {t.login}
    /\ UNCHANGED <<accepted, known, login, auth, opened, exported, choice, pursued, spoiled>>

\* The server says no, or cannot be reached: the exception ends the request and
\* leaves a login pending.
Refuse(w) ==
    /\ job[w].pc = "asking" /\ End(w)
    /\ UNCHANGED <<accepted, known, login, live, auth, opened, exported, choice,
                   pursued, spoiled, unsaved>>

\* write_text opens the file, which empties it.
Truncate(w) ==
    /\ job[w].pc = "holding"
    /\ job' = [job EXCEPT ![w].pc = "writing"]
    /\ auth' = Blank /\ opened' = opened \union {w}
    /\ UNCHANGED <<accepted, known, login, live, exported, choice, pursued, spoiled,
                   unsaved>>

\* Mutant: the refresh token that was sent is written back.
OldPayload(w) ==
    [there |-> TRUE, key |-> job[w].op = "key",
     tokens |-> {[t EXCEPT !.turn = IF job[w].op = "refresh" THEN @ - 1 ELSE @] :
                    t \in job[w].tokens}]

Payload(w) == [there |-> TRUE, key |-> job[w].op = "key", tokens |-> job[w].tokens]

\* What the file reads as once w has written: a longer text that another thread
\* wrote since w emptied the file sticks out behind it.  A file unlinked since
\* is written where nobody looks.
Written(w) == IF w \notin opened THEN {auth}
              ELSE IF auth = Blank THEN {Payload(w)}
              ELSE {Payload(w), Blank}

ChoiceOf(w) == IF job[w].op = "key" THEN {"key"} ELSE LoginOf(w)

\* Logins that some of these threads are refreshing.
Refreshing(W) == UNION {LoginOf(v) : v \in {u \in W : job[u].op = "refresh"}}

Chosen(w) ==
    IF w \notin opened THEN UNCHANGED <<choice, pursued, spoiled>>
    ELSE /\ spoiled' = (auth # Blank)
         /\ IF job[w].op = "refresh" THEN UNCHANGED <<choice, pursued>>
            ELSE choice' \in ChoiceOf(w) /\ pursued' = Refreshing(Workers \ {w})

\* The rest of write_text, chmod, and for a login the end of its session.  chmod
\* raises when the name is gone.
Write(w) ==
    /\ job[w].pc = "writing"
    /\ auth' \in Written(w) /\ opened' = opened \ {w}
    /\ Chosen(w) /\ End(w)
    /\ login' = [l \in Logins |->
                   IF InLogin(w, l) /\ auth.there THEN "done" ELSE login[l]]
    /\ unsaved' = IF w \in opened THEN unsaved ELSE unsaved \union LoginOf(w)
    /\ UNCHANGED <<accepted, known, live, exported>>

\* The disk is full: what the file held is gone.
WriteFails(w) ==
    /\ job[w].pc = "writing" /\ End(w)
    /\ opened' = opened \ {w}
    /\ spoiled' = (spoiled \/ w \in opened) /\ unsaved' = unsaved \union LoginOf(w)
    /\ UNCHANGED <<accepted, known, login, live, auth, exported, choice, pursued>>

\* Mutant: Log out removes the tokens only.
LogoutKeepsKey ==
    /\ auth' = [auth EXCEPT !.tokens = {}]
    /\ choice' = "none" /\ pursued' = Refreshing(Workers) /\ spoiled' = FALSE
    /\ UNCHANGED <<accepted, known, login, job, live, opened, exported, unsaved>>

\* clear_auth.
Logout ==
    /\ auth' = Absent /\ opened' = {}
    /\ choice' = "none" /\ pursued' = Refreshing(Workers) /\ spoiled' = FALSE
    /\ UNCHANGED <<accepted, known, login, job, live, exported, unsaved>>

\* ensure_openai_env, before a call to the Platform API.
Export == /\ auth.key /\ ~exported /\ exported' = TRUE
          /\ UNCHANGED <<accepted, known, login, job, live, auth, opened, choice,
                         pursued, spoiled, unsaved>>

\* The process ends between two of these steps and another takes its place.
SignRestart ==
    /\ job' = [w \in Workers |-> Idle] /\ known' = {} /\ opened' = {}
    /\ exported' = FALSE
    /\ spoiled' = (spoiled \/ opened # {})
    /\ unsaved' = unsaved \union UNION {LoginOf(w) : w \in {v \in Workers :
                                           job[v].pc \in {"holding", "writing"}}}
    /\ UNCHANGED <<accepted, login, live, auth, choice, pursued>>

SignNext ==
    \/ Disclaim \/ Logout \/ Export \/ SignRestart
    \/ \E l \in Logins : StartLogin(l) \/ RefuseLogin(l)
                         \/ \E w \in Workers : CompleteSession(w, l)
    \/ \E r \in Requests : RefreshDue(r) \/ SaveKey(r)
    \/ \E w \in Workers : Issue(w) \/ Refuse(w) \/ Truncate(w) \/ Write(w)
                          \/ WriteFails(w)

SignSpec == SignInit /\ [][SignNext]_signVars

-----------------------------------------------------------------------------
\* resolve_auth_mode: the environment, a key in the file, ChatGPT tokens.
InUse == IF exported \/ auth.key THEN {"key"}
         ELSE IF auth.tokens = {} THEN {"none"} ELSE {t.login : t \in auth.tokens}

\* When no thread is writing, the credential in use is the one of the user's
\* last completed sign-in, key or log-out, with two exceptions.  A refresh that
\* was under way when the user chose may put its own login back over the choice
\* when it is answered: nothing checks that the sign-in it refreshes is still
\* there.  No refresh that begins later does, and no other thread does.  And a
\* write that is cut off or crosses another may leave no credential at all, but
\* never another.  (A process that has copied a key into its environment uses
\* that key until it ends.)
ChoiceStands ==
    (~exported /\ \A w \in Workers : job[w].pc # "writing") =>
        \/ InUse = {choice}
        \/ InUse \subseteq pursued
        \/ spoiled /\ InUse = {"none"}

\* The refresh token in auth.json is one the server still takes, however the
\* threads that found it near expiry interleave: the sign-in does not expire
\* while the app is in use.  Excepted are answers on their way to the file and
\* answers that never reached it.
StoredTokenLive ==
    \A t \in auth.tokens :
        \/ live[t.login] = t.turn
        \/ t.login \in unsaved
        \/ \E w \in Workers : job[w].pc \in {"holding", "writing"} /\ t.login \in LoginOf(w)

\* A login is exchanged by one thread at a time, and never again once it ended,
\* whether its code comes by the callback, by a paste or by both.
SingleExchange ==
    \A v, w \in Workers : \A l \in Logins :
        InLogin(v, l) => login[l] = "pending" /\ (InLogin(w, l) => v = w)
===============================================================================
