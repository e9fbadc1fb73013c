----------------------------- MODULE SignInProofs -----------------------------
(***************************************************************************)
(* For any number of logins, handler threads and refreshes: a login is     *)
(* exchanged once, the refresh token in auth.json is the live one, and the *)
(* user's last choice stands but for refreshes under way when it was made. *)
(***************************************************************************)
EXTENDS SignIn, TLAPS

\* The marks are true or false.
Marks == accepted \in BOOLEAN /\ spoiled \in BOOLEAN

\* The other variables, and the fields the tokens are in.
Types ==
    /\ known \in SUBSET Logins
    /\ login \in [Logins -> {"none", "pending", "done", "refused"}]
    /\ job \in [Workers -> Job]
    /\ live \in [Logins -> Nat]
    /\ auth \in [there : BOOLEAN, key : BOOLEAN, tokens : SUBSET Token]
    /\ opened \in SUBSET Workers
    /\ exported \in BOOLEAN
    /\ choice \in {"none", "key"} \union Logins
    /\ pursued \in SUBSET Logins
    /\ unsaved \in SUBSET Logins

\* A thread with an answer of the token server that is not in the file yet.
Holds(w, l) == job[w].pc \in {"holding", "writing"} /\ l \in LoginOf(w)

\* A token that threads can read, or have read to refresh it.
Loose(t) == \/ t \in auth.tokens
            \/ \E w \in Workers : /\ job[w].op = "refresh" /\ job[w].pc = "asking"
                                  /\ t \in job[w].tokens

JobsInOrder ==
    /\ \A w \in Workers : /\ job[w].pc = "idle" => job[w].op = "none"
                          /\ job[w].op \in {"none", "key"} => job[w].tokens = {}
    /\ opened # {} => auth.there

\* Each token that was issued, as long as none was lost, is with the one thread
\* that will write it, or in the file, and then it is not older than the live
\* one unless its successor is with a thread.
TokensInOrder(l) ==
    /\ \A w \in Workers : \A t \in job[w].tokens :
         Holds(w, l) /\ t.login = l => t.turn = live[l]
    /\ \A v, w \in Workers : Holds(v, l) /\ Holds(w, l) => v = w
    /\ \A t \in Token : t.login = l /\ Loose(t) =>
         /\ t.turn <= live[l]
         /\ \A w \in Workers : Holds(w, l) => t.turn # live[l]
         /\ login[l] = "done"
    /\ login[l] # "done" => \A w \in Workers : Holds(w, l) => job[w].op = "login"

AllInOrder == \A l \in Logins \ unsaved : TokensInOrder(l)

SignIInv == Marks /\ Types /\ SingleExchange /\ JobsInOrder /\ AllInOrder /\ StoredTokenLive

-----------------------------------------------------------------------------
USE TurnsAssumption

\* Both halves of the types are preserved.
LEMMA MarksStep == Marks /\ [SignNext]_signVars => Marks'
<1> SUFFICES ASSUME Marks, [SignNext]_signVars PROVE Marks'
  OBVIOUS
<1> USE DEF Marks
<1>1. \A a, b : (a \/ b) \in BOOLEAN /\ (a /\ b) \in BOOLEAN
  OBVIOUS
<1>2. accepted' \in BOOLEAN
  BY DEF SignNext, signVars, Disclaim, Logout, Export, SignRestart, StartLogin, RefuseLogin,
     CompleteSession, RefreshDue, SaveKey, Issue, Refuse, Truncate, Write, WriteFails
<1>3. spoiled' \in BOOLEAN
  BY <1>1 DEF SignNext, signVars, Disclaim, Logout, Export, SignRestart, StartLogin,
     RefuseLogin, CompleteSession, RefreshDue, SaveKey, Issue, Refuse, Truncate, Write,
     WriteFails, Chosen
<1> QED
  BY <1>2, <1>3

\* Every step of a login keeps the types.
LEMMA TypesStep == Types /\ [SignNext]_signVars => Types'
<1> SUFFICES ASSUME Types, [SignNext]_signVars PROVE Types'
  OBVIOUS
<1> USE DEF Types, Job, Token, Idle
<1>b. /\ Absent \in [there : BOOLEAN, key : BOOLEAN, tokens : SUBSET Token]
      /\ Blank \in [there : BOOLEAN, key : BOOLEAN, tokens : SUBSET Token]
  BY DEF Absent, Blank
<1>a. \A w \in Workers : LoginOf(w) \subseteq Logins
  BY DEF LoginOf
<1>r. ASSUME NEW W \in SUBSET Workers PROVE Refreshing(W) \in SUBSET Logins
  BY <1>a DEF Refreshing
<1>1. CASE Disclaim
  BY <1>1 DEF Disclaim
<1>2. CASE Logout \/ Export
  <2>1. auth' \in [there : BOOLEAN, key : BOOLEAN, tokens : SUBSET Token]
    BY <1>b, <1>2 DEF Logout, Export
  <2>2. choice' \in {"none", "key"} \union Logins /\ exported' \in BOOLEAN
    BY <1>2 DEF Logout, Export
  <2>3. UNCHANGED <<known, login, job, live, unsaved>> /\ opened' \in SUBSET Workers
    BY <1>2 DEF Logout, Export
  <2>4. pursued' \in SUBSET Logins
    BY <1>2, <1>r DEF Logout, Export
  <2> QED
    BY <2>1, <2>2, <2>3, <2>4
<1>3. CASE SignRestart
  <2>1. job' \in [Workers -> Job]
    BY <1>3 DEF SignRestart
  <2>2. unsaved' \in SUBSET Logins
    BY <1>3, <1>a DEF SignRestart
  <2> QED
    BY <1>3, <2>1, <2>2 DEF SignRestart
<1>4. ASSUME NEW l \in Logins, StartLogin(l) \/ RefuseLogin(l) PROVE Types'
  BY <1>4 DEF StartLogin, RefuseLogin
<1>5. ASSUME NEW l \in Logins, NEW w \in Workers, CompleteSession(w, l) PROVE Types'
  <2>1. {[login |-> l, turn |-> live[l]]} \in SUBSET Token
    OBVIOUS
  <2>2. job' \in [Workers -> Job]
    BY <1>5, <2>1 DEF CompleteSession, Begin
  <2> QED
    BY <1>5, <2>2 DEF CompleteSession
<1>6. ASSUME NEW r \in Requests, RefreshDue(r) \/ SaveKey(r) PROVE Types'
  <2>1. r \in Workers
    BY DEF Workers
  <2>2. job' \in [Workers -> Job]
    BY <1>6, <2>1 DEF RefreshDue, SaveKey, Begin
  <2> QED
    BY <1>6, <2>2 DEF RefreshDue, SaveKey
<1>e. ASSUME NEW w \in Workers, End(w) PROVE job' \in [Workers -> Job]
  BY <1>e DEF End
<1>7. ASSUME NEW w \in Workers, Issue(w) PROVE Types'
  <2>1. PICK t \in job[w].tokens :
          /\ live' = [live EXCEPT ![t.login] = @ + 1]
          /\ \/ /\ job' = [job EXCEPT ![w].pc = "holding",
                              ![w].tokens = {[t EXCEPT !.turn = live[t.login] + 1]}]
                /\ UNCHANGED unsaved
             \/ End(w) /\ unsaved' = unsaved \union {t.login}
    BY <1>7 DEF Issue
  <2>2. t \in Token /\ [t EXCEPT !.turn = live[t.login] + 1] \in Token
    OBVIOUS
  <2>3. live' \in [Logins -> Nat]
    BY <2>1, <2>2
  <2>4. job' \in [Workers -> Job] /\ unsaved' \in SUBSET Logins
    <3>1. CASE End(w) /\ unsaved' = unsaved \union {t.login}
      BY <1>e, <2>2, <3>1
    <3>2. CASE /\ job' = [job EXCEPT ![w].pc = "holding",
                              ![w].tokens = {[t EXCEPT !.turn = live[t.login] + 1]}]
               /\ unsaved' = unsaved
      BY <2>2, <3>2
    <3> QED
      BY <2>1, <3>1, <3>2
  <2> QED
    BY <1>7, <2>3, <2>4 DEF Issue
<1>8. ASSUME NEW w \in Workers, Refuse(w) PROVE Types'
  BY <1>8, <1>e DEF Refuse
<1>9. ASSUME NEW w \in Workers, Truncate(w) PROVE Types'
  BY <1>9, <1>b DEF Truncate
<1>10. ASSUME NEW w \in Workers, Write(w) PROVE Types'
  <2>1. Payload(w) \in [there : BOOLEAN, key : BOOLEAN, tokens : SUBSET Token]
    BY DEF Payload
  <2>2. auth' \in [there : BOOLEAN, key : BOOLEAN, tokens : SUBSET Token]
    BY <1>b, <1>10, <2>1 DEF Write, Written
  <2>3. choice' \in {"none", "key"} \union Logins
    BY <1>10, <1>a DEF Write, Chosen, ChoiceOf
  <2>4. login' \in [Logins -> {"none", "pending", "done", "refused"}]
    BY <1>10 DEF Write
  <2>5. unsaved' \in SUBSET Logins /\ opened' \in SUBSET Workers
    BY <1>10, <1>a DEF Write
  <2>6. pursued' \in SUBSET Logins
    BY <1>10, <1>r DEF Write, Chosen
  <2> QED
    BY <1>10, <1>e, <2>2, <2>3, <2>4, <2>5, <2>6 DEF Write
<1>11. ASSUME NEW w \in Workers, WriteFails(w) PROVE Types'
  BY <1>11, <1>a, <1>e DEF WriteFails
<1>12. CASE UNCHANGED signVars
  BY <1>12 DEF signVars
<1> QED
  BY <1>1, <1>2, <1>3, <1>4, <1>5, <1>6, <1>7, <1>8, <1>9, <1>10, <1>11, <1>12 DEF SignNext

\* Who is not doing anything has no tokens, and an open file is one that exists.
LEMMA JobsStep == Types /\ JobsInOrder /\ [SignNext]_signVars => JobsInOrder'
<1> SUFFICES ASSUME Types, JobsInOrder, [SignNext]_signVars PROVE JobsInOrder'
  OBVIOUS
<1> USE DEF Types, JobsInOrder, Job, Idle
<1>1. CASE Disclaim \/ Export \/ UNCHANGED signVars
  BY <1>1 DEF Disclaim, Export, signVars
<1>2. CASE Logout
  BY <1>2 DEF Logout
<1>10. CASE SignRestart
  BY <1>10 DEF SignRestart
<1>3. ASSUME NEW l \in Logins, StartLogin(l) \/ RefuseLogin(l) PROVE JobsInOrder'
  BY <1>3 DEF StartLogin, RefuseLogin
<1>4. ASSUME NEW l \in Logins, NEW w \in Workers, CompleteSession(w, l) PROVE JobsInOrder'
  BY <1>4 DEF CompleteSession, Begin
<1>5. ASSUME NEW r \in Requests, RefreshDue(r) \/ SaveKey(r) PROVE JobsInOrder'
  BY <1>5 DEF RefreshDue, SaveKey, Begin, Workers
<1>6. ASSUME NEW w \in Workers, Issue(w) PROVE JobsInOrder'
  BY <1>6 DEF Issue, End
<1>7. ASSUME NEW w \in Workers, Refuse(w) \/ WriteFails(w) PROVE JobsInOrder'
  BY <1>7 DEF Refuse, WriteFails, End
<1>8. ASSUME NEW w \in Workers, Truncate(w) PROVE JobsInOrder'
  BY <1>8 DEF Truncate, Blank
<1>9. ASSUME NEW w \in Workers, Write(w) PROVE JobsInOrder'
  BY <1>9 DEF Write, Written, Payload, Blank, End
<1> QED
  BY <1>1, <1>2, <1>3, <1>4, <1>5, <1>6, <1>7, <1>8, <1>9, <1>10 DEF SignNext

\* The lock of a login, held by whoever completes it, keeps others out.
LEMMA ExchangeStep == Types /\ SingleExchange /\ JobsInOrder /\ [SignNext]_signVars
                          => SingleExchange'
<1> SUFFICES ASSUME Types, SingleExchange, JobsInOrder, [SignNext]_signVars
             PROVE  SingleExchange'
  OBVIOUS
<1> USE DEF Types, SingleExchange, InLogin, LoginOf, Job, Idle, JobsInOrder
<1>1. CASE Disclaim \/ Export \/ Logout \/ UNCHANGED signVars
  BY <1>1 DEF Disclaim, Export, Logout, signVars
<1>2. CASE SignRestart
  BY <1>2 DEF SignRestart
<1>3. ASSUME NEW l \in Logins, StartLogin(l) \/ RefuseLogin(l) PROVE SingleExchange'
  BY <1>3 DEF StartLogin, RefuseLogin
<1>4. ASSUME NEW l \in Logins, NEW w \in Workers, CompleteSession(w, l)
      PROVE  SingleExchange'
  BY <1>4 DEF CompleteSession, Begin
<1>5. ASSUME NEW r \in Requests, RefreshDue(r) \/ SaveKey(r) PROVE SingleExchange'
  BY <1>5 DEF RefreshDue, SaveKey, Begin, Workers
<1>6. ASSUME NEW w \in Workers, Issue(w) PROVE SingleExchange'
  BY <1>6 DEF Issue, End, Token
<1>7. ASSUME NEW w \in Workers, Refuse(w) \/ WriteFails(w) PROVE SingleExchange'
  BY <1>7 DEF Refuse, WriteFails, End
<1>8. ASSUME NEW w \in Workers, Truncate(w) PROVE SingleExchange'
  BY <1>8 DEF Truncate
<1>9. ASSUME NEW w \in Workers, Write(w) PROVE SingleExchange'
  BY <1>9 DEF Write, End
<1> QED
  BY <1>1, <1>2, <1>3, <1>4, <1>5, <1>6, <1>7, <1>8, <1>9 DEF SignNext

-----------------------------------------------------------------------------
\* The token server gives each thread a token of its own: the refresh token that
\* was sent is worthless from then on.
LEMMA IssueInOrder ==
    ASSUME Types, SingleExchange, JobsInOrder, AllInOrder, NEW w \in Workers, Issue(w)
    PROVE  AllInOrder'
<1> USE DEF Types, Job, Token, LoginOf
<1>1. PICK t \in job[w].tokens :
         /\ job[w].op = "refresh" => t.turn = live[t.login]
         /\ live' = [live EXCEPT ![t.login] = @ + 1]
         /\ \/ /\ job' = [job EXCEPT ![w].pc = "holding",
                             ![w].tokens = {[t EXCEPT !.turn = live[t.login] + 1]}]
               /\ UNCHANGED unsaved
            \/ End(w) /\ unsaved' = unsaved \union {t.login}
  BY DEF Issue
<1>2. /\ t \in Token /\ t.login \in Logins /\ live[t.login] \in Nat
      /\ job[w].pc = "asking" /\ UNCHANGED <<auth, login>>
  BY DEF Issue
<1>3. SUFFICES ASSUME NEW l \in Logins \ unsaved' PROVE TokensInOrder(l)'
  BY DEF AllInOrder
<1>4. l \in Logins \ unsaved /\ TokensInOrder(l)
  BY <1>1, <1>3 DEF AllInOrder
<1>5. ASSUME NEW u, Loose(u)' PROVE Loose(u)
  BY <1>1, <1>2, <1>5 DEF Loose, End, Idle
<1>6. CASE End(w) /\ unsaved' = unsaved \union {t.login}
  <2>1. l # t.login /\ live'[l] = live[l]
    BY <1>1, <1>2, <1>3, <1>6
  <2>2. \A v \in Workers : Holds(v, l)' => Holds(v, l) /\ v # w
    BY <1>2, <1>6 DEF Holds, End, Idle
  <2>3. \A v \in Workers : v # w => job'[v] = job[v]
    BY <1>6 DEF End
  <2> QED
    BY <1>2, <1>4, <1>5, <2>1, <2>2, <2>3 DEF TokensInOrder
<1>7. CASE /\ job' = [job EXCEPT ![w].pc = "holding",
                          ![w].tokens = {[t EXCEPT !.turn = live[t.login] + 1]}]
           /\ unsaved' = unsaved
  <2>1. /\ job'[w].tokens = {[t EXCEPT !.turn = live[t.login] + 1]}
        /\ job'[w].op = job[w].op /\ job'[w].pc = "holding"
        /\ \A v \in Workers : v # w => job'[v] = job[v]
    BY <1>7
  <2>2. [t EXCEPT !.turn = live[t.login] + 1].login = t.login
        /\ [t EXCEPT !.turn = live[t.login] + 1].turn = live[t.login] + 1
    BY <1>2
  <2>3. CASE l # t.login
    <3>1. \A v \in Workers : Holds(v, l)' => Holds(v, l) /\ v # w
      BY <2>1, <2>2, <2>3 DEF Holds
    <3>2. live'[l] = live[l]
      BY <1>1, <1>2, <2>3
    <3> QED
      BY <1>2, <1>4, <1>5, <2>1, <3>1, <3>2 DEF TokensInOrder
  <2>4. CASE l = t.login
    <3>1. live'[l] = live[l] + 1 /\ live[l] \in Nat
      BY <1>1, <1>2, <2>4
    <3>2. job[w].op \in {"login", "refresh"}
      BY <1>1, <1>2 DEF JobsInOrder
    <3>3. ASSUME NEW v \in Workers, Holds(v, l) PROVE FALSE
      <4>1. CASE job[w].op = "refresh"
        <5>1. Loose(t) /\ t.turn = live[l]
          BY <1>1, <1>2, <2>4, <4>1 DEF Loose
        <5> QED
          BY <1>2, <1>4, <2>4, <3>3, <5>1 DEF TokensInOrder
      <4>2. CASE job[w].op = "login"
        <5>1. InLogin(w, l) /\ login[l] = "pending"
          BY <1>1, <1>2, <2>4, <4>2 DEF InLogin, SingleExchange
        <5>2. InLogin(v, l)
          BY <1>4, <3>3, <5>1 DEF TokensInOrder, InLogin, Holds
        <5>3. v = w
          BY <5>1, <5>2 DEF SingleExchange
        <5> QED
          BY <1>2, <3>3, <5>3 DEF Holds
      <4> QED
        BY <3>2, <4>1, <4>2
    <3>4. \A v \in Workers : Holds(v, l)' => v = w
      BY <2>1, <3>3 DEF Holds
    <3>5. login[l] # "done" => job[w].op = "login"
      <4>1. CASE job[w].op = "refresh"
        <5>1. Loose(t)
          BY <1>1, <1>2, <4>1 DEF Loose
        <5> QED
          BY <1>2, <1>4, <2>4, <5>1 DEF TokensInOrder
      <4> QED
        BY <3>2, <4>1
    <3>6. \A u \in Token : u.login = l /\ Loose(u)' => u.turn <= live[l] /\ login[l] = "done"
      BY <1>4, <1>5 DEF TokensInOrder
    <3>7. \A u \in job'[w].tokens : u.turn = live'[l]
      BY <2>1, <2>2, <2>4, <3>1
    <3>8. \A u \in Token : u.login = l /\ Loose(u)' => u.turn <= live'[l] /\ u.turn # live'[l]
      BY <3>1, <3>6
    <3> QED
      BY <1>2, <2>1, <3>4, <3>5, <3>6, <3>7, <3>8 DEF TokensInOrder
  <2> QED
    BY <2>3, <2>4
<1> QED
  BY <1>1, <1>6, <1>7

\* A writer hands its token to the file, or loses it and is marked for that.
LEMMA WriteInOrder ==
    ASSUME Types, JobsInOrder, AllInOrder, NEW w \in Workers, Write(w) \/ WriteFails(w)
    PROVE  AllInOrder'
<1> USE DEF Types, Job, LoginOf
<1>1. /\ End(w) /\ live' = live /\ job[w].pc = "writing" /\ unsaved \subseteq unsaved'
      /\ \A l \in Logins : login[l] = "done" => login'[l] = "done"
  BY DEF Write, WriteFails
<1>2. /\ \A v \in Workers : v # w => job'[v] = job[v]
      /\ job'[w].op = "none" /\ job'[w].pc = "idle" /\ job'[w].tokens = {}
  BY <1>1 DEF End, Idle
<1>3. SUFFICES ASSUME NEW l \in Logins \ unsaved' PROVE TokensInOrder(l)'
  BY DEF AllInOrder
<1>4. l \in Logins \ unsaved /\ TokensInOrder(l)
  BY <1>1, <1>3 DEF AllInOrder
<1>5. \A v \in Workers : Holds(v, l)' => Holds(v, l) /\ v # w
  BY <1>2 DEF Holds
<1>6. ASSUME NEW u \in Token, u.login = l, Loose(u)'
      PROVE  \/ Loose(u)
             \/ u \in job[w].tokens /\ Holds(w, l) /\ Write(w) /\ w \in opened
  BY <1>1, <1>2, <1>6 DEF Loose, Holds, Write, WriteFails, Written, Payload, Blank
<1>7. ASSUME NEW u \in Token, u.login = l, Loose(u)'
      PROVE  /\ u.turn <= live'[l] /\ login'[l] = "done"
             /\ \A v \in Workers : Holds(v, l)' => u.turn # live'[l]
  <2>1. CASE Loose(u)
    BY <1>1, <1>4, <1>5, <1>7, <2>1 DEF TokensInOrder
  <2>2. CASE u \in job[w].tokens /\ Holds(w, l) /\ Write(w) /\ w \in opened
    <3>1. u.turn = live[l]
      BY <1>4, <1>7, <2>2 DEF TokensInOrder
    <3>2. \A v \in Workers : ~Holds(v, l)'
      BY <1>4, <1>5, <2>2 DEF TokensInOrder
    <3>3. auth.there
      BY <2>2 DEF JobsInOrder
    <3>4. login[l] = "done" \/ InLogin(w, l)
      BY <1>4, <2>2 DEF TokensInOrder, Holds, InLogin
    <3>5. login'[l] = "done"
      BY <1>1, <2>2, <3>3, <3>4 DEF Write
    <3>6. live[l] \in Nat
      BY <1>3
    <3> QED
      BY <1>1, <3>1, <3>2, <3>5, <3>6
  <2> QED
    BY <1>6, <1>7, <2>1, <2>2
<1>8. \A v \in Workers : Holds(v, l)' => login'[l] = "done" \/ job'[v].op = "login"
  BY <1>1, <1>2, <1>4, <1>5 DEF TokensInOrder
<1> QED
  BY <1>1, <1>2, <1>4, <1>5, <1>7, <1>8 DEF TokensInOrder

\* Nothing else makes, moves or ages a token.
LEMMA RestInOrder ==
    ASSUME Types, JobsInOrder, AllInOrder, [SignNext]_signVars,
           \A w \in Workers : ~Issue(w) /\ ~Write(w) /\ ~WriteFails(w)
    PROVE  AllInOrder'
<1> USE DEF Types, Job, LoginOf, JobsInOrder
<1>1. ASSUME live' = live, unsaved \subseteq unsaved',
             \A l \in Logins : login[l] = "done" => login'[l] = "done",
             \A l \in Logins \ unsaved' : \A w \in Workers :
                 Holds(w, l)' => /\ Holds(w, l) /\ job'[w].tokens = job[w].tokens
                                 /\ job'[w].op = job[w].op,
             \A u \in Token : Loose(u)' => Loose(u)
      PROVE  AllInOrder'
  <2>1. SUFFICES ASSUME NEW l \in Logins \ unsaved' PROVE TokensInOrder(l)'
    BY DEF AllInOrder
  <2>2. l \in Logins \ unsaved /\ TokensInOrder(l)
    BY <1>1, <2>1 DEF AllInOrder
  <2>3. ASSUME NEW w \in Workers, NEW u \in job'[w].tokens, Holds(w, l)', u.login = l
        PROVE  u.turn = live'[l]
    BY <1>1, <2>1, <2>2, <2>3 DEF TokensInOrder
  <2>4. \A v, w \in Workers : Holds(v, l)' /\ Holds(w, l)' => v = w
    BY <1>1, <2>1, <2>2 DEF TokensInOrder
  <2>5. ASSUME NEW u \in Token, u.login = l, Loose(u)'
        PROVE  /\ u.turn <= live'[l] /\ login'[l] = "done"
               /\ \A w \in Workers : Holds(w, l)' => u.turn # live'[l]
    BY <1>1, <2>1, <2>2, <2>5 DEF TokensInOrder
  <2>6. login'[l] # "done" => \A w \in Workers : Holds(w, l)' => job'[w].op = "login"
    BY <1>1, <2>1, <2>2 DEF TokensInOrder
  <2> QED
    BY <2>3, <2>4, <2>5, <2>6 DEF TokensInOrder
<1>2. CASE Disclaim \/ Export \/ UNCHANGED signVars
  BY <1>1, <1>2 DEF Disclaim, Export, signVars, Holds, Loose
<1>3. CASE Logout
  BY <1>1, <1>3 DEF Logout, Absent, Holds, Loose
<1>4. CASE SignRestart
  BY <1>1, <1>4 DEF SignRestart, Idle, Holds, Loose
<1>5. ASSUME NEW l \in Logins, StartLogin(l) \/ RefuseLogin(l) PROVE AllInOrder'
  BY <1>1, <1>5 DEF StartLogin, RefuseLogin, Holds, Loose
<1>6. ASSUME NEW w \in Workers, NEW l \in Logins, CompleteSession(w, l) PROVE AllInOrder'
  BY <1>1, <1>6 DEF CompleteSession, Begin, Busy, Holds, Loose
<1>7. ASSUME NEW r \in Requests, RefreshDue(r) PROVE AllInOrder'
  BY <1>1, <1>7 DEF RefreshDue, Begin, Busy, Holds, Loose, Workers
<1>8. ASSUME NEW r \in Requests, SaveKey(r) PROVE AllInOrder'
  BY <1>1, <1>8 DEF SaveKey, Begin, Busy, Holds, Loose, Workers
<1>9. ASSUME NEW w \in Workers, Refuse(w) PROVE AllInOrder'
  BY <1>1, <1>9 DEF Refuse, End, Idle, Holds, Loose
<1>10. ASSUME NEW w \in Workers, Truncate(w) PROVE AllInOrder'
  BY <1>1, <1>10 DEF Truncate, Blank, Holds, Loose
<1> QED
  BY <1>2, <1>3, <1>4, <1>5, <1>6, <1>7, <1>8, <1>9, <1>10 DEF SignNext

-----------------------------------------------------------------------------
\* The file's token loses its worth only when a thread has its successor.
LEMMA LiveStep ==
    ASSUME Types, JobsInOrder, AllInOrder, AllInOrder', StoredTokenLive,
           [SignNext]_signVars
    PROVE  StoredTokenLive'
<1> USE DEF Types, Job, Token, LoginOf, StoredTokenLive
<1>1. ASSUME live' = live, auth'.tokens \subseteq auth.tokens,
             \A w \in Workers : \A l \in Logins :
                 Holds(w, l) => Holds(w, l)' \/ l \in unsaved',
             unsaved \subseteq unsaved'
      PROVE  StoredTokenLive'
  BY <1>1 DEF Holds
<1>2. CASE Disclaim \/ Export \/ UNCHANGED signVars
  BY <1>1, <1>2 DEF Disclaim, Export, signVars, Holds
<1>3. CASE Logout
  BY <1>1, <1>3 DEF Logout, Absent, Holds
<1>4. CASE SignRestart
  BY <1>1, <1>4 DEF SignRestart, Idle, Holds
<1>5. ASSUME NEW l \in Logins, StartLogin(l) \/ RefuseLogin(l) PROVE StoredTokenLive'
  BY <1>1, <1>5 DEF StartLogin, RefuseLogin, Holds
<1>6. ASSUME NEW w \in Workers, NEW l \in Logins, CompleteSession(w, l)
      PROVE  StoredTokenLive'
  BY <1>1, <1>6 DEF CompleteSession, Begin, Busy, Holds
<1>7. ASSUME NEW r \in Requests, RefreshDue(r) PROVE StoredTokenLive'
  BY <1>1, <1>7 DEF RefreshDue, Begin, Busy, Holds, Workers
<1>8. ASSUME NEW r \in Requests, SaveKey(r) PROVE StoredTokenLive'
  BY <1>1, <1>8 DEF SaveKey, Begin, Busy, Holds, Workers
<1>9. ASSUME NEW w \in Workers, Refuse(w) PROVE StoredTokenLive'
  BY <1>1, <1>9 DEF Refuse, End, Holds
<1>10. ASSUME NEW w \in Workers, Truncate(w) PROVE StoredTokenLive'
  BY <1>10 DEF Truncate, Blank
<1>11. ASSUME NEW w \in Workers, WriteFails(w) PROVE StoredTokenLive'
  BY <1>1, <1>11 DEF WriteFails, End, Holds
<1>12. ASSUME NEW w \in Workers, Issue(w) PROVE StoredTokenLive'
  <2>1. PICK t \in job[w].tokens :
         /\ live' = [live EXCEPT ![t.login] = @ + 1]
         /\ \/ /\ job' = [job EXCEPT ![w].pc = "holding",
                             ![w].tokens = {[t EXCEPT !.turn = live[t.login] + 1]}]
               /\ UNCHANGED unsaved
            \/ End(w) /\ unsaved' = unsaved \union {t.login}
    BY <1>12 DEF Issue
  <2>2. t.login \in Logins /\ job[w].pc = "asking" /\ auth' = auth
    BY <1>12 DEF Issue
  <2>3. \A v \in Workers : v # w => job'[v] = job[v]
    BY <2>1 DEF End
  <2>4. unsaved \subseteq unsaved'
    BY <2>1
  <2>5. ASSUME NEW u \in auth.tokens
        PROVE  \/ live'[u.login] = u.turn
               \/ u.login \in unsaved'
               \/ \E v \in Workers : Holds(v, u.login)'
    <3>1. CASE u.login # t.login
      <4>1. live'[u.login] = live[u.login]
        BY <2>1, <2>2, <3>1
      <4>2. \A v \in Workers : Holds(v, u.login) => Holds(v, u.login)'
        BY <2>2, <2>3 DEF Holds
      <4> QED
        BY <2>4, <2>5, <4>1, <4>2 DEF Holds
    <3>2. CASE u.login = t.login
      <4>1. CASE unsaved' = unsaved \union {t.login}
        BY <3>2, <4>1
      <4>2. CASE job' = [job EXCEPT ![w].pc = "holding",
                             ![w].tokens = {[t EXCEPT !.turn = live[t.login] + 1]}]
        <5>1. job'[w].pc = "holding"
              /\ job'[w].tokens = {[t EXCEPT !.turn = live[t.login] + 1]}
          BY <4>2
        <5>2. [t EXCEPT !.turn = live[t.login] + 1].login = t.login
          OBVIOUS
        <5>3. \E x \in job'[w].tokens : x.login = u.login
          BY <3>2, <5>1, <5>2
        <5>4. Holds(w, u.login)'
          BY <5>1, <5>3 DEF Holds
        <5> QED
          BY <5>4
      <4> QED
        BY <2>1, <4>1, <4>2
    <3> QED
      BY <3>1, <3>2
  <2> QED
    BY <2>2, <2>5 DEF Holds
<1>13. ASSUME NEW w \in Workers, Write(w) PROVE StoredTokenLive'
  <2>1. End(w) /\ live' = live /\ job[w].pc = "writing" /\ unsaved \subseteq unsaved'
    BY <1>13 DEF Write
  <2>2. \A v \in Workers : v # w => job'[v] = job[v]
    BY <2>1 DEF End
  <2>3. CASE w \notin opened
    <3>1. auth' = auth /\ unsaved' = unsaved \union LoginOf(w)
      BY <1>13, <2>3 DEF Write, Written
    <3>2. \A v \in Workers : \A l \in Logins :
             Holds(v, l) => Holds(v, l)' \/ l \in unsaved'
      BY <2>2, <3>1 DEF Holds
    <3> QED
      BY <1>1, <2>1, <3>1, <3>2
  <2>4. CASE w \in opened
    <3>1. auth'.tokens \subseteq job[w].tokens
      BY <1>13, <2>4 DEF Write, Written, Payload, Blank
    <3>2. ASSUME NEW u \in job[w].tokens
          PROVE  live'[u.login] = u.turn \/ u.login \in unsaved'
      BY <2>1, <3>2 DEF AllInOrder, TokensInOrder, Holds
    <3> QED
      BY <3>1, <3>2
  <2> QED
    BY <2>3, <2>4
<1> QED
  BY <1>2, <1>3, <1>4, <1>5, <1>6, <1>7, <1>8, <1>9, <1>10, <1>11, <1>12, <1>13
     DEF SignNext

-----------------------------------------------------------------------------
\* The invariant of the credentials is inductive.
THEOREM SignInvariant == SignSpec => []SignIInv
<1>1. SignInit => SignIInv
  <2> SUFFICES ASSUME SignInit PROVE SignIInv
    OBVIOUS
  <2>1. Marks /\ Types
    BY DEF SignInit, Marks, Types, Idle, Absent, Job
  <2>2. SingleExchange /\ JobsInOrder /\ StoredTokenLive
    BY DEF SignInit, SingleExchange, JobsInOrder, StoredTokenLive, InLogin, Idle, Absent
  <2>3. AllInOrder
    BY DEF SignInit, AllInOrder, TokensInOrder, Holds, Loose, Idle, Absent
  <2> QED
    BY <2>1, <2>2, <2>3 DEF SignIInv
<1>2. SignIInv /\ [SignNext]_signVars => SignIInv'
  <2> SUFFICES ASSUME SignIInv, [SignNext]_signVars PROVE SignIInv'
    OBVIOUS
  <2>1. Marks' /\ Types' /\ JobsInOrder' /\ SingleExchange'
    BY MarksStep, TypesStep, JobsStep, ExchangeStep DEF SignIInv
  <2>2. AllInOrder'
    BY IssueInOrder, WriteInOrder, RestInOrder DEF SignIInv
  <2>3. StoredTokenLive'
    BY <2>2, LiveStep DEF SignIInv
  <2> QED
    BY <2>1, <2>2, <2>3 DEF SignIInv
<1> QED
  BY <1>1, <1>2, PTL DEF SignSpec

\* The refresh token in auth.json is live, or its successor is on its way or lost.
THEOREM StoredTokensAreLive == SignSpec => []StoredTokenLive
<1>1. SignIInv => StoredTokenLive
  BY DEF SignIInv
<1> QED
  BY <1>1, SignInvariant, PTL

\* A login is exchanged by one thread at a time, and never once it ended.
THEOREM ExchangesAreSingle == SignSpec => []SingleExchange
<1>1. SignIInv => SingleExchange
  BY DEF SignIInv
<1> QED
  BY <1>1, SignInvariant, PTL

\* Every variable keeps its type.
THEOREM SignTypeCorrect == SignSpec => []SignTypeOK
<1>1. SignIInv => SignTypeOK
  BY DEF SignIInv, Marks, Types, SignTypeOK
<1> QED
  BY <1>1, SignInvariant, PTL

-----------------------------------------------------------------------------
\* The credential auth.json amounts to.
FileSays == IF auth.key THEN {"key"}
            ELSE IF auth.tokens = {} THEN {"none"} ELSE {t.login : t \in auth.tokens}

Writing(w) == job[w].pc = "writing"

\* A thread that writes a sign-in has one token; a refresh under way is of the
\* sign-in chosen last, or was under way when that was chosen.
ThreadInOrder(w) ==
    /\ job[w].pc \in {"holding", "writing"} /\ job[w].op # "key" =>
         \E t \in job[w].tokens : job[w].tokens = {t}
    /\ job[w].op = "refresh" => LoginOf(w) \subseteq {choice} \union pursued

ChoiceInv ==
    /\ \A w \in Workers : ThreadInOrder(w)
    /\ auth.key => choice = "key"
    /\ auth.tokens # {} => \E t \in auth.tokens :
         auth.tokens = {t} /\ t.login \in {choice} \union pursued
    /\ ~auth.key /\ auth.tokens = {} =>
         choice = "none" \/ spoiled \/ \E w \in Workers : Writing(w) /\ w \in opened

\* Whoever empties the file is writing until it has written, or has left a mark;
\* what is written is the choice, or what a refresh was given.
LEMMA ChoiceStep ==
    ASSUME Marks, Types, JobsInOrder, ChoiceInv, [SignNext]_signVars
    PROVE  ChoiceInv'
<1>a. ASSUME UNCHANGED <<job, auth, opened, choice, pursued, spoiled>> PROVE ChoiceInv'
  BY <1>a DEF ChoiceInv, ThreadInOrder, Writing, FileSays, LoginOf
<1> USE DEF Marks, Types, Job, Idle, JobsInOrder, ChoiceInv, ThreadInOrder, Busy, Writing,
            FileSays
<1>1. CASE Disclaim \/ Export \/ UNCHANGED signVars
  BY <1>1, <1>a DEF Disclaim, Export, signVars
<1>2. CASE Logout
  <2>1. /\ auth' = Absent /\ choice' = "none" /\ UNCHANGED job
        /\ pursued' = Refreshing(Workers)
    BY <1>2 DEF Logout
  <2>2. \A w \in Workers : job[w].op = "refresh" => LoginOf(w) \subseteq pursued'
    BY <2>1 DEF Refreshing
  <2>3. \A w \in Workers : LoginOf(w)' = LoginOf(w)
    BY <2>1 DEF LoginOf
  <2> QED BY <2>1, <2>2, <2>3 DEF Absent
<1>3. CASE SignRestart
  <2>1. /\ \A w \in Workers : job'[w] = Idle
        /\ UNCHANGED <<auth, choice, pursued>>
        /\ spoiled' = (spoiled \/ opened # {})
    BY <1>3 DEF SignRestart
  <2> QED BY <2>1
<1>4. ASSUME NEW l \in Logins, StartLogin(l) \/ RefuseLogin(l) PROVE ChoiceInv'
  BY <1>4, <1>a DEF StartLogin, RefuseLogin
\* A thread that is not writing before and after changes nothing in the file.
<1>b. ASSUME NEW w \in Workers, UNCHANGED <<auth, opened, choice, pursued, spoiled>>,
             ~Writing(w), \A v \in Workers : v # w => job'[v] = job[v],
             ThreadInOrder(w)'
      PROVE  ChoiceInv'
  <2>1. ASSUME NEW v \in Workers, v # w PROVE ThreadInOrder(v)'
    BY <1>b, <2>1 DEF LoginOf
  <2>2. \A v \in Workers : Writing(v) => Writing(v)'
    BY <1>b
  <2> QED BY <1>b, <2>1, <2>2
<1>5. ASSUME NEW l \in Logins, NEW w \in Workers, CompleteSession(w, l) PROVE ChoiceInv'
  <2>1. /\ job[w].pc = "idle" /\ job'[w].pc = "asking" /\ job'[w].op = "login"
        /\ \A v \in Workers : v # w => job'[v] = job[v]
        /\ UNCHANGED <<auth, opened, choice, pursued, spoiled>>
    BY <1>5 DEF CompleteSession, Begin
  <2> QED BY <1>b, <2>1
<1>6. ASSUME NEW r \in Requests, RefreshDue(r) PROVE ChoiceInv'
  <2>1. r \in Workers
    BY DEF Workers
  <2>2. /\ job[r].pc = "idle" /\ job'[r].pc = "asking" /\ job'[r].tokens = auth.tokens
        /\ \A v \in Workers : v # r => job'[v] = job[v]
        /\ auth.tokens # {}
        /\ UNCHANGED <<auth, opened, choice, pursued, spoiled>>
    BY <1>6, <2>1 DEF RefreshDue, Begin
  <2>3. LoginOf(r)' \subseteq {choice} \union pursued
    BY <2>2 DEF LoginOf
  <2> QED BY <1>b, <2>1, <2>2, <2>3
<1>7. ASSUME NEW r \in Requests, SaveKey(r) PROVE ChoiceInv'
  <2>1. r \in Workers
    BY DEF Workers
  <2>2. /\ job[r].pc = "idle" /\ job'[r].op = "key"
        /\ \A v \in Workers : v # r => job'[v] = job[v]
        /\ UNCHANGED <<auth, opened, choice, pursued, spoiled>>
    BY <1>7, <2>1 DEF SaveKey, Begin
  <2> QED BY <1>b, <2>1, <2>2
<1>e. ASSUME NEW w \in Workers, End(w)
      PROVE  job'[w] = Idle /\ \A v \in Workers : v # w => job'[v] = job[v]
  BY <1>e DEF End
<1>9. ASSUME NEW w \in Workers, Refuse(w) PROVE ChoiceInv'
  BY <1>9, <1>b, <1>e DEF Refuse
<1>10. ASSUME NEW w \in Workers, Issue(w) PROVE ChoiceInv'
  <2>1. PICK t \in job[w].tokens :
           \/ job' = [job EXCEPT ![w].pc = "holding",
                            ![w].tokens = {[t EXCEPT !.turn = live[t.login] + 1]}]
           \/ End(w)
    BY <1>10 DEF Issue
  <2>2. /\ job[w].pc = "asking"
        /\ UNCHANGED <<auth, opened, choice, pursued, spoiled>>
    BY <1>10 DEF Issue
  <2>3. CASE End(w)
    <3>1. job'[w] = Idle /\ (\A v \in Workers : v # w => job'[v] = job[v]) /\ ~Writing(w)
      BY <1>e, <2>2, <2>3
    <3>2. ThreadInOrder(w)'
      BY <3>1
    <3> HIDE DEF ThreadInOrder, ChoiceInv, Writing
    <3> QED BY <1>b, <2>2, <3>1, <3>2
  <2>4. CASE job' = [job EXCEPT ![w].pc = "holding",
                           ![w].tokens = {[t EXCEPT !.turn = live[t.login] + 1]}]
    <3> DEFINE new == [t EXCEPT !.turn = live[t.login] + 1]
    <3>1. new.login = t.login
      BY DEF Token
    <3> HIDE DEF new
    <3>2. /\ job'[w].pc = "holding" /\ job'[w].tokens = {new} /\ job'[w].op = job[w].op
          /\ \A v \in Workers : v # w => job'[v] = job[v]
      BY <2>4 DEF new
    <3>3. LoginOf(w)' \subseteq LoginOf(w)
      BY <3>1, <3>2 DEF LoginOf
    <3>4. ThreadInOrder(w)'
      BY <2>2, <3>2, <3>3
    <3> QED BY <1>b, <2>2, <3>2, <3>4
  <2> QED BY <2>1, <2>3, <2>4
<1>11. ASSUME NEW w \in Workers, Truncate(w) PROVE ChoiceInv'
  <2>1. /\ job'[w] = [job[w] EXCEPT !.pc = "writing"]
        /\ \A v \in Workers : v # w => job'[v] = job[v]
        /\ job[w].pc = "holding"
        /\ auth' = Blank /\ opened' = opened \union {w}
        /\ UNCHANGED <<choice, pursued, spoiled>>
    BY <1>11 DEF Truncate
  <2>2. \A v \in Workers : LoginOf(v)' = LoginOf(v) /\ job'[v].op = job[v].op
    BY <2>1 DEF LoginOf
  <2>3. \A v \in Workers : ThreadInOrder(v)'
    BY <2>1, <2>2
  <2>4. Writing(w)' /\ w \in opened'
    BY <2>1
  <2> QED BY <2>1, <2>3, <2>4 DEF Blank
<1>12. ASSUME NEW w \in Workers, WriteFails(w) PROVE ChoiceInv'
  <2>1. /\ End(w) /\ opened' = opened \ {w} /\ UNCHANGED <<auth, choice, pursued>>
        /\ spoiled' = (spoiled \/ w \in opened)
    BY <1>12 DEF WriteFails
  <2>2. \A v \in Workers : ThreadInOrder(v)'
    BY <1>e, <2>1 DEF LoginOf
  <2>3. \A v \in Workers : v # w /\ Writing(v) => Writing(v)'
    BY <1>e, <2>1
  <2> QED BY <2>1, <2>2, <2>3
<1>13. ASSUME NEW w \in Workers, Write(w) PROVE ChoiceInv'
  <2>1. /\ End(w) /\ job[w].pc = "writing" /\ opened' = opened \ {w}
        /\ Chosen(w) /\ auth' \in Written(w)
    BY <1>13 DEF Write
  <2>2. \A v \in Workers : v # w => /\ Writing(v) => Writing(v)'
                                   /\ LoginOf(v)' = LoginOf(v) /\ job'[v] = job[v]
    BY <1>e, <2>1 DEF LoginOf
  <2>3. CASE w \notin opened
    <3>1. UNCHANGED <<auth, choice, pursued, spoiled, opened>>
      BY <2>1, <2>3 DEF Chosen, Written
    <3>2. \A v \in Workers : ThreadInOrder(v)'
      BY <1>e, <2>1, <2>2, <3>1
    <3> QED BY <2>2, <2>3, <3>1, <3>2
  <2>4. CASE w \in opened
    <3>1. /\ spoiled' = (auth # Blank)
          /\ IF job[w].op = "refresh" THEN UNCHANGED <<choice, pursued>>
             ELSE choice' \in ChoiceOf(w) /\ pursued' = Refreshing(Workers \ {w})
      BY <2>1, <2>4 DEF Chosen
    <3>2. auth' = Payload(w) \/ (auth' = Blank /\ spoiled')
      BY <2>1, <2>4, <3>1 DEF Written
    <3>3. \A v \in Workers : ThreadInOrder(v)'
      <4>1. \A v \in Workers \ {w} :
              job[v].op = "refresh" => LoginOf(v) \subseteq {choice'} \union pursued'
        BY <3>1 DEF Refreshing
      <4> QED BY <1>e, <2>1, <2>2, <4>1
    <3>4. CASE job[w].op = "key"
      <4>1. choice' = "key" /\ job[w].tokens = {}
        BY <3>1, <3>4 DEF ChoiceOf
      <4>2. Payload(w).key /\ Payload(w).tokens = {} /\ ~Blank.key /\ Blank.tokens = {}
        BY <3>4, <4>1 DEF Payload, Blank
      <4>3. (auth'.key \/ spoiled') /\ auth'.tokens = {}
        BY <3>2, <4>2
      <4> QED BY <3>3, <4>1, <4>3
    <3>5. CASE job[w].op # "key"
      <4>1. PICK t \in job[w].tokens : job[w].tokens = {t}
        BY <2>1, <3>5
      <4>2. LoginOf(w) = {t.login}
        BY <4>1 DEF LoginOf
      <4>3. t.login \in {choice'} \union pursued'
        BY <3>1, <3>5, <4>2 DEF ChoiceOf
      <4>4. ~Payload(w).key /\ Payload(w).tokens = {t}
        BY <3>5, <4>1 DEF Payload
      <4>5. (auth'.tokens = {t} /\ ~auth'.key) \/ (auth'.tokens = {} /\ ~auth'.key /\ spoiled')
        BY <3>2, <4>4 DEF Blank
      <4> QED BY <3>3, <4>3, <4>5
    <3> QED BY <3>4, <3>5
  <2> QED BY <2>3, <2>4
<1> QED
  BY <1>1, <1>2, <1>3, <1>4, <1>5, <1>6, <1>7, <1>9, <1>10, <1>11, <1>12, <1>13 DEF SignNext

\* The credential in use is the one of the user's last completed sign-in, key or
\* log-out, or a refresh has put back the login that it was refreshing when the
\* user chose, or a write was cut off or crossed another and left none.
THEOREM LastChoiceStands == SignSpec => []ChoiceStands
<1>1. SignInit => ChoiceInv
  BY DEF SignInit, ChoiceInv, ThreadInOrder, Writing, Idle, FileSays, Absent
<1>2. SignIInv /\ ChoiceInv /\ [SignNext]_signVars => ChoiceInv'
  BY ChoiceStep DEF SignIInv
<1>3. ChoiceInv => ChoiceStands
  BY DEF ChoiceInv, ChoiceStands, InUse, FileSays, Writing
<1> QED
  BY <1>1, <1>2, <1>3, SignInvariant, PTL DEF SignSpec
===============================================================================
