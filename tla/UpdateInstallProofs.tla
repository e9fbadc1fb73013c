------------------------- MODULE UpdateInstallProofs -------------------------
(* What holds of UpdateInstall for any releases and any number of requests. *)
EXTENDS UpdateInstall, FiniteSetTheorems, WellFoundedInduction, TLAPS

-----------------------------------------------------------------------------
(* Types *)

\* The initial state is well typed.
LEMMA TypeInit == Init => TypeOK
<1> SUFFICES ASSUME Init PROVE TypeOK
  OBVIOUS
<1>1. 1 \in Releases /\ 1 \in 0..LastRelease
  BY ReleasesAssumption DEF Releases
<1>2. tree \in [Files -> (-LastRelease)..LastRelease \cup {Foreign}]
  <2>1. {1, Absent} \subseteq (-LastRelease)..LastRelease
    BY <1>1, ReleasesAssumption DEF Absent
  <2> QED BY <2>1 DEF Init
<1>3. ASSUME NEW t \in Threads
      PROVE  pc[t] = "idle" /\ rel[t] = None /\ payload[t] = None /\ todo[t] = {} /\ doomed[t] = {}
  BY DEF Init
<1>4. /\ pc \in [Threads -> {"idle", "download", "verify", "copy"}]
      /\ rel \in [Threads -> Releases \cup {None}]
      /\ payload \in [Threads -> Releases \cup {Foreign, None}]
      /\ todo \in [Threads -> SUBSET Files] /\ doomed \in [Threads -> SUBSET Files]
  BY DEF Init
<1> QED BY <1>1, <1>2, <1>3, <1>4 DEF Init, TypeOK

\* The version read from the disk is a release or none.
LEMMA VersionType ==
  ASSUME tree \in [Files -> (-LastRelease)..LastRelease \cup {Foreign}],
         image \in Releases \cup {Foreign}
  PROVE  VersionsOnDisk \subseteq 0..LastRelease \cup {Foreign}
<1>1. VersionFile \in Files
  BY ReleasesAssumption DEF Files, Releases
<1>2. tree[VersionFile] # Foreign => ReleaseOf(tree[VersionFile]) \in 0..LastRelease
  BY <1>1, ReleasesAssumption DEF ReleaseOf
<1> QED BY <1>1, <1>2, ReleasesAssumption DEF VersionsOnDisk, Releases

\* A request that returns stays well typed.
LEMMA ReturnType ==
  ASSUME TypeOK, NEW t \in Threads, Return(t)
  PROVE  /\ pc' \in [Threads -> {"idle", "download", "verify", "copy"}]
         /\ rel' \in [Threads -> Releases \cup {None}]
         /\ payload' \in [Threads -> Releases \cup {Foreign, None}]
         /\ todo' \in [Threads -> SUBSET Files] /\ doomed' \in [Threads -> SUBSET Files]
         /\ \A u \in Threads :
              /\ (pc'[u] = "idle") = (rel'[u] = None)
              /\ (pc'[u] \in {"idle", "download"}) = (payload'[u] = None)
              /\ pc'[u] # "idle" => pc[u] # "idle" /\ rel'[u] = rel[u]
              /\ todo'[u] \cup doomed'[u] # {} => pc'[u] = "copy"
<1>1. /\ pc' \in [Threads -> {"idle", "download", "verify", "copy"}]
      /\ rel' \in [Threads -> Releases \cup {None}]
      /\ payload' \in [Threads -> Releases \cup {Foreign, None}]
      /\ todo' \in [Threads -> SUBSET Files] /\ doomed' \in [Threads -> SUBSET Files]
  BY DEF TypeOK, Return, Goto
<1>2. ASSUME NEW u \in Threads
      PROVE  /\ (pc'[u] = "idle") = (rel'[u] = None)
             /\ (pc'[u] \in {"idle", "download"}) = (payload'[u] = None)
             /\ pc'[u] # "idle" => pc[u] # "idle" /\ rel'[u] = rel[u]
             /\ todo'[u] \cup doomed'[u] # {} => pc'[u] = "copy"
  <2>1. CASE u = t
    BY <2>1 DEF TypeOK, Return, Goto
  <2>2. CASE u # t
    <3>1. /\ pc'[u] = pc[u] /\ rel'[u] = rel[u]
          /\ payload'[u] = payload[u]
          /\ todo'[u] = todo[u] /\ doomed'[u] = doomed[u]
      BY <2>2 DEF TypeOK, Return, Goto
    <3> QED BY <3>1 DEF TypeOK
  <2> QED BY <2>1, <2>2
<1> QED BY <1>1, <1>2

(* The end of the process leaves every request idle. *)
LEMMA DieType ==
  ASSUME TypeOK, Die
  PROVE  /\ tree' \in [Files -> (-LastRelease)..LastRelease \cup {Foreign}]
         /\ pc' \in [Threads -> {"idle", "download", "verify", "copy"}]
         /\ rel' \in [Threads -> Releases \cup {None}]
         /\ payload' \in [Threads -> Releases \cup {Foreign, None}]
         /\ todo' \in [Threads -> SUBSET Files] /\ doomed' \in [Threads -> SUBSET Files]
         /\ \A u \in Threads : pc'[u] = "idle" /\ rel'[u] = None /\ payload'[u] = None
                               /\ todo'[u] = {} /\ doomed'[u] = {}
         /\ settled' \in 0..LastRelease /\ patched' \in BOOLEAN /\ restarting' = FALSE
<1>1. tree' \in [Files -> (-LastRelease)..LastRelease \cup {Foreign}]
  <2>1. PICK S \in SUBSET Installing :
          tree' = [f \in Files |-> IF \E t \in S : f = NextOf(todo[t])
                                  THEN -rel[CHOOSE t \in S : f = NextOf(todo[t])] ELSE tree[f]]
    BY DEF Die
  <2>2. ASSUME NEW f \in Files, NEW t \in S, f = NextOf(todo[t])
        PROVE  -rel[CHOOSE u \in S : f = NextOf(todo[u])] \in (-LastRelease)..LastRelease
    <3> DEFINE u == CHOOSE v \in S : f = NextOf(todo[v])
    <3>1. u \in Installing
      BY <2>2
    <3>2. rel[u] \in Releases
      BY <3>1 DEF Installing, TypeOK
    <3> HIDE DEF u
    <3>3. -rel[u] \in (-LastRelease)..LastRelease
      BY <3>2, ReleasesAssumption DEF Releases
    <3> QED BY <3>3 DEF u
  <2> QED BY <2>1, <2>2 DEF TypeOK
<1>2. settled' \in 0..LastRelease /\ patched' \in BOOLEAN /\ restarting' = FALSE
  BY ReleasesAssumption DEF TypeOK, Die
<1> QED BY <1>1, <1>2 DEF Die

\* Every action keeps the types.
LEMMA TypeNext == TypeOK /\ [Next]_vars => TypeOK'
<1> SUFFICES ASSUME TypeOK, [Next]_vars PROVE TypeOK'
  OBVIOUS
<1> USE ReleasesAssumption
<1>1. CASE Publish
  BY <1>1 DEF Publish, TypeOK, server, locals, history, Releases
<1>2. CASE Crash
  <2>1. UNCHANGED <<appimage, latest, image, overlapped>> /\ running' = FALSE /\ version' = 0
    BY <1>2 DEF Crash, Die
  <2>2. Die
    BY <1>2 DEF Crash
  <2>3. restarting' = FALSE /\ \A u \in Threads : pc'[u] = "idle" /\ rel'[u] = None
          /\ payload'[u] = None /\ todo'[u] = {} /\ doomed'[u] = {}
    BY <2>2, DieType
  <2>4. version' \in 0..LastRelease
    BY <2>1
  <2> QED BY <2>1, <2>2, <2>3, <2>4, DieType DEF TypeOK
<1>3. CASE Start
  <2>1. VersionsOnDisk \subseteq 0..LastRelease \cup {Foreign}
    BY VersionType DEF TypeOK
  <2> QED BY <1>3, <2>1 DEF Start, TypeOK, locals, history
<1>4. CASE ScheduleRestart
  BY <1>4 DEF ScheduleRestart, TypeOK, locals, history
<1>5. CASE Restart
  <2>1. UNCHANGED <<appimage, latest, image, overlapped, running>>
    BY <1>5 DEF Restart, Die
  <2>2. tree' \in [Files -> (-LastRelease)..LastRelease \cup {Foreign}]
    BY <1>5, DieType DEF Restart
  <2>3. VersionsOnDisk' \subseteq 0..LastRelease \cup {Foreign}
    <3>1. VersionFile \in Files
      BY DEF Files, Releases
    <3>2. tree[VersionFile]' # Foreign => ReleaseOf(tree[VersionFile])' \in 0..LastRelease
      BY <2>2, <3>1 DEF ReleaseOf
    <3>3. appimage' = appimage /\ image' \in Releases \cup {Foreign}
      BY <2>1 DEF TypeOK
    <3> QED BY <3>2, <3>3 DEF VersionsOnDisk, Releases
  <2>4. version' \in 0..LastRelease \cup {Foreign}
    BY <1>5, <2>3 DEF Restart
  <2> QED BY <1>5, <2>1, <2>4, DieType DEF Restart, TypeOK
<1>6. ASSUME NEW t \in Threads, Request(t) PROVE TypeOK'
  <2>1. CASE Check(t)
    BY <2>1 DEF Check, TypeOK, Goto, server, Releases
  <2>2. CASE Download(t)
    BY <2>2 DEF Download, TypeOK, Goto, server, history
  <2>3. CASE DownloadFails(t) \/ Refuse(t) \/ SwapFails(t)
    <3>1. Return(t) /\ UNCHANGED <<appimage, latest, tree, image, server, history>>
      BY <2>3 DEF DownloadFails, Refuse, SwapFails
    <3> QED BY <3>1, ReturnType DEF TypeOK, server, history
  <2>4. CASE Begin(t)
    <3>1. pc[t] = "verify" /\ rel[t] \in Releases
      BY <2>4 DEF Begin, TypeOK
    <3>2. Contents[rel[t]] \subseteq Files
      BY <3>1 DEF Files
    <3>3. ASSUME NEW list \in InstalledLists PROVE Obsolete(t, list) \subseteq Files
      BY DEF Obsolete, InstalledLists, Files
    <3> QED BY <2>4, <3>1, <3>2, <3>3 DEF Begin, TypeOK, Goto, server, history
  <2>5. CASE Copy(t)
    <3>1. payload[t] \in (-LastRelease)..LastRelease \cup {Foreign}
      <4>1. payload[t] \in Releases \cup {Foreign}
        BY <2>5 DEF Copy, TypeOK
      <4> QED BY <4>1 DEF Releases
    <3> DEFINE f == NextOf(todo[t])
    <3>2. /\ tree' = [tree EXCEPT ![f] = payload[t]]
          /\ todo' = [todo EXCEPT ![t] = @ \ {f}]
      BY <2>5 DEF Copy, Copied
    <3> HIDE DEF f
    <3>3. tree' \in [Files -> (-LastRelease)..LastRelease \cup {Foreign}]
      BY <3>1, <3>2 DEF TypeOK
    <3>4. todo' \in [Threads -> SUBSET Files] /\ \A u \in Threads : todo'[u] \subseteq todo[u]
      BY <3>2 DEF TypeOK
    <3>5. UNCHANGED <<appimage, latest, image, server, pc, rel, payload, doomed, patched, overlapped>>
          /\ settled' = 0
      BY <2>5 DEF Copy
    <3> QED BY <3>3, <3>4, <3>5 DEF TypeOK, server
  <2>6. CASE Prune(t)
    <3> DEFINE f == NextOf(doomed[t])
    <3>1. /\ tree' = [tree EXCEPT ![f] = Absent]
          /\ doomed' = [doomed EXCEPT ![t] = @ \ {f}]
      BY <2>6 DEF Prune
    <3> HIDE DEF f
    <3>2. Absent \in (-LastRelease)..LastRelease
      BY DEF Absent
    <3>3. tree' \in [Files -> (-LastRelease)..LastRelease \cup {Foreign}]
      BY <3>1, <3>2 DEF TypeOK
    <3>4. doomed' \in [Threads -> SUBSET Files] /\ \A u \in Threads : doomed'[u] \subseteq doomed[u]
      BY <3>1 DEF TypeOK
    <3>5. UNCHANGED <<appimage, latest, image, server, pc, rel, payload, todo, patched, overlapped>>
          /\ settled' = 0
      BY <2>6 DEF Prune
    <3> QED BY <3>3, <3>4, <3>5 DEF TypeOK, server
  <2>7. CASE InstallFails(t)
    <3>1. /\ UNCHANGED <<appimage, latest, image, server>>
          /\ settled' = 0 /\ patched' = TRUE /\ overlapped' \in BOOLEAN
      BY <2>7 DEF InstallFails, TypeOK
    <3>2. rel[t] \in Releases
      BY <2>7 DEF InstallFails, TypeOK
    <3>3. -rel[t] \in (-LastRelease)..LastRelease
      BY <3>2 DEF Releases
    <3> DEFINE f == NextOf(todo[t])
    <3>4. tree' = [tree EXCEPT ![f] = -rel[t]] \/ tree' = tree
      BY <2>7 DEF InstallFails
    <3> HIDE DEF f
    <3>5. tree' \in [Files -> (-LastRelease)..LastRelease \cup {Foreign}]
      BY <3>3, <3>4 DEF TypeOK
    <3> QED BY <2>7, <3>1, <3>5, ReturnType DEF InstallFails, TypeOK, server
  <2>8. CASE Installed(t)
    <3>1. settled' \in 0..LastRelease
      BY <2>8 DEF Installed, TypeOK, Releases
    <3> QED BY <2>8, <3>1, ReturnType DEF Installed, TypeOK, server
  <2>9. CASE SwapImage(t)
    <3>1. image' \in Releases \cup {Foreign}
      BY <2>9 DEF SwapImage, Verified, TypeOK
    <3> QED BY <2>9, <3>1, ReturnType DEF SwapImage, TypeOK, server, history
  <2> QED BY <1>6, <2>1, <2>2, <2>3, <2>4, <2>5, <2>6, <2>7, <2>8, <2>9 DEF Request
<1>7. CASE UNCHANGED vars
  BY <1>7 DEF vars, TypeOK, server, locals, history
<1> QED BY <1>1, <1>2, <1>3, <1>4, <1>5, <1>6, <1>7 DEF Next

(* Every request always holds what its step needs, and none outlives its     *)
(* server.                                                                    *)
THEOREM TypeCorrect == Spec => []TypeOK
  BY TypeInit, TypeNext, PTL DEF Spec

-----------------------------------------------------------------------------
(* What is installed *)

\* A request copies only what it has verified.
Checked == \A t \in Threads : pc[t] = "copy" => payload[t] = rel[t]

VerifiedInv == OnlyVerified /\ Checked

\* Initially only signed bytes are installed.
LEMMA VerifiedInit == Init => VerifiedInv
<1> SUFFICES ASSUME Init PROVE VerifiedInv
  OBVIOUS
<1>1. image # Foreign /\ \A f \in Files : tree[f] # Foreign
  BY ReleasesAssumption DEF Init, Absent
<1> QED BY <1>1 DEF Init, VerifiedInv, OnlyVerified, Checked

(* The steps that leave the installation alone and let no request copy. *)
LEMMA VerifiedQuiet ==
  ASSUME VerifiedInv, UNCHANGED <<tree, image>>,
         \A t \in Threads : pc'[t] = "copy" =>
            pc[t] = "copy" /\ payload'[t] = payload[t] /\ rel'[t] = rel[t]
  PROVE  VerifiedInv'
  BY DEF VerifiedInv, OnlyVerified, Checked

\* A request that returns leaves the copies of the others alone.
LEMMA ReturnQuiet ==
  ASSUME TypeOK, NEW t \in Threads, Return(t)
  PROVE  \A u \in Threads : pc'[u] = "copy" =>
            /\ u # t /\ pc[u] = "copy" /\ payload'[u] = payload[u] /\ rel'[u] = rel[u]
            /\ todo'[u] = todo[u] /\ doomed'[u] = doomed[u]
  BY DEF TypeOK, Return, Goto

\* Every action installs signed bytes only.
LEMMA VerifiedNext == TypeOK /\ VerifiedInv /\ [Next]_vars => VerifiedInv'
<1> SUFFICES ASSUME TypeOK, VerifiedInv, [Next]_vars PROVE VerifiedInv'
  OBVIOUS
<1> USE ReleasesAssumption
<1>1. CASE Publish \/ Start \/ ScheduleRestart \/ UNCHANGED vars
  <2>1. UNCHANGED <<tree, image, pc, payload, rel>>
    BY <1>1 DEF Publish, Start, ScheduleRestart, vars, locals
  <2> QED BY <2>1, VerifiedQuiet
<1>2. CASE Crash \/ Restart
  <2>1. Die
    BY <1>2 DEF Crash, Restart
  <2>2. image' = image /\ \A f \in Files : tree'[f] \in Int \cup {tree[f]}
    <3>1. image' = image
      BY <2>1 DEF Die
    <3>2. PICK S \in SUBSET Installing :
            tree' = [f \in Files |-> IF \E t \in S : f = NextOf(todo[t])
                                    THEN -rel[CHOOSE t \in S : f = NextOf(todo[t])] ELSE tree[f]]
      BY <2>1 DEF Die
    <3>3. ASSUME NEW f \in Files PROVE tree'[f] \in Int \cup {tree[f]}
      <4>1. CASE \E t \in S : f = NextOf(todo[t])
        <5> DEFINE u == CHOOSE t \in S : f = NextOf(todo[t])
        <5>1. u \in Installing
          BY <4>1
        <5>2. rel[u] \in Releases
          BY <5>1 DEF Installing, TypeOK
        <5> HIDE DEF u
        <5>3. tree'[f] = -rel[u]
          BY <3>2, <4>1 DEF u
        <5> QED BY <5>2, <5>3 DEF Releases
      <4>2. CASE ~\E t \in S : f = NextOf(todo[t])
        BY <3>2, <4>2
      <4> QED BY <4>1, <4>2
    <3> QED BY <3>1, <3>3
  <2>3. \A t \in Threads : pc'[t] = "idle"
    BY <2>1 DEF Die
  <2> QED BY <2>2, <2>3 DEF VerifiedInv, OnlyVerified, Checked
<1>3. ASSUME NEW t \in Threads, Request(t) PROVE VerifiedInv'
  <2>1. CASE Check(t) \/ Download(t)
    <3>1. \A u \in Threads : pc'[u] = "copy" =>
            u # t /\ pc[u] = "copy" /\ payload'[u] = payload[u] /\ rel'[u] = rel[u]
      BY <2>1 DEF Check, Download, Goto, TypeOK
    <3> QED BY <2>1, <3>1, VerifiedQuiet DEF Check, Download
  <2>2. CASE DownloadFails(t) \/ Refuse(t) \/ SwapFails(t) \/ Installed(t)
    <3>1. Return(t) /\ UNCHANGED <<tree, image>>
      BY <2>2 DEF DownloadFails, Refuse, SwapFails, Installed
    <3> QED BY <3>1, ReturnQuiet, VerifiedQuiet
  <2>3. CASE Begin(t)
    BY <2>3 DEF Begin, Goto, Verified, TypeOK, VerifiedInv, OnlyVerified, Checked
  <2>4. CASE Copy(t)
    <3>1. payload[t] = rel[t] /\ rel[t] \in Releases \cup {None}
      BY <2>4 DEF Copy, VerifiedInv, Checked, TypeOK
    <3>2. payload[t] # Foreign
      BY <3>1 DEF Releases
    <3> DEFINE f == NextOf(todo[t])
    <3>3. tree' = [tree EXCEPT ![f] = payload[t]]
      BY <2>4 DEF Copy, Copied
    <3> HIDE DEF f
    <3>4. UNCHANGED <<image, pc, payload, rel>>
      BY <2>4 DEF Copy
    <3> QED BY <3>2, <3>3, <3>4 DEF VerifiedInv, OnlyVerified, Checked, TypeOK
  <2>5. CASE Prune(t)
    <3> DEFINE f == NextOf(doomed[t])
    <3>1. tree' = [tree EXCEPT ![f] = Absent] /\ UNCHANGED <<image, pc, payload, rel>>
      BY <2>5 DEF Prune
    <3> HIDE DEF f
    <3>2. Absent # Foreign
      BY DEF Absent
    <3> QED BY <3>1, <3>2 DEF VerifiedInv, OnlyVerified, Checked, TypeOK
  <2>6. CASE InstallFails(t)
    <3>1. Return(t) /\ image' = image
      BY <2>6 DEF InstallFails
    <3> DEFINE f == NextOf(todo[t])
    <3>2. tree' = [tree EXCEPT ![f] = -rel[t]] \/ tree' = tree
      BY <2>6 DEF InstallFails
    <3> HIDE DEF f
    <3>3. rel[t] \in Releases
      BY <2>6 DEF InstallFails, TypeOK
    <3>4. -rel[t] \in Int
      BY <3>3 DEF Releases
    <3>5. OnlyVerified'
      BY <3>1, <3>2, <3>4 DEF VerifiedInv, OnlyVerified, TypeOK
    <3>6. Checked'
      BY <3>1, ReturnQuiet DEF VerifiedInv, Checked
    <3> QED BY <3>5, <3>6 DEF VerifiedInv
  <2>7. CASE SwapImage(t)
    <3>1. Return(t) /\ tree' = tree /\ image' = rel[t] /\ pc[t] = "verify"
      BY <2>7 DEF SwapImage, Verified
    <3>2. image' # Foreign
      BY <3>1 DEF TypeOK, Releases
    <3> QED BY <3>1, <3>2, ReturnQuiet DEF VerifiedInv, OnlyVerified, Checked
  <2> QED BY <1>3, <2>1, <2>2, <2>3, <2>4, <2>5, <2>6, <2>7 DEF Request
<1> QED BY <1>1, <1>2, <1>3 DEF Next

\* Only signed bytes are installed or being copied.
LEMMA VerifiedInvariant == Spec => []VerifiedInv
  BY TypeCorrect, VerifiedInit, VerifiedNext, PTL DEF Spec

(* Nothing that the signed manifest does not list is ever installed, however *)
(* requests, failures and crashes interleave.                                *)
THEOREM OnlyVerifiedInstalled == Spec => []OnlyVerified
<1>1. VerifiedInv => OnlyVerified
  BY DEF VerifiedInv
<1> QED BY VerifiedInvariant, <1>1, PTL


-----------------------------------------------------------------------------
(* What an installation leaves *)

(* The library orders the naturals with an operator for an argument; the      *)
(* intervals 0..n, ordered by inclusion, give their minimum as well.          *)
LEMMA NatMinimum ==
  ASSUME NEW S, S \subseteq Nat, S # {}
  PROVE  \E f \in S : \A g \in S : f <= g
<1> DEFINE Below == {0..n : n \in S}
<1>1. Below \subseteq FiniteSubsetsOf(Nat) /\ Below # {}
  <2>1. ASSUME NEW n \in S PROVE 0..n \in FiniteSubsetsOf(Nat)
    <3>1. IsFiniteSet(0..n)
      BY FS_Interval
    <3>2. 0..n \subseteq Nat
      OBVIOUS
    <3> QED BY <3>1, <3>2 DEF FiniteSubsetsOf
  <2> QED BY <2>1
<1> HIDE DEF Below
<1>2. PICK X \in Below : \A Y \in Below : ~(<<Y, X>> \in StrictSubsetOrdering(Nat))
  BY <1>1, FS_StrictSubsetOrderingWellFounded, WFMin
<1>3. PICK f \in S : X = 0..f
  BY DEF Below
<1>4. ASSUME NEW g \in S, g < f PROVE FALSE
  <2>1. 0..g \in Below
    BY DEF Below
  <2>2. 0..g \subseteq 0..f /\ 0..g # 0..f
    BY <1>4
  <2>3. 0..g \subseteq Nat /\ 0..f \subseteq Nat
    OBVIOUS
  <2>4. <<0..g, 0..f>> \in StrictSubsetOrdering(Nat)
    BY <2>2, <2>3 DEF StrictSubsetOrdering
  <2> QED BY <1>2, <1>3, <2>1, <2>4
<1> QED BY <1>4

(* The next file is one of those that are left. *)
LEMMA NextOfIn ==
  ASSUME NEW S, S \subseteq Nat, S # {}
  PROVE  NextOf(S) \in S
  BY NatMinimum DEF NextOf

\* Files are numbers, in the order of the copy.
LEMMA FilesAreNumbers == Files \subseteq Nat /\ \A r \in Releases : Contents[r] \subseteq Files
  BY ReleasesAssumption DEF Files

SameRelease == \A t, u \in Threads : rel[t] # None /\ rel[u] # None => rel[t] = rel[u]
(* What a request has copied stays in place, what it will copy is of its      *)
(* release, and what it will prune is not.                                   *)
Progress(t) ==
    pc[t] = "copy" =>
        /\ \A f \in Contents[rel[t]] \ todo[t] : tree[f] = rel[t]
        /\ todo[t] \subseteq Contents[rel[t]]
        /\ doomed[t] \cap Contents[rel[t]] = {}
CompleteInv ==
    ~overlapped => /\ SameRelease
                   /\ \A t \in Threads : Progress(t)
                   /\ settled # 0 => \A f \in Contents[settled] : tree[f] = settled

\* Initially no installation is under way.
LEMMA CompleteInit == Init => CompleteInv
<1> SUFFICES ASSUME Init PROVE CompleteInv
  OBVIOUS
<1>1. 1 \in Releases
  BY ReleasesAssumption DEF Releases
<1>2. \A f \in Contents[1] : tree[f] = 1
  BY <1>1, FilesAreNumbers DEF Init
<1> QED BY <1>2 DEF Init, CompleteInv, SameRelease, Progress

(* A request that ends, and leaves the directory as it is, disturbs no other. *)
LEMMA CompleteReturn ==
  ASSUME TypeOK, CompleteInv, NEW t \in Threads, Return(t), UNCHANGED <<tree, settled, overlapped>>
  PROVE  CompleteInv'
<1> SUFFICES ASSUME ~overlapped PROVE CompleteInv'
  BY DEF CompleteInv
<1>1. SameRelease'
  BY ReturnType DEF TypeOK, CompleteInv, SameRelease
<1>2. ASSUME NEW u \in Threads PROVE Progress(u)'
  BY ReturnQuiet DEF CompleteInv, Progress
<1> QED BY <1>1, <1>2 DEF CompleteInv

\* Every action keeps what a copy has put in place.
LEMMA CompleteNext == TypeOK /\ VerifiedInv /\ CompleteInv /\ [Next]_vars => CompleteInv'
<1> SUFFICES ASSUME TypeOK, VerifiedInv, CompleteInv, [Next]_vars PROVE CompleteInv'
  OBVIOUS
<1>1. CASE Publish \/ Start \/ ScheduleRestart \/ UNCHANGED vars
  <2>1. UNCHANGED <<tree, locals, settled, overlapped>>
    BY <1>1 DEF Publish, Start, ScheduleRestart, vars, history
  <2> QED BY <2>1 DEF CompleteInv, SameRelease, Progress, locals
<1>2. CASE Crash \/ Restart
  <2>1. Die
    BY <1>2 DEF Crash, Restart
  <2>2. \A t \in Threads : pc'[t] = "idle" /\ rel'[t] = None
    BY <2>1, DieType
  <2>3. settled' # 0 => settled' = settled /\ tree' = tree
    BY <2>1 DEF Die, TypeOK
  <2>4. overlapped' = overlapped
    BY <2>1 DEF Die
  <2> QED BY <2>2, <2>3, <2>4 DEF CompleteInv, SameRelease, Progress
<1>3. ASSUME NEW t \in Threads, Request(t) PROVE CompleteInv'
  <2> SUFFICES ASSUME ~overlapped' PROVE CompleteInv'
    BY DEF CompleteInv
  <2>0. ~overlapped
    BY <1>3 DEF Request, Check, Download, DownloadFails, Refuse, Begin, Copy, Prune, InstallFails,
                Installed, SwapImage, SwapFails, history
  <2>1. CASE Check(t)
    <3>1. \A u \in Threads : rel[u] # None => rel[u] = latest
      BY <2>1 DEF Check
    <3>2. SameRelease'
      BY <2>1, <3>1 DEF Check, SameRelease, TypeOK
    <3>3. ASSUME NEW u \in Threads PROVE Progress(u)'
      BY <2>0, <2>1 DEF Check, Goto, TypeOK, CompleteInv, Progress
    <3> QED BY <2>0, <2>1, <3>2, <3>3 DEF Check, CompleteInv
  <2>2. CASE Download(t)
    <3>1. \A u \in Threads : pc'[u] = "copy" => pc[u] = "copy"
      BY <2>2 DEF Download, Goto, TypeOK
    <3> QED BY <2>0, <2>2, <3>1 DEF Download, history, CompleteInv, SameRelease, Progress
  <2>3. CASE DownloadFails(t) \/ Refuse(t) \/ SwapFails(t) \/ SwapImage(t)
    BY <2>3, CompleteReturn DEF DownloadFails, Refuse, SwapFails, SwapImage, history
  <2>4. CASE Begin(t)
    <3>1. PICK list : doomed' = [doomed EXCEPT ![t] = Obsolete(t, list)]
      BY <2>4 DEF Begin
    <3>2. Progress(t)'
      BY <2>4, <3>1 DEF Begin, Obsolete, TypeOK, Progress
    <3>3. ASSUME NEW u \in Threads, u # t PROVE Progress(u)'
      BY <2>0, <2>4, <3>1, <3>3 DEF Begin, Goto, TypeOK, CompleteInv, Progress
    <3> QED BY <2>0, <2>4, <3>2, <3>3 DEF Begin, history, CompleteInv, SameRelease
  <2>5. CASE Copy(t)
    <3> DEFINE f == NextOf(todo[t])
    <3>1. /\ tree' = [tree EXCEPT ![f] = payload[t]]
          /\ todo' = [todo EXCEPT ![t] = @ \ {f}]
          /\ UNCHANGED <<pc, rel, doomed>> /\ settled' = 0 /\ pc[t] = "copy"
      BY <2>5 DEF Copy, Copied
    <3> HIDE DEF f
    <3>2. payload[t] = rel[t] /\ rel[t] # None
      BY <3>1 DEF VerifiedInv, Checked, TypeOK
    <3>3. ASSUME NEW u \in Threads PROVE Progress(u)'
      <4> SUFFICES ASSUME pc[u] = "copy",
                          NEW g \in Contents[rel[u]], g \notin todo'[u]
                   PROVE  tree'[g] = rel[u]
        BY <2>0, <3>1 DEF CompleteInv, Progress
      <4>1. rel[u] = rel[t] /\ rel[u] \in Releases
        BY <2>0, <3>2 DEF CompleteInv, SameRelease, TypeOK
      <4>2. g \in Files
        BY <4>1, FilesAreNumbers
      <4>3. CASE g = f
        BY <3>1, <3>2, <4>1, <4>2, <4>3 DEF TypeOK
      <4>4. CASE g # f
        <5>1. g \notin todo[u]
          BY <3>1, <4>4 DEF TypeOK
        <5>2. tree[g] = rel[u]
          BY <2>0, <5>1 DEF CompleteInv, Progress
        <5> QED BY <3>1, <4>4, <5>2, <4>2 DEF TypeOK
      <4> QED BY <4>3, <4>4
    <3> QED BY <2>0, <3>1, <3>3 DEF CompleteInv, SameRelease
  <2>6. CASE Prune(t)
    <3>0. doomed[t] \subseteq Nat
      BY FilesAreNumbers DEF TypeOK
    <3> DEFINE f == NextOf(doomed[t])
    <3>1. f \in doomed[t]
      BY <2>6, <3>0, NextOfIn DEF Prune
    <3>2. /\ tree' = [tree EXCEPT ![f] = Absent]
          /\ doomed' = [doomed EXCEPT ![t] = @ \ {f}]
          /\ UNCHANGED <<pc, rel, todo>> /\ settled' = 0 /\ pc[t] = "copy"
      BY <2>6 DEF Prune
    <3> HIDE DEF f
    <3>3. ASSUME NEW u \in Threads PROVE Progress(u)'
      <4> SUFFICES ASSUME pc[u] = "copy" PROVE Progress(u)'
        BY <3>2 DEF Progress
      <4>1. rel[u] = rel[t]
        BY <2>0, <3>2 DEF CompleteInv, SameRelease, TypeOK
      <4>2. f \notin Contents[rel[u]]
        BY <2>0, <3>1, <3>2, <4>1 DEF CompleteInv, Progress
      <4>3. \A g \in Contents[rel[u]] : tree'[g] = tree[g]
        BY <3>2, <4>2 DEF TypeOK
      <4>4. doomed'[u] \subseteq doomed[u]
        BY <3>2 DEF TypeOK
      <4> QED BY <2>0, <3>2, <4>3, <4>4 DEF CompleteInv, Progress
    <3> QED BY <2>0, <3>2, <3>3 DEF CompleteInv, SameRelease
  <2>7. CASE InstallFails(t)
    <3>1. Return(t) /\ Installing = {t} /\ settled' = 0
      BY <2>7 DEF InstallFails
    <3>2. \A u \in Threads : pc'[u] # "copy"
      BY <3>1, ReturnQuiet DEF Installing
    <3>3. SameRelease'
      BY <2>0, <3>1, ReturnType DEF TypeOK, CompleteInv, SameRelease
    <3> QED BY <3>1, <3>2, <3>3 DEF CompleteInv, Progress
  <2>8. CASE Installed(t)
    <3>1. Return(t) /\ tree' = tree /\ pc[t] = "copy" /\ todo[t] = {}
          /\ settled' \in {rel[t], 0}
      BY <2>8 DEF Installed
    <3>2. settled' # 0 => \A f \in Contents[settled'] : tree'[f] = settled'
      BY <2>0, <3>1 DEF CompleteInv, Progress
    <3>3. SameRelease'
      BY <2>0, <3>1, ReturnType DEF TypeOK, CompleteInv, SameRelease
    <3>4. ASSUME NEW u \in Threads PROVE Progress(u)'
      BY <2>0, <3>1, ReturnQuiet DEF CompleteInv, Progress
    <3> QED BY <3>2, <3>3, <3>4 DEF CompleteInv
  <2> QED BY <1>3, <2>1, <2>2, <2>3, <2>4, <2>5, <2>6, <2>7, <2>8 DEF Request
<1> QED BY <1>1, <1>2, <1>3 DEF Next

\* What a copy has put in place stays there.
LEMMA CompleteInvariant == Spec => []CompleteInv
  BY TypeCorrect, VerifiedInvariant, CompleteInit, CompleteNext, PTL DEF Spec

(* An installation that ended left every file of its release in place, also  *)
(* after others that were cut off, crashed or ran beside it for the same      *)
(* release.                                                                   *)
THEOREM InstallsComplete == Spec => []InstalledComplete
<1>1. CompleteInv => InstalledComplete
  BY DEF CompleteInv, InstalledComplete
<1> QED BY CompleteInvariant, <1>1, PTL

-----------------------------------------------------------------------------
(* What an installation leaves behind *)

Exactly(r) == \A f \in Files : tree[f] = IF f \in Contents[r] THEN r ELSE Absent
\* The files in the directory that release r does not have.
Spare(r) == {f \in Files : tree[f] # Absent} \ Contents[r]
(* As long as nothing was cut off, the directory is one release between      *)
(* installations; during one, whatever is not of its release some request     *)
(* has still to prune.                                                       *)
WholeInv ==
    ~patched /\ ~overlapped =>
        /\ settled # 0 => Exactly(settled)
        /\ Installing = {} => \E r \in Releases : Exactly(r)
        /\ \A t \in Installing : Spare(rel[t]) \subseteq UNION {doomed[u] : u \in Installing}

\* Initially release 1 is installed.
LEMMA WholeInit == Init => WholeInv
<1> SUFFICES ASSUME Init PROVE WholeInv
  OBVIOUS
<1>1. 1 \in Releases /\ Exactly(1) /\ settled = 1
  BY ReleasesAssumption DEF Init, Releases, Exactly
<1>2. Installing = {}
  BY DEF Init, Installing
<1> QED BY <1>1, <1>2 DEF WholeInv

(* The steps that leave the directory as it is, and all that the installing  *)
(* requests have to do.                                                      *)
LEMMA WholeQuiet ==
  ASSUME WholeInv, UNCHANGED <<tree, settled>>, Installing' = Installing,
         ~patched' /\ ~overlapped' => ~patched /\ ~overlapped,
         \A t \in Installing : rel'[t] = rel[t] /\ doomed'[t] = doomed[t]
  PROVE  WholeInv'
<1> SUFFICES ASSUME ~patched', ~overlapped' PROVE WholeInv'
  BY DEF WholeInv
<1>1. ~patched /\ ~overlapped
  OBVIOUS
<1>2. (settled # 0 => Exactly(settled))'
  BY <1>1 DEF WholeInv, Exactly
<1>3. (Installing = {} => \E r \in Releases : Exactly(r))'
  BY <1>1 DEF WholeInv, Exactly
<1>4. ASSUME NEW t \in Installing PROVE Spare(rel[t])' \subseteq UNION {doomed'[u] : u \in Installing}
  <2>1. Spare(rel[t])' = Spare(rel[t])
    BY <1>4 DEF Spare
  <2> QED BY <1>1, <1>4, <2>1 DEF WholeInv
<1> QED BY <1>2, <1>3, <1>4 DEF WholeInv

\* Every action keeps the directory whole, or shows that something was cut off.
LEMMA WholeNext == TypeOK /\ VerifiedInv /\ CompleteInv /\ WholeInv /\ [Next]_vars => WholeInv'
<1> SUFFICES ASSUME TypeOK, VerifiedInv, CompleteInv, WholeInv, [Next]_vars PROVE WholeInv'
  OBVIOUS
<1>1. CASE Publish \/ Start \/ ScheduleRestart \/ UNCHANGED vars
  <2>1. UNCHANGED <<tree, locals, history>>
    BY <1>1 DEF Publish, Start, ScheduleRestart, vars
  <2> QED BY <2>1, WholeQuiet DEF history, locals, Installing
<1>2. CASE Crash \/ Restart
  <2>1. Die
    BY <1>2 DEF Crash, Restart
  <2> SUFFICES ASSUME ~patched', ~overlapped' PROVE WholeInv'
    BY DEF WholeInv
  <2>2. Installing = {} /\ ~patched /\ ~overlapped /\ settled' = settled
    BY <2>1 DEF Die
  <2>3. tree' = tree
    BY <2>1, <2>2 DEF Die, TypeOK
  <2>4. Installing' = {}
    BY <2>1, DieType DEF Installing
  <2> QED BY <2>2, <2>3, <2>4 DEF WholeInv, Exactly
<1>3. ASSUME NEW t \in Threads, Request(t) PROVE WholeInv'
  <2> SUFFICES ASSUME ~patched', ~overlapped' PROVE WholeInv'
    BY DEF WholeInv
  <2>0. ~patched /\ ~overlapped
    <3> USE <1>3
    <3>1. ~overlapped
      BY DEF Request, Check, Download, DownloadFails, Refuse, Begin, Copy, Prune, InstallFails,
                Installed, SwapImage, SwapFails, history
    <3>2. ~patched
      BY DEF Request, Check, Download, DownloadFails, Refuse, Begin, Copy, Prune, InstallFails,
                  Installed, SwapImage, SwapFails, history
    <3> QED BY <3>1, <3>2
  <2>1. CASE Check(t)
    BY <2>0, <2>1, WholeQuiet DEF Check, Goto, TypeOK, Installing
  <2>2. CASE Download(t)
    BY <2>0, <2>2, WholeQuiet DEF Download, Goto, TypeOK, Installing, history
  <2>3. CASE DownloadFails(t) \/ Refuse(t) \/ SwapFails(t) \/ SwapImage(t)
    <3>1. Return(t) /\ UNCHANGED <<tree, settled>> /\ pc[t] # "copy"
      BY <2>3 DEF DownloadFails, Refuse, SwapFails, SwapImage, history
    <3>2. Installing' = Installing
      BY <3>1 DEF Return, Goto, TypeOK, Installing
    <3> QED BY <2>0, <3>1, <3>2, ReturnQuiet, WholeQuiet DEF Installing
  <2>4. CASE Begin(t)
    <3>1. UNCHANGED <<tree, settled, rel>> /\ pc[t] = "verify" /\ rel[t] \in Releases
      BY <2>4 DEF Begin, history, TypeOK
    <3>2. Installing' = Installing \cup {t} /\ t \notin Installing
      BY <2>4 DEF Begin, Goto, TypeOK, Installing
    <3>3. PICK list \in InstalledLists : doomed' = [doomed EXCEPT ![t] = Obsolete(t, list)]
      BY <2>4 DEF Begin
    <3>4. \A u \in Installing : doomed'[u] = doomed[u]
      BY <3>2, <3>3 DEF TypeOK, Installing
    <3>5. ASSUME NEW u \in Installing'
          PROVE  Spare(rel[t]) \subseteq UNION {doomed'[w] : w \in Installing'}
      <4>1. CASE Installing = {}
        <5>1. PICK r \in Releases : Exactly(r)
          BY <2>0, <4>1 DEF WholeInv
        <5>2. ListFile \in Files /\ ListFile \in Contents[r]
          BY ReleasesAssumption, FilesAreNumbers
        <5>3. tree[ListFile] = r
          BY <5>1, <5>2 DEF Exactly
        <5>4. InstalledLists = {Contents[r]}
          <6>1. -r \notin Releases
            BY ReleasesAssumption DEF Releases
          <6> QED BY <5>3, <6>1 DEF InstalledLists
        <5>5. doomed'[t] = Contents[r] \ Contents[rel[t]]
          BY <3>3, <5>4 DEF Obsolete, TypeOK
        <5>6. Spare(rel[t]) \subseteq doomed'[t]
          BY <5>1, <5>5 DEF Exactly, Spare
        <5> QED BY <3>2, <5>6
      <4>2. CASE Installing # {}
        <5>1. PICK w \in Installing : TRUE
          BY <4>2
        <5>2. rel[w] = rel[t]
          BY <2>0, <3>1, <5>1 DEF CompleteInv, SameRelease, TypeOK, Installing, Releases
        <5>3. Spare(rel[t]) \subseteq UNION {doomed[v] : v \in Installing}
          BY <2>0, <5>2 DEF WholeInv
        <5> QED BY <3>2, <3>4, <5>3
      <4> QED BY <4>1, <4>2
    <3>6. ASSUME NEW u \in Installing' PROVE Spare(rel[u])' = Spare(rel[t])
      <4>1. rel[u] = rel[t]
        BY <2>0, <3>1, <3>2 DEF CompleteInv, SameRelease, TypeOK, Installing, Releases
      <4> QED BY <3>1, <4>1 DEF Spare
    <3>7. (settled # 0 => Exactly(settled))'
      BY <2>0, <3>1 DEF WholeInv, Exactly
    <3> QED BY <3>2, <3>5, <3>6, <3>7 DEF WholeInv
  <2>5. CASE Copy(t) \/ Prune(t)
    <3>1. UNCHANGED <<pc, rel>> /\ settled' = 0 /\ pc[t] = "copy" /\ rel[t] \in Releases
      BY <2>5 DEF Copy, Prune, TypeOK
    <3>2. Installing' = Installing /\ t \in Installing
      BY <3>1 DEF Installing
    <3>3. \A u \in Installing : rel[u] = rel[t]
      BY <2>0, <3>1 DEF CompleteInv, SameRelease, TypeOK, Installing, Releases
    <3>4. Spare(rel[t])' \subseteq UNION {doomed'[u] : u \in Installing}
      <4>0. Spare(rel[t]) \subseteq UNION {doomed[u] : u \in Installing}
        BY <2>0, <3>2 DEF WholeInv
      <4>1. CASE Copy(t)
        <5> DEFINE f == NextOf(todo[t])
        <5>1. f \in todo[t] /\ doomed' = doomed /\ tree' = [tree EXCEPT ![f] = payload[t]]
          BY <4>1, NextOfIn, FilesAreNumbers DEF Copy, Copied, TypeOK
        <5>2. f \in Contents[rel[t]]
          BY <2>0, <3>1, <5>1 DEF CompleteInv, Progress
        <5> HIDE DEF f
        <5> QED BY <3>1, <4>0, <5>1, <5>2 DEF Spare, TypeOK
      <4>2. CASE Prune(t)
        <5> DEFINE f == NextOf(doomed[t])
        <5>1. /\ tree' = [tree EXCEPT ![f] = Absent]
              /\ doomed' = [doomed EXCEPT ![t] = @ \ {f}]
          BY <4>2 DEF Prune
        <5> HIDE DEF f
        <5>2. \A u \in Installing : doomed[u] \ {f} \subseteq doomed'[u]
          BY <5>1 DEF TypeOK, Installing
        <5>3. Spare(rel[t])' \subseteq Spare(rel[t]) \ {f}
          BY <3>1, <5>1 DEF Spare, TypeOK
        <5> QED BY <4>0, <5>2, <5>3
      <4> QED BY <2>5, <4>1, <4>2
    <3>5. \A u \in Installing : Spare(rel[u])' = Spare(rel[t])'
      BY <3>1, <3>3 DEF Spare
    <3> QED BY <3>1, <3>2, <3>4, <3>5 DEF WholeInv
  <2>6. CASE InstallFails(t)
    BY <2>6 DEF InstallFails
  <2>7. CASE Installed(t)
    <3>1. /\ Return(t) /\ tree' = tree /\ pc[t] = "copy" /\ rel[t] \in Releases
          /\ todo[t] = {} /\ doomed[t] = {} /\ t \in Installing
      BY <2>7 DEF Installed, Installing, TypeOK
    <3>2. Installing' = Installing \ {t} /\ \A u \in Installing' : rel'[u] = rel[u] /\ doomed'[u] = doomed[u]
      BY <3>1, ReturnQuiet DEF Return, Goto, TypeOK, Installing
    <3>3. Spare(rel[t]) \subseteq UNION {doomed[u] : u \in Installing}
      BY <2>0, <3>1 DEF WholeInv
    <3>4. CASE Installing = {t}
      <4>1. Spare(rel[t]) = {}
        BY <3>1, <3>3, <3>4
      <4>2. \A f \in Contents[rel[t]] : tree[f] = rel[t]
        BY <2>0, <3>1 DEF CompleteInv, Progress
      <4>3. PICK r \in Releases : r = rel[t]
        BY <3>1
      <4>4. Exactly(r)'
        BY <3>1, <4>1, <4>2, <4>3 DEF Exactly, Spare
      <4>5. settled' = r /\ Installing' = {}
        BY <2>7, <3>2, <3>4, <4>3 DEF Installed
      <4> QED BY <3>1, <4>4, <4>5 DEF WholeInv, Exactly
    <3>5. CASE Installing # {t}
      <4>1. settled' = 0 /\ Installing' # {}
        BY <2>7, <3>1, <3>2, <3>5 DEF Installed
      <4>2. ASSUME NEW u \in Installing'
            PROVE  Spare(rel[u])' \subseteq UNION {doomed'[w] : w \in Installing'}
        <5>1. rel'[u] = rel[u] /\ rel[u] = rel[t]
          BY <2>0, <3>1, <3>2 DEF CompleteInv, SameRelease, TypeOK, Installing, Releases
        <5>2. Spare(rel[u])' = Spare(rel[t])
          BY <3>1, <5>1 DEF Spare
        <5> QED BY <3>1, <3>2, <3>3, <5>2
      <4> QED BY <4>1, <4>2 DEF WholeInv
    <3> QED BY <3>4, <3>5
  <2> QED BY <1>3, <2>1, <2>2, <2>3, <2>4, <2>5, <2>6, <2>7 DEF Request
<1> QED BY <1>1, <1>2, <1>3 DEF Next

(* An installation that ended, and that no other interfered with, leaves     *)
(* exactly the files of its release, whatever release was there before - if   *)
(* no installation was ever cut off.                                         *)
THEOREM InstallsExactly == Spec => []InstalledWhole
<1>1. WholeInv => InstalledWhole
  BY DEF WholeInv, InstalledWhole, Exactly
<1> QED BY TypeCorrect, VerifiedInvariant, CompleteInvariant, WholeInit, WholeNext, <1>1, PTL DEF Spec

-----------------------------------------------------------------------------
(* What pyproject.toml claims *)

Claimed == ReleaseOf(tree[VersionFile])
(* pyproject.toml claims a published release, never one later than the one   *)
(* that is being installed, and the files before it are at least as new.     *)
NoticedInv ==
    ~overlapped =>
        /\ Claimed \in 1..latest
        /\ \A t \in Threads : rel[t] # None => Claimed <= rel[t]
        /\ \A f \in Contents[Claimed] : f < VersionFile => ReleaseOf(tree[f]) >= Claimed

\* Initially release 1 is there.
LEMMA NoticedInit == Init => NoticedInv
<1> SUFFICES ASSUME Init PROVE NoticedInv
  OBVIOUS
<1>1. 1 \in Releases /\ VersionFile \in Files /\ VersionFile \in Contents[1]
  BY ReleasesAssumption, FilesAreNumbers DEF Releases
<1>2. \A f \in Contents[1] : tree[f] = 1
  BY <1>1, FilesAreNumbers DEF Init
<1>3. Claimed = 1
  BY <1>1, <1>2 DEF Claimed, ReleaseOf
<1>4. \A f \in Contents[1] : ReleaseOf(tree[f]) = 1
  BY <1>2 DEF ReleaseOf
<1> QED BY <1>3, <1>4 DEF Init, NoticedInv

\* What the end of the process does to the directory: some copies are cut off.
LEMMA DieCuts ==
  ASSUME TypeOK, Die, NEW f \in Files
  PROVE  \/ tree'[f] = tree[f]
         \/ \E t \in Installing : todo[t] # {} /\ f = NextOf(todo[t]) /\ tree'[f] = -rel[t]
<1>1. PICK S \in SUBSET {t \in Installing : todo[t] # {}} :
        tree' = [g \in Files |-> IF \E t \in S : g = NextOf(todo[t])
                                THEN -rel[CHOOSE t \in S : g = NextOf(todo[t])] ELSE tree[g]]
  BY DEF Die
<1>2. CASE \E t \in S : f = NextOf(todo[t])
  <2> DEFINE u == CHOOSE t \in S : f = NextOf(todo[t])
  <2>1. u \in S /\ f = NextOf(todo[u])
    BY <1>2
  <2>2. tree'[f] = -rel[u]
    BY <1>1, <1>2
  <2> HIDE DEF u
  <2> QED BY <2>1, <2>2
<1>3. CASE ~\E t \in S : f = NextOf(todo[t])
  BY <1>1, <1>3
<1> QED BY <1>2, <1>3

(* A step that writes nothing but release r, whole or in part, to files that  *)
(* are next to be copied, and removes only what r does not have.             *)
LEMMA NoticedWrites ==
  ASSUME TypeOK, TypeOK', NoticedInv, ~overlapped, NEW r \in Releases, Claimed <= r,
         r <= latest', latest <= latest',
         \A t \in Threads : rel'[t] # None => rel'[t] = r,
         \A f \in Files :
            \/ tree'[f] = tree[f]
            \/ /\ tree'[f] \in {r, -r}
               /\ \A g \in Contents[r] : g < f => ReleaseOf(tree[g]) = r
            \/ /\ f \notin Contents[r] /\ ReleaseOf(tree[VersionFile]) = r
  PROVE  NoticedInv'
<1>1. VersionFile \in Files /\ VersionFile \in Contents[r] /\ Contents[r] \subseteq Files /\ r \in Nat
  BY ReleasesAssumption, FilesAreNumbers DEF Releases
<1>2. Claimed \in Releases /\ Claimed \in 1..latest /\ Contents[Claimed] \subseteq Files
  <2>1. Claimed \in 1..latest
    BY DEF NoticedInv
  <2>2. Claimed \in Releases
    BY <2>1, ReleasesAssumption DEF TypeOK, Releases
  <2> QED BY <2>1, <2>2, FilesAreNumbers
<1>3. ASSUME NEW f \in Files, tree'[f] \in {r, -r} PROVE ReleaseOf(tree[f])' = r
  BY <1>1, <1>3 DEF ReleaseOf, Releases
<1>4. ASSUME NEW f \in Files, tree'[f] = tree[f] PROVE ReleaseOf(tree[f])' = ReleaseOf(tree[f])
  BY <1>4 DEF ReleaseOf
<1>5. Claimed' \in {Claimed, r}
  BY <1>1, <1>3, <1>4 DEF Claimed
<1>6. Claimed' \in 1..latest'
  BY <1>1, <1>2, <1>5 DEF TypeOK, Releases
<1>7. ASSUME NEW f \in Contents[Claimed'], f < VersionFile
      PROVE  ReleaseOf(tree[f])' >= Claimed'
  <2>1. f \in Files
    BY <1>1, <1>2, <1>5
  <2>2. CASE Claimed' = r /\ Claimed # r
    <3>1. \A g \in Contents[r] : g < VersionFile => ReleaseOf(tree[g]) = r
      BY <1>1, <1>4, <2>2 DEF Claimed
    <3>2. ReleaseOf(tree[f]) = r
      BY <1>7, <2>2, <3>1
    <3>3. ReleaseOf(tree[f])' = r
      BY <1>3, <1>4, <1>7, <2>1, <2>2, <3>2 DEF Claimed
    <3> QED BY <1>1, <2>2, <3>3
  <2>3. CASE Claimed' = Claimed
    <3>1. ReleaseOf(tree[f]) >= Claimed
      BY <1>7, <2>3 DEF NoticedInv
    <3>2. CASE tree'[f] = tree[f]
      BY <1>4, <2>1, <2>3, <3>1, <3>2
    <3>3. CASE tree'[f] \in {r, -r}
      BY <1>1, <1>2, <1>3, <2>1, <2>3, <3>3
    <3>4. CASE f \notin Contents[r] /\ ReleaseOf(tree[VersionFile]) = r
      BY <1>7, <2>3, <3>4 DEF Claimed
    <3> QED BY <2>1, <3>2, <3>3, <3>4
  <2> QED BY <1>5, <2>2, <2>3
<1>8. \A t \in Threads : rel'[t] # None => Claimed' <= rel'[t]
  BY <1>1, <1>2, <1>5
<1> QED BY <1>6, <1>7, <1>8 DEF NoticedInv

\* A request that only changes its own state, and asks for nothing new.
LEMMA NoticedQuiet ==
  ASSUME TypeOK, TypeOK', NoticedInv, tree' = tree, latest' >= latest, ~overlapped' => ~overlapped,
         \A t \in Threads : rel'[t] \in {rel[t], None}
  PROVE  NoticedInv'
<1> SUFFICES ASSUME ~overlapped' PROVE NoticedInv'
  BY DEF NoticedInv
<1>1. Claimed' = Claimed /\ Claimed \in 1..latest
  BY DEF Claimed, NoticedInv, ReleaseOf
<1>2. Claimed' \in 1..latest'
  BY <1>1 DEF TypeOK, Releases
<1>3. \A t \in Threads : rel'[t] # None => Claimed' <= rel'[t]
  BY <1>1 DEF NoticedInv
<1>4. \A f \in Contents[Claimed] : f < VersionFile => ReleaseOf(tree[f])' >= Claimed
  BY DEF NoticedInv, ReleaseOf
<1> QED BY <1>1, <1>2, <1>3, <1>4 DEF NoticedInv

(* When a request comes to a file, what its release has before it is there.  *)
LEMMA CopiedBefore ==
  ASSUME TypeOK, CompleteInv, ~overlapped, NEW t \in Installing, todo[t] # {},
         NEW g \in Contents[rel[t]], g < NextOf(todo[t])
  PROVE  tree[g] = rel[t]
<1>1. todo[t] \subseteq Nat /\ pc[t] = "copy" /\ t \in Threads
  BY FilesAreNumbers DEF Installing, TypeOK
<1>2. \A h \in todo[t] : NextOf(todo[t]) <= h
  BY <1>1, NatMinimum DEF NextOf
<1>3. NextOf(todo[t]) \in Nat /\ g \in Nat
  BY <1>1, NextOfIn, ReleasesAssumption DEF TypeOK
<1>4. g \notin todo[t]
  BY <1>2, <1>3
<1> QED BY <1>1, <1>4 DEF CompleteInv, Progress

\* Every action keeps what pyproject.toml claims.
LEMMA NoticedNext ==
  TypeOK /\ TypeOK' /\ VerifiedInv /\ CompleteInv /\ NoticedInv /\ [Next]_vars => NoticedInv'
<1> SUFFICES ASSUME TypeOK, TypeOK', VerifiedInv, CompleteInv, NoticedInv, [Next]_vars PROVE NoticedInv'
  OBVIOUS
<1>0. \A r \in Releases : r \in Nat /\ r > 0 /\ ReleaseOf(r) = r /\ ReleaseOf(-r) = r
  BY DEF Releases, ReleaseOf
<1>1. CASE Publish \/ Start \/ ScheduleRestart \/ UNCHANGED vars
  <2>1. UNCHANGED <<tree, rel, overlapped>> /\ latest' >= latest
    BY <1>1 DEF Publish, Start, ScheduleRestart, vars, locals, history, TypeOK, Releases
  <2> QED BY <2>1, NoticedQuiet
<1>2. CASE Crash \/ Restart
  <2>1. Die
    BY <1>2 DEF Crash, Restart
  <2>2. latest' = latest /\ overlapped' = overlapped /\ \A t \in Threads : rel'[t] = None
    BY <2>1 DEF Die
  <2>3. CASE Installing = {}
    <3>1. tree' = tree
      BY <2>1, <2>3 DEF Die, TypeOK
    <3> QED BY <2>2, <3>1, NoticedQuiet DEF TypeOK, Releases
  <2>4. CASE Installing # {}
    <3> SUFFICES ASSUME ~overlapped PROVE NoticedInv'
      BY <2>2 DEF NoticedInv
    <3>1. PICK t \in Installing : TRUE
      BY <2>4
    <3>2. rel[t] \in Releases /\ rel[t] # None /\ rel[t] <= latest /\ t \in Threads
      BY <3>1, ReleasesAssumption DEF Installing, TypeOK, Releases
    <3>3. \A u \in Installing : rel[u] = rel[t]
      BY <3>2, ReleasesAssumption DEF CompleteInv, SameRelease, Installing, TypeOK, Releases
    <3>4. ASSUME NEW f \in Files
          PROVE  \/ tree'[f] = tree[f]
                 \/ /\ tree'[f] \in {rel[t], -rel[t]}
                    /\ \A g \in Contents[rel[t]] : g < f => ReleaseOf(tree[g]) = rel[t]
      <4>1. CASE tree'[f] = tree[f]
        BY <4>1
      <4>2. ASSUME NEW u \in Installing, todo[u] # {}, f = NextOf(todo[u]), tree'[f] = -rel[u]
            PROVE  /\ tree'[f] \in {rel[t], -rel[t]}
                   /\ \A g \in Contents[rel[t]] : g < f => ReleaseOf(tree[g]) = rel[t]
        BY <1>0, <3>2, <3>3, <4>2, CopiedBefore
      <4> QED BY <2>1, <4>1, <4>2, DieCuts
    <3>5. Claimed <= rel[t]
      BY <3>2 DEF NoticedInv
    <3>6. latest \in Nat /\ latest <= latest'
      BY <2>2 DEF TypeOK, Releases
    <3>7. ~overlapped'
      BY <2>2
    <3> QED BY <2>2, <3>2, <3>4, <3>5, <3>6, NoticedWrites
  <2> QED BY <2>3, <2>4
<1>3. ASSUME NEW t \in Threads, Request(t) PROVE NoticedInv'
  <2> SUFFICES ASSUME ~overlapped' PROVE NoticedInv'
    BY DEF NoticedInv
  <2>0. ~overlapped
    BY <1>3 DEF Request, Check, Download, DownloadFails, Refuse, Begin, Copy, Prune, InstallFails,
                Installed, SwapImage, SwapFails, history
  <2>a. latest \in Nat /\ (pc[t] = "copy" => rel[t] \in Releases /\ rel[t] # None /\ rel[t] <= latest)
    BY ReleasesAssumption DEF TypeOK, Releases
  <2>b. pc[t] = "copy" => \A u \in Threads : rel[u] # None => rel[u] = rel[t]
    BY <2>0, <2>a DEF CompleteInv, SameRelease
  <2>1. CASE Check(t)
    <3>1. UNCHANGED <<tree, latest>> /\ \A u \in Threads : rel'[u] \in {rel[u], latest}
      BY <2>1 DEF Check, TypeOK
    <3>2. Claimed' = Claimed /\ Claimed \in 1..latest
      BY <2>0, <3>1 DEF Claimed, NoticedInv, ReleaseOf
    <3>3. \A u \in Threads : rel'[u] # None => Claimed <= rel'[u]
      BY <2>0, <2>a, <3>1, <3>2 DEF NoticedInv
    <3>4. \A f \in Contents[Claimed] : f < VersionFile => ReleaseOf(tree[f])' >= Claimed
      BY <2>0, <3>1 DEF NoticedInv, ReleaseOf
    <3> QED BY <3>1, <3>2, <3>3, <3>4 DEF NoticedInv
  <2>2. CASE Download(t) \/ Begin(t)
    <3>1. UNCHANGED <<tree, rel, latest, overlapped>>
      BY <2>2 DEF Download, Begin, history
    <3> QED BY <2>a, <3>1, NoticedQuiet
  <2>3. CASE DownloadFails(t) \/ Refuse(t) \/ SwapFails(t) \/ SwapImage(t) \/ Installed(t)
    <3>1. Return(t) /\ UNCHANGED <<tree, latest, overlapped>>
      BY <2>3 DEF DownloadFails, Refuse, SwapFails, SwapImage, Installed, history
    <3>2. \A u \in Threads : rel'[u] \in {rel[u], None}
      BY <3>1 DEF Return, TypeOK
    <3> QED BY <2>a, <3>1, <3>2, NoticedQuiet
  <2>4. CASE Copy(t)
    <3>1. t \in Installing /\ todo[t] # {} /\ UNCHANGED <<latest, rel, overlapped>> /\ pc[t] = "copy"
      BY <2>4 DEF Copy, Installing
    <3>2. payload[t] = rel[t]
      BY <3>1 DEF VerifiedInv, Checked
    <3>3. ASSUME NEW f \in Files
          PROVE  \/ tree'[f] = tree[f]
                 \/ /\ tree'[f] \in {rel[t], -rel[t]}
                    /\ \A g \in Contents[rel[t]] : g < f => ReleaseOf(tree[g]) = rel[t]
      <4>1. CASE f # NextOf(todo[t])
        BY <2>4, <4>1 DEF Copy, TypeOK
      <4>2. CASE f = NextOf(todo[t])
        <5>1. tree'[f] = rel[t]
          BY <2>4, <3>2, <4>2 DEF Copy, Copied, TypeOK
        <5>2. \A g \in Contents[rel[t]] : g < f => ReleaseOf(tree[g]) = rel[t]
          BY <1>0, <2>0, <2>a, <3>1, <4>2, CopiedBefore
        <5> QED BY <5>1, <5>2
      <4> QED BY <4>1, <4>2
    <3>4. Claimed <= rel[t]
      BY <2>0, <2>a, <3>1 DEF NoticedInv
    <3> QED BY <2>0, <2>a, <2>b, <3>1, <3>3, <3>4, NoticedWrites
  <2>5. CASE Prune(t)
    <3>1. pc[t] = "copy" /\ todo[t] = {} /\ UNCHANGED <<latest, rel, overlapped>>
      BY <2>5 DEF Prune
    <3>2. NextOf(doomed[t]) \in doomed[t]
      BY <2>5, NextOfIn, FilesAreNumbers DEF Prune, TypeOK
    <3>3. NextOf(doomed[t]) \notin Contents[rel[t]]
      BY <2>0, <3>1, <3>2 DEF CompleteInv, Progress
    <3>4. ReleaseOf(tree[VersionFile]) = rel[t]
      BY <1>0, <2>0, <2>a, <3>1, ReleasesAssumption DEF CompleteInv, Progress
    <3>5. \A f \in Files : tree'[f] = tree[f] \/ f \notin Contents[rel[t]]
      BY <2>5, <3>3 DEF Prune, TypeOK
    <3>6. Claimed <= rel[t]
      BY <2>0, <2>a, <3>1 DEF NoticedInv
    <3> QED BY <2>0, <2>a, <2>b, <3>1, <3>4, <3>5, <3>6, NoticedWrites
  <2>6. CASE InstallFails(t)
    <3>1. Return(t) /\ t \in Installing /\ UNCHANGED latest /\ pc[t] = "copy"
      BY <2>6 DEF InstallFails, Installing
    <3>2. \A u \in Threads : rel'[u] # None => rel'[u] = rel[t]
      BY <2>b, <3>1 DEF Return, TypeOK
    <3>3. ASSUME NEW f \in Files
          PROVE  \/ tree'[f] = tree[f]
                 \/ /\ tree'[f] \in {rel[t], -rel[t]}
                    /\ \A g \in Contents[rel[t]] : g < f => ReleaseOf(tree[g]) = rel[t]
      <4>1. CASE tree'[f] = tree[f]
        BY <4>1
      <4>2. CASE tree'[f] # tree[f]
        <5>1. todo[t] # {} /\ f = NextOf(todo[t]) /\ tree'[f] = -rel[t]
          BY <2>6, <4>2 DEF InstallFails, TypeOK
        <5>2. \A g \in Contents[rel[t]] : g < f => ReleaseOf(tree[g]) = rel[t]
          BY <1>0, <2>0, <2>a, <3>1, <5>1, CopiedBefore
        <5> QED BY <5>1, <5>2
      <4> QED BY <4>1, <4>2
    <3>4. Claimed <= rel[t]
      BY <2>0, <2>a, <3>1 DEF NoticedInv
    <3> QED BY <2>0, <2>a, <3>1, <3>2, <3>3, <3>4, NoticedWrites
  <2> QED BY <1>3, <2>1, <2>2, <2>3, <2>4, <2>5, <2>6 DEF Request
<1> QED BY <1>1, <1>2, <1>3 DEF Next

(* However installations are cut off, fail or crash: where pyproject.toml, or *)
(* a part of it, claims a release, nothing copied before it is older, so a    *)
(* half installation keeps the old version and is offered again.             *)
THEOREM HalfInstallsNoticed == Spec => []HalfInstallNoticed
<1>1. NoticedInv => HalfInstallNoticed
  BY DEF NoticedInv, HalfInstallNoticed, Claimed
<1> QED BY TypeCorrect, VerifiedInvariant, CompleteInvariant, NoticedInit, NoticedNext, <1>1, PTL DEF Spec

=============================================================================
