---------------------------- MODULE AccessProofs ----------------------------
(***************************************************************************)
(* The limiter's promises for every limit, window, lockout and number of   *)
(* handler threads. For any number of launchers and ports, the nonce's,    *)
(* why a window may be refused and why two servers may run.                *)
(***************************************************************************)
EXTENDS RateLimit, Desktop, FiniteSetTheorems, TLAPS

\* Stamps lie in the past, every admitted exchange still in the window is
\* remembered, and the memory holds no more than the limit.
AttemptsRemembered ==
    /\ \A t \in attempts \union failures \union admitted : t.at <= clock
    /\ guard = "session" => \A a \in admitted : a.at > clock - AttemptWindow => a \in attempts
    /\ guard # "session" => admitted = {}
    /\ Cardinality(attempts) <= AttemptLimit

FailuresDated == lastFailure <= clock /\ \A f \in failures : f.at <= lastFailure

\* The middleware leaves nobody between the check and the record.
ApiAtOnce == guard = "api" => inRoute = {}

LimitIInv == /\ LimitTypeOK /\ ApiAtOnce /\ AttemptsRemembered /\ FailuresDated
             /\ AttemptsBounded /\ LockoutEnds /\ OvershootBounded

-----------------------------------------------------------------------------
\* Pruning keeps a subset, finite and no larger.
LEMMA RecentSubset ==
    ASSUME NEW S, IsFiniteSet(S), NEW w
    PROVE  /\ Recent(S, w) \subseteq S /\ IsFiniteSet(Recent(S, w))
           /\ Cardinality(Recent(S, w)) \in Nat /\ Cardinality(S) \in Nat
           /\ Cardinality(Recent(S, w)) <= Cardinality(S)
<1>1. Recent(S, w) \subseteq S
  BY DEF Recent
<1> QED
  BY <1>1, FS_Subset, FS_CardinalityType

\* One more stamp makes a window at most one larger.
LEMMA OneMore ==
    ASSUME NEW S, IsFiniteSet(S), NEW x
    PROVE  /\ IsFiniteSet(S \union {x})
           /\ Cardinality(S \union {x}) \in Nat
           /\ Cardinality(S \union {x}) <= Cardinality(S) + 1
<1>0. Cardinality(S) \in Nat
  BY FS_CardinalityType
<1>1. /\ IsFiniteSet(S \union {x})
      /\ Cardinality(S \union {x}) = IF x \in S THEN Cardinality(S) ELSE Cardinality(S) + 1
  BY FS_AddElement
<1> QED
  BY <1>0, <1>1

\* A thread that leaves the route makes room for one.
LEMMA OneLess ==
    ASSUME NEW S, IsFiniteSet(S), NEW x \in S
    PROVE  /\ Cardinality(S) \in Nat
           /\ Cardinality(S \ {x}) = Cardinality(S) - 1
BY FS_RemoveElement, FS_CardinalityType

-----------------------------------------------------------------------------
USE LimitsAssumption

\* Types are preserved by every operation of the limiter.
LEMMA LimitTypeStep == LimitTypeOK /\ [LimitNext]_limitVars => LimitTypeOK'
<1> SUFFICES ASSUME LimitTypeOK, [LimitNext]_limitVars PROVE LimitTypeOK'
  OBVIOUS
<1> USE DEF LimitTypeOK
<1>a. \A w : /\ Recent(attempts, w) \subseteq attempts /\ IsFiniteSet(Recent(attempts, w))
             /\ Recent(failures, w) \subseteq failures /\ IsFiniteSet(Recent(failures, w))
  BY RecentSubset
<1>n. Now \in Stamp
  BY DEF Now, Stamp
<1>1. CASE Tick
  BY <1>1 DEF Tick
<1>2. CASE RefuseAttempt
  BY <1>2, <1>a DEF RefuseAttempt, PruneAttempts
<1>3. CASE RefuseFailures
  BY <1>3, <1>a DEF RefuseFailures, PruneAttempts, RecentFailures
<1>4. CASE ApiAccepted
  BY <1>4, <1>a DEF ApiAccepted, RecentFailures
<1>r. ASSUME RecordFailure(RecentFailures)
      PROVE  /\ failures' \in SUBSET Stamp /\ IsFiniteSet(failures')
             /\ lockUntil' \in Nat /\ stamps' \in Nat /\ lastFailure' \in Nat
  <2>1. failures' = RecentFailures \union {Now}
    BY <1>r DEF RecordFailure
  <2>2. RecentFailures \subseteq failures /\ IsFiniteSet(RecentFailures)
    BY <1>a DEF RecentFailures
  <2>3. IsFiniteSet(failures') /\ failures' \in SUBSET Stamp
    BY <1>n, <2>1, <2>2, OneMore
  <2>4. guard \in Guards /\ Lockout[guard] \in Nat
    OBVIOUS
  <2> QED
    BY <1>r, <2>3, <2>4 DEF RecordFailure
<1>5. CASE ApiRefused
  BY <1>5, <1>r DEF ApiRefused
<1>6. ASSUME NEW x \in Exchanges, Admit(x) PROVE LimitTypeOK'
  <2>1. IsFiniteSet(attempts')
    BY <1>6, <1>a, OneMore DEF Admit
  <2>2. IsFiniteSet(admitted')
    BY <1>6, OneMore DEF Admit
  <2> QED
    BY <1>6, <1>a, <1>n, <2>1, <2>2 DEF Admit, RecentFailures
<1>7. ASSUME NEW x \in Exchanges, ExchangeFails(x) PROVE LimitTypeOK'
  BY <1>7, <1>r DEF ExchangeFails
<1>8. ASSUME NEW x \in Exchanges, ExchangeSucceeds(x) PROVE LimitTypeOK'
  BY <1>8, FS_EmptySet DEF ExchangeSucceeds
<1>9. CASE UNCHANGED limitVars
  BY <1>9 DEF limitVars
<1> QED
  BY <1>1, <1>2, <1>3, <1>4, <1>5, <1>6, <1>7, <1>8, <1>9 DEF LimitNext

\* The attempt window is exact: nothing admitted inside it is forgotten, and
\* it never exceeds the limit.
LEMMA AttemptsStep ==
    LimitTypeOK /\ AttemptsRemembered /\ [LimitNext]_limitVars => AttemptsRemembered'
<1> SUFFICES ASSUME LimitTypeOK, AttemptsRemembered, [LimitNext]_limitVars
             PROVE  AttemptsRemembered'
  OBVIOUS
<1> USE DEF LimitTypeOK, AttemptsRemembered, Stamp
<1>a. /\ IsFiniteSet(Recent(attempts, AttemptWindow))
      /\ Cardinality(Recent(attempts, AttemptWindow)) \in Nat
      /\ Cardinality(Recent(attempts, AttemptWindow)) <= Cardinality(attempts)
      /\ Cardinality(attempts) \in Nat
  BY RecentSubset
<1>b. /\ Recent(attempts, AttemptWindow) = {t \in attempts : t.at > clock - AttemptWindow}
      /\ RecentFailures \subseteq failures
  BY DEF Recent, RecentFailures
<1>1. CASE Tick
  BY <1>1 DEF Tick
<1>p. ASSUME PruneAttempts, clock' = clock, admitted' = admitted, guard' = guard,
             failures' \subseteq failures
      PROVE  AttemptsRemembered'
  <2>1. CASE guard = "session"
    BY <2>1, <1>p, <1>a, <1>b DEF PruneAttempts
  <2>2. CASE guard # "session"
    BY <2>2, <1>p DEF PruneAttempts
  <2> QED
    BY <2>1, <2>2
<1>2. CASE RefuseAttempt
  BY <1>2, <1>p DEF RefuseAttempt
<1>3. CASE RefuseFailures
  BY <1>3, <1>p, <1>b DEF RefuseFailures
<1>4. CASE ApiAccepted
  BY <1>4, <1>b DEF ApiAccepted
<1>r. ASSUME RecordFailure(RecentFailures), UNCHANGED <<guard, clock, attempts, admitted>>
      PROVE  AttemptsRemembered'
  BY <1>r, <1>b DEF RecordFailure, Now
<1>5. CASE ApiRefused
  BY <1>5, <1>r DEF ApiRefused
<1>6. ASSUME NEW x \in Exchanges, Admit(x) PROVE AttemptsRemembered'
  <2>1. Cardinality(Recent(attempts, AttemptWindow)) < AttemptLimit
    BY <1>6, <1>a DEF Admit, AttemptsSpent
  <2>2. Cardinality(attempts') <= AttemptLimit
    <3>1. attempts' = Recent(attempts, AttemptWindow) \union {Now}
      BY <1>6 DEF Admit
    <3>2. /\ Cardinality(attempts') \in Nat
          /\ Cardinality(attempts') <= Cardinality(Recent(attempts, AttemptWindow)) + 1
      BY <1>a, <3>1, OneMore
    <3> QED
      BY <1>a, <2>1, <3>2
  <2>3. /\ attempts' = Recent(attempts, AttemptWindow) \union {Now}
        /\ admitted' = admitted \union {Now} /\ failures' \subseteq failures
        /\ Now.at = clock /\ clock' = clock /\ guard' = guard /\ guard = "session"
    BY <1>6, <1>b DEF Admit, Now
  <2> QED
    BY <1>b, <2>2, <2>3
<1>7. ASSUME NEW x \in Exchanges, ExchangeFails(x) PROVE AttemptsRemembered'
  BY <1>7, <1>r DEF ExchangeFails
<1>8. ASSUME NEW x \in Exchanges, ExchangeSucceeds(x) PROVE AttemptsRemembered'
  BY <1>8 DEF ExchangeSucceeds
<1>9. CASE UNCHANGED limitVars
  BY <1>9 DEF limitVars
<1> QED
  BY <1>1, <1>2, <1>3, <1>4, <1>5, <1>6, <1>7, <1>8, <1>9 DEF LimitNext

\* Only an admission adds to a window, and the window it closes is inside the
\* remembered attempts.
LEMMA BoundStep ==
    /\ LimitTypeOK /\ LimitTypeOK' /\ AttemptsRemembered /\ AttemptsRemembered'
    /\ AttemptsBounded /\ [LimitNext]_limitVars
    => AttemptsBounded'
<1> SUFFICES ASSUME LimitTypeOK, LimitTypeOK', AttemptsRemembered, AttemptsRemembered',
                    AttemptsBounded, [LimitNext]_limitVars
             PROVE  AttemptsBounded'
  OBVIOUS
<1>1. ASSUME admitted' = admitted PROVE AttemptsBounded'
  BY <1>1 DEF AttemptsBounded
<1>2. ASSUME NEW x \in Exchanges, Admit(x) PROVE AttemptsBounded'
  <2> SUFFICES ASSUME NEW last \in admitted'
               PROVE  Cardinality({a \in admitted' : /\ last.at - AttemptWindow < a.at
                                                     /\ a.at <= last.at}) <= AttemptLimit
    BY DEF AttemptsBounded
  <2> DEFINE W == {a \in admitted' : last.at - AttemptWindow < a.at /\ a.at <= last.at}
  <2>1. /\ guard' = "session" /\ clock' = clock /\ clock \in Nat
        /\ admitted' = admitted \union {Now} /\ Now.at = clock
        /\ last.at \in Nat /\ last.at <= clock
    BY <1>2 DEF Admit, Now, LimitTypeOK, AttemptsRemembered, Stamp
  <2>2. CASE last.at = clock
    <3>1. W \subseteq attempts'
      BY <2>1, <2>2 DEF AttemptsRemembered
    <3>2. IsFiniteSet(attempts') /\ Cardinality(attempts') <= AttemptLimit
      BY DEF LimitTypeOK, AttemptsRemembered
    <3>3. Cardinality(W) <= Cardinality(attempts') /\ Cardinality(W) \in Nat
          /\ Cardinality(attempts') \in Nat
      BY <3>1, <3>2, FS_Subset, FS_CardinalityType
    <3> QED
      BY <3>2, <3>3
  <2>3. CASE last.at # clock
    <3>1. last \in admitted
      BY <2>1, <2>3
    <3>2. W = {a \in admitted : last.at - AttemptWindow < a.at /\ a.at <= last.at}
      BY <2>1, <2>3
    <3> QED
      BY <3>1, <3>2 DEF AttemptsBounded
  <2> QED
    BY <2>2, <2>3
<1> QED
  BY <1>1, <1>2 DEF LimitNext, limitVars, Tick, RefuseAttempt, RefuseFailures, ApiAccepted,
     ApiRefused, ExchangeFails, ExchangeSucceeds

\* The failures on record and the lock: both date from the last failure.
LEMMA LockoutStep ==
    /\ LimitTypeOK /\ FailuresDated /\ LockoutEnds /\ [LimitNext]_limitVars
    => FailuresDated' /\ LockoutEnds'
<1> SUFFICES ASSUME LimitTypeOK, FailuresDated, LockoutEnds, [LimitNext]_limitVars
             PROVE  FailuresDated' /\ LockoutEnds'
  OBVIOUS
<1> USE DEF LimitTypeOK, FailuresDated, LockoutEnds, Stamp
<1>a. /\ RecentFailures = {t \in failures : t.at > clock - FailureWindow[guard]}
      /\ RecentFailures \subseteq failures
      /\ guard \in Guards
      /\ FailureWindow[guard] \in Nat \ {0} /\ FailureLimit[guard] \in Nat \ {0}
      /\ Lockout[guard] \in Nat \ {0}
  BY DEF Recent, RecentFailures
<1>1. CASE Tick
  BY <1>1, <1>a DEF Tick
<1>2. CASE RefuseAttempt
  BY <1>2, <1>a DEF RefuseAttempt
<1>3. CASE RefuseFailures
  <2>0. Cardinality(RecentFailures) # 0
    BY <1>3, <1>a DEF RefuseFailures, FailuresSpent
  <2>1. RecentFailures # {}
    BY <2>0, FS_EmptySet
  <2>2. clock < lastFailure + FailureWindow[guard]
    BY <1>a, <2>1
  <2> QED
    BY <1>3, <1>a, <2>2 DEF RefuseFailures
<1>4. CASE ApiAccepted
  BY <1>4, <1>a DEF ApiAccepted
<1>r. ASSUME RecordFailure(RecentFailures), UNCHANGED <<guard, clock>>
      PROVE  FailuresDated' /\ LockoutEnds'
  <2>1. /\ failures' = RecentFailures \union {Now} /\ Now.at = clock
        /\ lastFailure' = clock
        /\ lockUntil' \in {clock + Lockout[guard], lockUntil}
    BY <1>r DEF RecordFailure, Now
  <2> QED
    BY <1>r, <1>a, <2>1
<1>5. CASE ApiRefused
  BY <1>5, <1>r DEF ApiRefused
<1>6. ASSUME NEW x \in Exchanges, Admit(x) PROVE FailuresDated' /\ LockoutEnds'
  BY <1>6, <1>a DEF Admit
<1>7. ASSUME NEW x \in Exchanges, ExchangeFails(x) PROVE FailuresDated' /\ LockoutEnds'
  BY <1>7, <1>r DEF ExchangeFails
<1>8. ASSUME NEW x \in Exchanges, ExchangeSucceeds(x) PROVE FailuresDated' /\ LockoutEnds'
  BY <1>8, <1>a DEF ExchangeSucceeds
<1>9. CASE UNCHANGED limitVars
  BY <1>9 DEF limitVars
<1> QED
  BY <1>1, <1>2, <1>3, <1>4, <1>5, <1>6, <1>7, <1>8, <1>9 DEF LimitNext

\* What is recorded and what is still to be recorded grow together only below
\* the limit.
LEMMA OvershootStep ==
    LimitTypeOK /\ ApiAtOnce /\ OvershootBounded /\ [LimitNext]_limitVars
    => OvershootBounded'
<1> SUFFICES ASSUME LimitTypeOK, ApiAtOnce, OvershootBounded, [LimitNext]_limitVars
             PROVE  OvershootBounded'
  OBVIOUS
<1> USE DEF LimitTypeOK, OvershootBounded
<1>a. /\ IsFiniteSet(RecentFailures)
      /\ Cardinality(RecentFailures) \in Nat /\ Cardinality(failures) \in Nat
      /\ Cardinality(RecentFailures) <= Cardinality(failures)
  BY RecentSubset DEF RecentFailures
<1>b. /\ IsFiniteSet(inRoute) /\ Cardinality(inRoute) \in Nat
      /\ Cardinality(Exchanges) \in Nat
      /\ FailureLimit[guard] \in Nat \ {0} /\ guard \in Guards
  BY FS_Subset, FS_CardinalityType
<1>1. CASE Tick
  BY <1>1 DEF Tick
<1>2. CASE RefuseAttempt
  BY <1>2 DEF RefuseAttempt
<1>3. CASE RefuseFailures
  BY <1>3, <1>a, <1>b DEF RefuseFailures
<1>4. CASE ApiAccepted
  BY <1>4, <1>a, <1>b DEF ApiAccepted
<1>r. ASSUME RecordFailure(RecentFailures)
      PROVE  /\ Cardinality(failures') \in Nat
             /\ Cardinality(failures') <= Cardinality(RecentFailures) + 1
  <2>1. failures' = RecentFailures \union {Now}
    BY <1>r DEF RecordFailure
  <2> QED
    BY <1>a, <2>1, OneMore
<1>5. CASE ApiRefused
  BY <1>5, <1>r, <1>a, <1>b DEF ApiRefused, FailuresSpent
<1>6. ASSUME NEW x \in Exchanges, Admit(x) PROVE OvershootBounded'
  <2>1. inRoute' \subseteq Exchanges
    BY <1>6 DEF Admit
  <2>2. Cardinality(inRoute') \in Nat /\ Cardinality(inRoute') <= Cardinality(Exchanges)
    BY <2>1, FS_Subset, FS_CardinalityType
  <2> QED
    BY <1>6, <1>a, <1>b, <2>2 DEF Admit, FailuresSpent
<1>7. ASSUME NEW x \in Exchanges, ExchangeFails(x) PROVE OvershootBounded'
  <2>1. inRoute' = inRoute \ {x} /\ x \in inRoute /\ guard' = guard
    BY <1>7 DEF ExchangeFails
  <2>2. Cardinality(inRoute') = Cardinality(inRoute) - 1
    BY <1>b, <2>1, OneLess
  <2>3. RecordFailure(RecentFailures)
    BY <1>7 DEF ExchangeFails
  <2>4. CASE guard = "session"
    BY <1>r, <1>a, <1>b, <2>1, <2>2, <2>3, <2>4
  <2>5. CASE guard = "api"
    BY <1>7, <2>5 DEF ApiAtOnce, ExchangeFails
  <2> QED
    BY <2>4, <2>5 DEF Guards
<1>8. ASSUME NEW x \in Exchanges, ExchangeSucceeds(x) PROVE OvershootBounded'
  <2>1. inRoute' = inRoute \ {x} /\ x \in inRoute /\ guard' = guard /\ failures' = {}
    BY <1>8 DEF ExchangeSucceeds
  <2>2. Cardinality(inRoute') = Cardinality(inRoute) - 1 /\ Cardinality(failures') = 0
    BY <1>b, <2>1, OneLess, FS_EmptySet
  <2> QED
    BY <1>a, <1>b, <2>1, <2>2
<1>9. CASE UNCHANGED limitVars
  BY <1>9 DEF limitVars
<1> QED
  BY <1>1, <1>2, <1>3, <1>4, <1>5, <1>6, <1>7, <1>8, <1>9 DEF LimitNext

-----------------------------------------------------------------------------
\* The limiter's invariant is inductive, whichever kind of request it guards.
THEOREM LimitInvariant == LimitSpec => []LimitIInv
<1>1. LimitInit => LimitIInv
  <2> SUFFICES ASSUME LimitInit PROVE LimitIInv
    OBVIOUS
  <2>1. Cardinality({}) = 0 /\ IsFiniteSet({})
    BY FS_EmptySet
  <2>2. /\ Cardinality(Exchanges) \in Nat
        /\ FailureLimit[guard] \in Nat \ {0} /\ FailureWindow[guard] \in Nat \ {0}
        /\ Lockout[guard] \in Nat \ {0} /\ guard \in Guards
    BY FS_CardinalityType DEF LimitInit
  <2> QED
    BY <2>1, <2>2 DEF LimitInit, LimitIInv, LimitTypeOK, ApiAtOnce, AttemptsRemembered,
       FailuresDated, AttemptsBounded, LockoutEnds, OvershootBounded
<1>2. LimitTypeOK /\ ApiAtOnce /\ [LimitNext]_limitVars => ApiAtOnce'
  BY DEF LimitTypeOK, ApiAtOnce, LimitNext, limitVars, Tick, RefuseAttempt, RefuseFailures,
     ApiAccepted, ApiRefused, Admit, ExchangeFails, ExchangeSucceeds
<1>3. LimitIInv /\ [LimitNext]_limitVars => LimitIInv'
  BY <1>2, LimitTypeStep, AttemptsStep, BoundStep, LockoutStep, OvershootStep DEF LimitIInv
<1> QED
  BY <1>1, <1>3, PTL DEF LimitSpec

\* No window of AttemptWindow seconds admits more than AttemptLimit exchanges.
THEOREM AttemptsAreBounded == LimitSpec => []AttemptsBounded
<1>1. LimitIInv => AttemptsBounded
  BY DEF LimitIInv
<1> QED
  BY <1>1, LimitInvariant, PTL

\* A lock ends at most a window and a lockout after the last recorded failure.
THEOREM LockoutsEnd == LimitSpec => []LockoutEnds
<1>1. LimitIInv => LockoutEnds
  BY DEF LimitIInv
<1> QED
  BY <1>1, LimitInvariant, PTL

\* The failures on record exceed the limit by fewer than there are threads.
THEOREM OvershootIsBounded == LimitSpec => []OvershootBounded
<1>1. LimitIInv => OvershootBounded
  BY DEF LimitIInv
<1> QED
  BY <1>1, LimitInvariant, PTL

\* Every variable of the limiter keeps its type.
THEOREM LimitTypeCorrect == LimitSpec => []LimitTypeOK
<1>1. LimitIInv => LimitTypeOK
  BY DEF LimitIInv
<1> QED
  BY <1>1, LimitInvariant, PTL

-----------------------------------------------------------------------------
\* Steps of a launcher that has not minted its nonce.
Early == {"off", "probe", "pick", "health", "mint"}

\* A port is listened on by the serving thread that chose it; a thread that has
\* yet to bind belongs to a launcher that waits for it, or that was outpaced.
Listens ==
    /\ \A p \in Ports : listener[p] \in Launchers =>
          thread[listener[p]] = "serving" /\ port[listener[p]] = p
    /\ \A l \in Launchers :
         /\ thread[l] = "serving" => listener[port[l]] = l
         /\ step[l] \in {"off", "probe", "pick"} => thread[l] = "none"
         /\ thread[l] \in {"starting", "dead"} /\ step[l] # "health" => l \in outpaced

\* A nonce that was used is in no file any more, and in no memory that a server
\* could take it from.
UsedUp ==
    \A l \in Launchers :
        /\ step[l] \in Early => /\ signedIn[l] = 0 /\ file # l /\ ~memory[l]
                               /\ window[l] = Nobody
        /\ kept = 0 /\ l \notin outpaced /\ signedIn[l] > 0 =>
             file # l /\ (memory[l] => thread[l] = "none")

NonceIInv == DeskTypeOK /\ Listens /\ UsedUp /\ NonceOnce

USE DesktopAssumption

\* Every variable of the launchers keeps its type.
LEMMA DeskTypeStep == DeskTypeOK /\ [DeskNext]_deskVars => DeskTypeOK'
<1> SUFFICES ASSUME DeskTypeOK, [DeskNext]_deskVars PROVE DeskTypeOK'
  OBVIOUS
<1> USE DEF DeskTypeOK, nonceVars, Steps, Backends
<1>1. ASSUME NEW l \in Launchers, Start(l) PROVE DeskTypeOK'
  BY <1>1 DEF Start
<1>e. ASSUME NEW l \in Launchers, ProcessEnds(l), window' \in [Launchers -> Backends \union {Nobody}]
      PROVE  DeskTypeOK'
  BY <1>e DEF ProcessEnds
<1>2. ASSUME NEW l \in Launchers, Reuse(l) PROVE DeskTypeOK'
  BY <1>2 DEF Reuse
<1>3. ASSUME NEW l \in Launchers, FindNone(l) PROVE DeskTypeOK'
  BY <1>3 DEF FindNone
<1>4. ASSUME NEW l \in Launchers, PickPort(l) PROVE DeskTypeOK'
  BY <1>4 DEF PickPort
<1>5. ASSUME NEW l \in Launchers, HealthSeen(l) PROVE DeskTypeOK'
  BY <1>5 DEF HealthSeen
<1>6. ASSUME NEW l \in Launchers, HealthTimeout(l) PROVE DeskTypeOK'
  BY <1>6, <1>e DEF HealthTimeout
<1>7. ASSUME NEW l \in Launchers, Mint(l) PROVE DeskTypeOK'
  BY <1>7 DEF Mint
<1>8. ASSUME NEW l \in Launchers, Bind(l) PROVE DeskTypeOK'
  BY <1>8 DEF Bind
<1>9. ASSUME NEW l \in Launchers, Expire(l) PROVE DeskTypeOK'
  BY <1>9 DEF Expire
<1>c. ASSUME NEW server, Clear(server)
      PROVE  memory' \in [Launchers -> BOOLEAN] /\ file' \in Launchers \union {Nobody}
             /\ kept' \in Nat
  <2>1. memory' \in [Launchers -> BOOLEAN]
    BY <1>c DEF Clear
  <2>2. CASE file' = Nobody /\ UNCHANGED kept
    BY <2>1, <2>2
  <2>3. CASE kept' = kept + 1 /\ UNCHANGED file
    BY <2>1, <2>3
  <2> QED
    BY <1>c, <2>2, <2>3 DEF Clear
<1>10. ASSUME NEW l \in Launchers, Accept(l) PROVE DeskTypeOK'
  BY <1>10, <1>c DEF Accept
<1>11. ASSUME NEW l \in Launchers, RefuseStale(l) PROVE DeskTypeOK'
  BY <1>11, <1>c DEF RefuseStale
<1>12. ASSUME NEW l \in Launchers, FallBack(l) PROVE DeskTypeOK'
  BY <1>12 DEF FallBack
<1>13. ASSUME NEW l \in Launchers, CloseWindow(l) PROVE DeskTypeOK'
  BY <1>13, <1>e DEF CloseWindow
<1>14. ASSUME NEW l \in Launchers, HandOff(l) PROVE DeskTypeOK'
  BY <1>14, <1>e DEF HandOff
<1>15. ASSUME NEW l \in Launchers, Stop(l) PROVE DeskTypeOK'
  BY <1>15, <1>e DEF Stop
<1>16. CASE UNCHANGED deskVars
  BY <1>16 DEF deskVars
<1> QED
  BY <1>1, <1>2, <1>3, <1>4, <1>5, <1>6, <1>7, <1>8, <1>9, <1>10, <1>11, <1>12, <1>13, <1>14,
     <1>15, <1>16 DEF DeskNext, Launch

\* Ports change hands by a bind and by the end of a process only.
LEMMA ListensStep == DeskTypeOK /\ Listens /\ [DeskNext]_deskVars => Listens'
<1> SUFFICES ASSUME DeskTypeOK, Listens, [DeskNext]_deskVars PROVE Listens'
  OBVIOUS
<1> USE DEF DeskTypeOK, Listens, nonceVars, Steps
<1>1. ASSUME NEW l \in Launchers, Start(l) PROVE Listens'
  BY <1>1 DEF Start
<1>e. ASSUME NEW l \in Launchers, ProcessEnds(l) PROVE Listens'
  BY <1>e DEF ProcessEnds
<1>2. ASSUME NEW l \in Launchers, Reuse(l) PROVE Listens'
  BY <1>2 DEF Reuse
<1>3. ASSUME NEW l \in Launchers, FindNone(l) PROVE Listens'
  BY <1>3 DEF FindNone
<1>4. ASSUME NEW l \in Launchers, PickPort(l) PROVE Listens'
  BY <1>4 DEF PickPort
<1>5. ASSUME NEW l \in Launchers, HealthSeen(l) PROVE Listens'
  BY <1>5 DEF HealthSeen, Healthy
<1>6. ASSUME NEW l \in Launchers, HealthTimeout(l) \/ CloseWindow(l) \/ Stop(l)
      PROVE  Listens'
  BY <1>6, <1>e DEF HealthTimeout, CloseWindow, Stop
<1>7. ASSUME NEW l \in Launchers, Mint(l) PROVE Listens'
  BY <1>7 DEF Mint
<1>8. ASSUME NEW l \in Launchers, Bind(l) PROVE Listens'
  BY <1>8 DEF Bind, Free
<1>9. ASSUME UNCHANGED <<thread, listener, port, step, outpaced>> PROVE Listens'
  BY <1>9
<1>10. ASSUME NEW l \in Launchers, Expire(l) \/ Accept(l) \/ RefuseStale(l) \/ FallBack(l)
       PROVE  Listens'
  BY <1>9, <1>10 DEF Expire, Accept, RefuseStale, FallBack
<1>11. ASSUME NEW l \in Launchers, HandOff(l) PROVE Listens'
  BY <1>11, <1>e DEF HandOff
<1>12. CASE UNCHANGED deskVars
  BY <1>9, <1>12 DEF deskVars
<1> QED
  BY <1>1, <1>2, <1>3, <1>4, <1>5, <1>6, <1>7, <1>8, <1>10, <1>11, <1>12
     DEF DeskNext, Launch

\* A nonce is taken from a server's memory or from the file, and cleared from
\* where it was taken.
LEMMA UsedUpStep == DeskTypeOK /\ Listens /\ UsedUp /\ [DeskNext]_deskVars => UsedUp'
<1> SUFFICES ASSUME DeskTypeOK, Listens, UsedUp, [DeskNext]_deskVars PROVE UsedUp'
  OBVIOUS
<1> USE DEF DeskTypeOK, UsedUp, Early, nonceVars, Steps
<1>1. ASSUME NEW l \in Launchers, Start(l) PROVE UsedUp'
  BY <1>1 DEF Start
<1>e. ASSUME NEW l \in Launchers, ProcessEnds(l),
             \A k \in Launchers : window'[k] \in {window[k], Nobody}
      PROVE  UsedUp'
  BY <1>e DEF ProcessEnds
<1>2. ASSUME NEW l \in Launchers, Reuse(l) PROVE UsedUp'
  BY <1>2 DEF Reuse
<1>3. ASSUME NEW l \in Launchers, FindNone(l) PROVE UsedUp'
  BY <1>3 DEF FindNone
<1>4. ASSUME NEW l \in Launchers, PickPort(l) PROVE UsedUp'
  BY <1>4 DEF PickPort
<1>5. ASSUME NEW l \in Launchers, HealthSeen(l) PROVE UsedUp'
  BY <1>5 DEF HealthSeen
<1>6. ASSUME NEW l \in Launchers, HealthTimeout(l) \/ CloseWindow(l) \/ Stop(l)
      PROVE  UsedUp'
  BY <1>6, <1>e DEF HealthTimeout, CloseWindow, Stop
<1>7. ASSUME NEW l \in Launchers, Mint(l) PROVE UsedUp'
  BY <1>7 DEF Mint
<1>8. ASSUME NEW l \in Launchers, Bind(l) PROVE UsedUp'
  BY <1>8 DEF Bind
<1>9. ASSUME NEW l \in Launchers, Expire(l) \/ FallBack(l) PROVE UsedUp'
  BY <1>9 DEF Expire, FallBack
<1>10. ASSUME NEW l \in Launchers, Accept(l) PROVE UsedUp'
  <2> DEFINE server == listener[port[l]]
  <2>1. server \in Launchers /\ thread[server] = "serving" /\ window[l] # Nobody
    BY <1>10 DEF Accept, Asks, Healthy, Listens
  <2>2. Expected(server) = l
    BY <1>10 DEF Accept
  <2>3. /\ memory' = [memory EXCEPT ![server] = FALSE]
        /\ signedIn' = [signedIn EXCEPT ![l] = @ + 1]
        /\ UNCHANGED <<step, thread, window, outpaced>>
    BY <1>10 DEF Accept, Clear
  <2>4. kept' = 0 => kept = 0 /\ file' = Nobody
    BY <1>10 DEF Accept, Clear
  <2>5. step[l] \notin Early
    BY <2>1
  <2>6. CASE server = l
    BY <2>1, <2>3, <2>4, <2>5, <2>6, DesktopAssumption, <1>10 DEF Accept, Clear
  <2>7. CASE server # l
    <3>1. thread[l] # "serving"
      BY <2>7 DEF Listens
    <3>2. l \notin outpaced => thread[l] = "none"
      BY <2>5, <3>1 DEF Listens
    <3> QED
      BY <2>1, <2>3, <2>4, <2>5, <3>2, <1>10 DEF Accept, Clear
  <2> QED
    BY <2>6, <2>7
<1>11. ASSUME NEW l \in Launchers, RefuseStale(l) PROVE UsedUp'
  BY <1>11 DEF RefuseStale, Clear
<1>12. ASSUME NEW l \in Launchers, HandOff(l) PROVE UsedUp'
  <2>1. CASE ProcessEnds(l)
    BY <1>12, <1>e, <2>1 DEF HandOff
  <2>2. CASE /\ step' = [step EXCEPT ![l] = "foreground"] /\ UNCHANGED window
             /\ UNCHANGED <<thread, outpaced, nonceVars>>
    BY <1>12, <2>2 DEF HandOff
  <2> QED
    BY <1>12, <2>1, <2>2 DEF HandOff
<1>13. CASE UNCHANGED deskVars
  BY <1>13 DEF deskVars
<1> QED
  BY <1>1, <1>2, <1>3, <1>4, <1>5, <1>6, <1>7, <1>8, <1>9, <1>10, <1>11, <1>12, <1>13
     DEF DeskNext, Launch

\* Used up means not accepted again.
LEMMA OnceStep == DeskTypeOK /\ Listens /\ UsedUp /\ NonceOnce /\ [DeskNext]_deskVars
                      => NonceOnce'
<1> SUFFICES ASSUME DeskTypeOK, Listens, UsedUp, NonceOnce, [DeskNext]_deskVars
             PROVE  NonceOnce'
  OBVIOUS
<1> USE DEF DeskTypeOK, NonceOnce, nonceVars
<1>1. ASSUME NEW l \in Launchers, Accept(l) PROVE NonceOnce'
  <2>1. /\ listener[port[l]] \in Launchers /\ thread[listener[port[l]]] = "serving"
        /\ Expected(listener[port[l]]) = l
    BY <1>1 DEF Accept, Asks, Healthy, Listens
  <2>2. (memory[l] /\ thread[l] = "serving") \/ file = l
    BY <2>1 DEF Expected
  <2>3. kept = 0 /\ l \notin outpaced => signedIn[l] = 0
    BY <2>2 DEF UsedUp
  <2>4. signedIn' = [signedIn EXCEPT ![l] = @ + 1] /\ outpaced' = outpaced /\ kept' \in Nat
        /\ (kept > 0 => kept' > 0)
    BY <1>1 DEF Accept, Clear
  <2> QED
    BY <2>3, <2>4
<1>2. ASSUME signedIn' = signedIn, kept > 0 => kept' > 0, outpaced \subseteq outpaced'
      PROVE  NonceOnce'
  BY <1>2
<1>3. ASSUME NEW l \in Launchers, ~Accept(l),
             Start(l) \/ Launch(l) \/ Bind(l) \/ Expire(l) \/ RefuseStale(l)
             \/ FallBack(l) \/ CloseWindow(l) \/ HandOff(l) \/ Stop(l)
      PROVE  NonceOnce'
  BY <1>2, <1>3 DEF Start, Launch, Reuse, FindNone, PickPort, HealthSeen, HealthTimeout,
     Mint, Bind, Expire, RefuseStale, Clear, FallBack, CloseWindow, HandOff, Stop,
     ProcessEnds
<1>4. CASE UNCHANGED deskVars
  BY <1>2, <1>4 DEF deskVars
<1> QED
  BY <1>1, <1>3, <1>4 DEF DeskNext

\* The invariant of launchers and nonces is inductive.
THEOREM NonceInvariant == DeskSpec => []NonceIInv
<1>1. DeskInit => NonceIInv
  BY DEF DeskInit, NonceIInv, DeskTypeOK, Listens, UsedUp, NonceOnce, Steps, Early
<1>2. NonceIInv /\ [DeskNext]_deskVars => NonceIInv'
  BY DeskTypeStep, ListensStep, UsedUpStep, OnceStep DEF NonceIInv
<1> QED
  BY <1>1, <1>2, PTL DEF DeskSpec

\* A nonce signs a window in once, but for a file that could not be removed and a
\* launcher that another server answered for.
THEOREM NoncesAreSpent == DeskSpec => []NonceOnce
<1>1. NonceIInv => NonceOnce
  BY DEF NonceIInv
<1> QED
  BY <1>1, NonceInvariant, PTL

\* Every variable of the launchers keeps its type.
THEOREM DeskTypeCorrect == DeskSpec => []DeskTypeOK
<1>1. NonceIInv => DeskTypeOK
  BY DEF NonceIInv
<1> QED
  BY <1>1, NonceInvariant, PTL

-----------------------------------------------------------------------------
(* Refusals. Two nonces that could both still be asked for are known to        *)
(* overlap; a nonce that is young, unused and alone is the one in the file;    *)
(* and the memory of a server holds no nonce that was used already.            *)
RefuseInv ==
    /\ \A j, k \in Launchers : j # k /\ Outstanding(j) /\ Outstanding(k) => j \in overlapped
    /\ \A l \in Launchers :
         /\ l \notin outpaced /\ signedIn[l] > 0 /\ memory[l] => thread[l] = "none"
         /\ window[l] # Nobody /\ l \notin expired /\ signedIn[l] = 0
              /\ l \notin overlapped /\ outpaced = {} => file = l

(* A launcher with a server, or about to start one. *)
Coming(l) == step[l] = "pick" \/ thread[l] \in {"starting", "serving"}

(* Servers. Unless a launcher went on beside another, or the port is held by a *)
(* foreign program, one launcher at a time has a server, and on HomePort.      *)
ServersInv ==
    /\ \A l \in Launchers :
         step[l] = "foreground" => listener[port[l]] = l \/ l \in outpaced
    /\ blind = {} /\ listener[HomePort] # Foreign =>
         /\ \A j, k \in Launchers : Coming(j) /\ Coming(k) => j = k
         /\ \A l \in Launchers :
              /\ step[l] = "pick" => Free(HomePort)
              /\ thread[l] \in {"starting", "serving"} => port[l] = HomePort

\* Where a nonce comes to be outstanding, and what makes it cease to be.
LEMMA RefuseStep ==
    ASSUME DeskTypeOK, Listens, UsedUp, RefuseInv, [DeskNext]_deskVars
    PROVE  RefuseInv'
<1> USE DEF DeskTypeOK, Outstanding, nonceVars, Steps
<1>q. ASSUME UNCHANGED <<memory, file, expired, signedIn, overlapped, window>>,
             outpaced \subseteq outpaced',
             \A l \in Launchers : thread'[l] = "none" \/ thread'[l] = thread[l] \/ l \in outpaced'
                                  \/ signedIn[l] = 0
      PROVE  RefuseInv'
  BY <1>q DEF RefuseInv
<1>e. ASSUME NEW l \in Launchers, ProcessEnds(l),
             \A k \in Launchers : window'[k] \in {window[k], Nobody}
      PROVE  RefuseInv'
  BY <1>e DEF ProcessEnds, RefuseInv
<1>1. ASSUME NEW l \in Launchers, Start(l) \/ Reuse(l) \/ FindNone(l) PROVE RefuseInv'
  BY <1>1, <1>q DEF Start, Reuse, FindNone
<1>2. ASSUME NEW l \in Launchers, PickPort(l) PROVE RefuseInv'
  BY <1>2, <1>q DEF PickPort, UsedUp, Early
<1>3. ASSUME NEW l \in Launchers, HealthSeen(l) PROVE RefuseInv'
  BY <1>3, <1>q DEF HealthSeen
<1>4. ASSUME NEW l \in Launchers, Bind(l) PROVE RefuseInv'
  <2>1. step[l] = "health" \/ l \in outpaced
    BY <1>4 DEF Bind, Listens
  <2>2. signedIn[l] = 0 \/ l \in outpaced
    BY <2>1 DEF UsedUp, Early
  <2> QED BY <1>4, <1>q, <2>2 DEF Bind
<1>5. ASSUME NEW l \in Launchers, HealthTimeout(l) \/ CloseWindow(l) \/ Stop(l)
      PROVE  RefuseInv'
  BY <1>5, <1>e DEF HealthTimeout, CloseWindow, Stop
<1>6. ASSUME NEW l \in Launchers, HandOff(l) PROVE RefuseInv'
  BY <1>6, <1>e, <1>q DEF HandOff
<1>7. ASSUME NEW l \in Launchers, FallBack(l) PROVE RefuseInv'
  <2>1. \A k \in Launchers : window'[k] # Nobody => window[k] # Nobody
    BY <1>7 DEF FallBack, Backends
  <2> QED BY <1>7, <2>1 DEF FallBack, RefuseInv
<1>8. ASSUME NEW l \in Launchers, Expire(l) PROVE RefuseInv'
  BY <1>8 DEF Expire, RefuseInv
<1>9. ASSUME NEW l \in Launchers, Mint(l) PROVE RefuseInv'
  <2>1. /\ memory' = [memory EXCEPT ![l] = TRUE] /\ file' = l
        /\ window' = [window EXCEPT ![l] = "webview"]
        /\ signedIn[l] = 0
        /\ UNCHANGED <<thread, expired, signedIn, outpaced>>
    BY <1>9 DEF Mint, UsedUp, Early
  <2>2. /\ overlapped \subseteq overlapped'
        /\ \A k \in Launchers \ {l} : Outstanding(k) => k \in overlapped' /\ l \in overlapped'
    BY <1>9 DEF Mint
  <2>3. \A k \in Launchers \ {l} : Outstanding(k)' => Outstanding(k)
    BY <2>1
  <2>4. \A j, k \in Launchers : j # k /\ Outstanding(j)' /\ Outstanding(k)' => j \in overlapped'
    <3> HIDE DEF Outstanding
    <3>1. ASSUME NEW j \in Launchers, NEW k \in Launchers, j # k,
                 Outstanding(j)', Outstanding(k)'
          PROVE  j \in overlapped'
      <4>1. CASE j = l
        BY <2>2, <2>3, <3>1, <4>1
      <4>2. CASE j # l
        BY <2>2, <2>3, <3>1, <4>2
      <4> QED BY <4>1, <4>2
    <3> QED BY <3>1
  <2>5. ASSUME NEW k \in Launchers, k # l, window'[k] # Nobody, k \notin expired',
               signedIn'[k] = 0, k \notin overlapped', outpaced' = {}
        PROVE  FALSE
    <3>1. file = k
      BY <2>1, <2>2, <2>5 DEF RefuseInv
    <3> QED BY <2>1, <2>2, <2>5, <3>1
  <2> QED BY <2>1, <2>4, <2>5 DEF RefuseInv
<1>10. ASSUME NEW l \in Launchers, Accept(l) PROVE RefuseInv'
  <2> DEFINE server == listener[port[l]]
  <2>1. server \in Launchers /\ thread[server] = "serving" /\ window[l] # Nobody
        /\ Expected(server) = l
    BY <1>10 DEF Accept, Asks, Healthy, Listens
  <2>2. /\ memory' = [memory EXCEPT ![server] = FALSE]
        /\ signedIn' = [signedIn EXCEPT ![l] = @ + 1]
        /\ file' \in {file, Nobody}
        /\ UNCHANGED <<step, thread, window, outpaced, expired, overlapped>>
    BY <1>10 DEF Accept, Clear
  <2>3. step[l] \notin Early
    BY <2>1 DEF UsedUp
  <2>4. server # l => thread[l] # "serving"
    BY DEF Listens
  <2>5. server # l /\ l \notin outpaced => thread[l] = "none"
    BY <2>3, <2>4 DEF Listens, Early
  <2> HIDE DEF server
  <2>6. \A k \in Launchers : Outstanding(k)' => Outstanding(k)
    BY <2>2
  <2>7. ASSUME NEW k \in Launchers, k # l, window[k] # Nobody, k \notin expired, signedIn[k] = 0,
               k \notin overlapped, outpaced = {}
        PROVE  FALSE
    <3>1. file = k /\ Outstanding(k)
      BY <2>7 DEF RefuseInv
    <3>2. memory[l] /\ l = server /\ l \notin expired
      BY <2>1, <2>7, <3>1 DEF Expected
    <3>3. signedIn[l] = 0
      BY <2>1, <2>7, <3>2 DEF RefuseInv
    <3> QED BY <2>7, <3>1, <3>2, <3>3 DEF RefuseInv
  <2>8. ASSUME NEW k \in Launchers, k \notin outpaced, signedIn'[k] > 0, memory'[k]
        PROVE  thread[k] = "none"
    BY <2>1, <2>2, <2>5, <2>8 DEF RefuseInv
  <2>9. signedIn'[l] > 0
    BY <2>2
  <2>10. \A k \in Launchers : k # l => signedIn'[k] = signedIn[k]
    BY <2>2
  <2>11. \A j, k \in Launchers : j # k /\ Outstanding(j)' /\ Outstanding(k)' => j \in overlapped'
    <3> HIDE DEF Outstanding
    <3> QED BY <2>2, <2>6 DEF RefuseInv
  <2> QED BY <2>2, <2>7, <2>8, <2>9, <2>10, <2>11 DEF RefuseInv
<1>11. ASSUME NEW l \in Launchers, RefuseStale(l) PROVE RefuseInv'
  <2> DEFINE server == listener[port[l]]
  <2>1. /\ server \in Launchers
        /\ memory' = [memory EXCEPT ![server] = FALSE] /\ file' \in {file, Nobody}
        /\ UNCHANGED <<step, thread, window, outpaced, expired, overlapped, signedIn>>
    BY <1>11 DEF RefuseStale, Clear, Refusable, Asks, Healthy
  <2>2. file \in expired
    BY <1>11, <2>1 DEF RefuseStale, StaleFile, Expected
  <2> QED BY <2>1, <2>2 DEF RefuseInv
<1>12. CASE UNCHANGED deskVars
  BY <1>12, <1>q DEF deskVars
<1> QED
  BY <1>1, <1>2, <1>3, <1>4, <1>5, <1>6, <1>7, <1>8, <1>9, <1>10, <1>11, <1>12
     DEF DeskNext, Launch

(* A window that has the desktop to itself is never turned away: a refused     *)
(* nonce is old, was used, overlapped another, or a port was contended for.    *)
THEOREM RefusalsHaveReasons == DeskSpec => []RefusedForReason
<1>1. DeskInit => RefuseInv
  BY DEF DeskInit, RefuseInv, Outstanding
<1>2. NonceIInv /\ RefuseInv /\ [DeskNext]_deskVars => RefuseInv'
  BY RefuseStep DEF NonceIInv
<1>3. NonceIInv /\ RefuseInv => RefusedForReason
  <2> SUFFICES ASSUME NonceIInv, RefuseInv, NEW l \in Launchers, Refusable(l),
                      l \notin expired, signedIn[l] = 0, l \notin overlapped, outpaced = {}
               PROVE  FALSE
    BY DEF RefusedForReason, NonceIInv, DeskTypeOK
  <2> DEFINE server == listener[port[l]]
  <2>1. /\ server \in Launchers /\ thread[server] = "serving"
        /\ Expected(server) # l /\ window[l] # Nobody
    BY DEF Refusable, Asks, Healthy, NonceIInv, Listens, DeskTypeOK
  <2>2. file = l /\ Outstanding(l)
    BY <2>1 DEF RefuseInv, Outstanding
  <2>3. memory[server] /\ server \notin expired /\ server # l
    BY <2>1, <2>2 DEF Expected, NonceIInv, DeskTypeOK
  <2>4. signedIn[server] = 0
    BY <2>1, <2>3 DEF RefuseInv, NonceIInv, DeskTypeOK
  <2> QED BY <2>1, <2>2, <2>3, <2>4 DEF RefuseInv, Outstanding
<1> QED
  BY <1>1, <1>2, <1>3, NonceInvariant, PTL DEF DeskSpec

\* A launcher that sees nobody else goes on alone, and takes HomePort.
LEMMA ServersStep ==
    ASSUME DeskTypeOK, Listens, ServersInv, [DeskNext]_deskVars
    PROVE  ServersInv'
<1> USE DEF DeskTypeOK, Coming, Free, nonceVars, Steps
<1>q. ASSUME UNCHANGED <<thread, listener, port, outpaced, blind>>,
             \A l \in Launchers : step'[l] \in {"pick", "foreground"} => step'[l] = step[l]
      PROVE  ServersInv'
  BY <1>q DEF ServersInv
<1>e. ASSUME NEW l \in Launchers, ProcessEnds(l) PROVE ServersInv'
  BY <1>e DEF ProcessEnds, ServersInv, Listens
<1>1. ASSUME NEW l \in Launchers, Start(l) PROVE ServersInv'
  BY <1>1, <1>q DEF Start
<1>2. ASSUME NEW l \in Launchers, Reuse(l) PROVE ServersInv'
  BY <1>2 DEF Reuse, ServersInv, Listens
<1>3. ASSUME NEW l \in Launchers, FindNone(l) PROVE ServersInv'
  <2>1. /\ step[l] = "probe" /\ step' = [step EXCEPT ![l] = "pick"]
        /\ UNCHANGED <<port, thread, listener, outpaced>>
    BY <1>3 DEF FindNone
  <2>2. \A k \in Launchers : step'[k] = "foreground" => step[k] = "foreground"
    BY <2>1
  <2>3. ASSUME blind' = {}, listener[HomePort] # Foreign
        PROVE  /\ blind = {} /\ Free(HomePort)
               /\ \A k \in Launchers \ {l} : ~Coming(k)
    <3>1. /\ blind = {} /\ ~Healthy(HomePort)
          /\ \A k \in Launchers \ {l} : step[k] # "pick" /\ thread[k] # "starting"
      BY <1>3, <2>3 DEF FindNone
    <3>2. \A k \in Launchers : thread[k] # "serving"
      BY <2>3, <3>1 DEF ServersInv, Listens, Healthy
    <3> QED BY <2>3, <3>1, <3>2 DEF Healthy
  <2>4. thread[l] = "none"
    BY <2>1 DEF Listens
  <2> QED BY <2>1, <2>2, <2>3, <2>4 DEF ServersInv
<1>4. ASSUME NEW l \in Launchers, PickPort(l) PROVE ServersInv'
  <2>1. /\ step[l] = "pick" /\ step' = [step EXCEPT ![l] = "health"]
        /\ thread' = [thread EXCEPT ![l] = "starting"]
        /\ UNCHANGED <<listener, blind, outpaced>>
    BY <1>4 DEF PickPort
  <2>2. PICK p \in Ports : port' = [port EXCEPT ![l] = p] /\ (p # HomePort => ~Free(HomePort))
    BY <1>4 DEF PickPort
  <2>3. \A k \in Launchers : step'[k] = "foreground" => k # l /\ step[k] = "foreground"
    BY <2>1
  <2>4. ASSUME blind = {}, listener[HomePort] # Foreign
        PROVE  /\ p = HomePort
               /\ \A k \in Launchers \ {l} : ~Coming(k)
    BY <2>1, <2>2, <2>4 DEF ServersInv
  <2> QED BY <2>1, <2>2, <2>3, <2>4 DEF ServersInv
<1>5. ASSUME NEW l \in Launchers, HealthSeen(l) PROVE ServersInv'
  BY <1>5 DEF HealthSeen, ServersInv
<1>6. ASSUME NEW l \in Launchers, HealthTimeout(l) \/ CloseWindow(l) \/ Stop(l)
      PROVE  ServersInv'
  BY <1>6, <1>e DEF HealthTimeout, CloseWindow, Stop
<1>7. ASSUME NEW l \in Launchers, Mint(l) PROVE ServersInv'
  BY <1>7, <1>q DEF Mint
<1>8. ASSUME NEW l \in Launchers, Bind(l) PROVE ServersInv'
  <2>1. thread[l] = "starting" /\ UNCHANGED <<step, port, blind>>
    BY <1>8 DEF Bind
  <2>2. CASE Free(port[l])
    <3>1. /\ listener' = [listener EXCEPT ![port[l]] = l]
          /\ thread' = [thread EXCEPT ![l] = "serving"] /\ UNCHANGED outpaced
      BY <1>8, <2>2 DEF Bind
    <3>2. \A k \in Launchers : listener[port[k]] = k => listener'[port[k]] = k
      BY <2>2, <3>1
    <3>3. ASSUME blind = {}, listener'[HomePort] # Foreign
          PROVE  /\ listener[HomePort] # Foreign
                 /\ \A k \in Launchers \ {l} : ~Coming(k)
      <4>1. listener[HomePort] # Foreign
        BY <2>2, <3>1, <3>3
      <4> QED BY <2>1, <3>3, <4>1 DEF ServersInv
    <3>4. step[l] # "pick"
      BY <2>1 DEF Listens
    <3>5. \A k \in Launchers : step[k] = "foreground" =>
             listener'[port[k]] = k \/ k \in outpaced
      BY <3>2 DEF ServersInv
    <3>6. blind = {} /\ listener'[HomePort] # Foreign => port[l] = HomePort
      BY <2>1, <3>3 DEF ServersInv
    <3> QED BY <2>1, <3>1, <3>3, <3>4, <3>5, <3>6 DEF ServersInv
  <2>3. CASE ~Free(port[l])
    <3>1. /\ thread' = [thread EXCEPT ![l] = "dead"] /\ outpaced' = outpaced \union {l}
          /\ UNCHANGED listener
      BY <1>8, <2>3 DEF Bind
    <3> QED BY <2>1, <3>1 DEF ServersInv
  <2> QED BY <2>2, <2>3
<1>9. ASSUME NEW l \in Launchers, Expire(l) \/ Accept(l) \/ RefuseStale(l) \/ FallBack(l)
      PROVE  ServersInv'
  BY <1>9, <1>q DEF Expire, Accept, RefuseStale, FallBack
<1>10. ASSUME NEW l \in Launchers, HandOff(l) PROVE ServersInv'
  <2>1. CASE thread[l] = "none"
    BY <1>10, <1>e, <2>1 DEF HandOff
  <2>2. CASE thread[l] # "none"
    <3>1. step[l] = "open" /\ (listener[port[l]] = l \/ l \in outpaced)
      BY <1>10, <2>2 DEF HandOff, Listens
    <3> QED BY <1>10, <2>2, <3>1 DEF HandOff, ServersInv
  <2> QED BY <2>1, <2>2
<1>11. CASE UNCHANGED deskVars
  BY <1>11, <1>q DEF deskVars
<1> QED
  BY <1>1, <1>2, <1>3, <1>4, <1>5, <1>6, <1>7, <1>8, <1>9, <1>10, <1>11 DEF DeskNext, Launch

(* Any number of launchers share one server, but where one went on beside      *)
(* another or the port was taken; who stays in the foreground has a server.    *)
THEOREM ServersAreAccountedFor == DeskSpec => []ServersAccountedFor
<1>1. DeskInit => ServersInv
  BY DEF DeskInit, ServersInv, Coming
<1>2. NonceIInv /\ ServersInv /\ [DeskNext]_deskVars => ServersInv'
  BY ServersStep DEF NonceIInv
<1>3. NonceIInv /\ ServersInv => ServersAccountedFor
  BY DEF NonceIInv, ServersInv, ServersAccountedFor, Healthy, Listens, Coming
<1> QED
  BY <1>1, <1>2, <1>3, NonceInvariant, PTL DEF DeskSpec
=============================================================================
