------------------------------ MODULE RateLimit ------------------------------
(***************************************************************************)
(* AuthRateLimiter (deepcatalog/auth_rate_limit.py) and its callers, for   *)
(* one client address.  The session exchange and the desktop bootstrap     *)
(* (app/routers/auth.py) run in handler threads: they check the limiter,   *)
(* validate what the client presents and record the outcome, the check and *)
(* the record being two critical sections.  The middleware (app/main.py)   *)
(* does the three on the event loop without an await between them.  The    *)
(* two kinds of request keep separate windows, so a behaviour follows one. *)
(*                                                                         *)
(* Seconds are abstract ticks of time.monotonic; a window is a set of      *)
(* stamps, numbered so that two of the same tick stay apart.               *)
(***************************************************************************)
EXTENDS Integers, FiniteSets

CONSTANTS Exchanges,     \* the handler threads that can be inside the route
          AttemptLimit, AttemptWindow,
          FailureLimit, FailureWindow,     \* one of each per kind of request
          Lockout,
          MaxTime, MaxStamps   \* bounds of the clock and of the stamps ever made

Guards == {"session", "api"}

ASSUME LimitsAssumption ==
    /\ IsFiniteSet(Exchanges)
    /\ AttemptLimit \in Nat \ {0} /\ AttemptWindow \in Nat \ {0}
    /\ FailureLimit \in [Guards -> Nat \ {0}]
    /\ FailureWindow \in [Guards -> Nat \ {0}]
    /\ Lockout \in [Guards -> Nat \ {0}]

VARIABLES
    guard,        \* the kind of request followed, fixed by Init
    clock,
    attempts,     \* _session_attempts: stamps of admitted exchanges
    failures,     \* _session_failures or _auth_failures
    lockUntil,    \* _session_lock_until or _auth_lock_until, 0 when absent
    inRoute,      \* exchanges admitted whose outcome is not recorded yet
    stamps,       \* how many stamps have been made
    admitted,     \* every exchange ever admitted: history
    lastFailure   \* when a failure was last recorded: history

limitVars == <<guard, clock, attempts, failures, lockUntil, inRoute, stamps,
               admitted, lastFailure>>

Stamp == [at : Nat, number : Nat]
Now == [at |-> clock, number |-> stamps]

LimitTypeOK ==
    /\ guard \in Guards
    /\ clock \in Nat /\ lockUntil \in Nat /\ stamps \in Nat /\ lastFailure \in Nat
    /\ attempts \in SUBSET Stamp /\ IsFiniteSet(attempts)
    /\ failures \in SUBSET Stamp /\ IsFiniteSet(failures)
    /\ admitted \in SUBSET Stamp /\ IsFiniteSet(admitted)
    /\ inRoute \in SUBSET Exchanges

LimitInit ==
    /\ guard \in Guards
    /\ clock = 0 /\ lockUntil = 0 /\ stamps = 0 /\ lastFailure = 0
    /\ attempts = {} /\ failures = {} /\ admitted = {}
    /\ inRoute = {}

-----------------------------------------------------------------------------
\* _prune: the stamps younger than the window.
Recent(times, window) == {t \in times : t.at > clock - window}

\* Mutant: failures are never pruned.
Unpruned == failures

RecentFailures == Recent(failures, FailureWindow[guard])

Locked == lockUntil > clock
AttemptsSpent ==
    guard = "session" /\ Cardinality(Recent(attempts, AttemptWindow)) >= AttemptLimit
FailuresSpent == Cardinality(RecentFailures) >= FailureLimit[guard]

\* The attempt window is only kept for the session exchange.
PruneAttempts ==
    attempts' = IF guard = "session" THEN Recent(attempts, AttemptWindow) ELSE attempts

Tick == /\ clock < MaxTime
        /\ clock' = clock + 1
        /\ UNCHANGED <<guard, attempts, failures, lockUntil, inRoute, stamps, admitted,
                       lastFailure>>

\* _blocked refuses.  A refusal while the lock runs touches nothing; once it
\* has run out, failures still in their window lock the address again.
RefuseAttempt ==
    /\ ~Locked /\ AttemptsSpent
    /\ PruneAttempts
    /\ UNCHANGED <<guard, clock, failures, lockUntil, inRoute, stamps, admitted, lastFailure>>

RefuseFailures ==
    /\ ~Locked /\ ~AttemptsSpent /\ FailuresSpent
    /\ PruneAttempts
    /\ failures' = RecentFailures
    /\ lockUntil' = clock + Lockout[guard]
    /\ UNCHANGED <<guard, clock, inRoute, stamps, admitted, lastFailure>>

\* check_session lets an exchange in and stamps the attempt.
Admit(x) ==
    /\ guard = "session" /\ x \notin inRoute /\ stamps < MaxStamps
    /\ ~Locked /\ ~AttemptsSpent /\ ~FailuresSpent
    /\ attempts' = Recent(attempts, AttemptWindow) \union {Now}
    /\ failures' = RecentFailures
    /\ admitted' = admitted \union {Now}
    /\ stamps' = stamps + 1
    /\ inRoute' = inRoute \union {x}
    /\ UNCHANGED <<guard, clock, lockUntil, lastFailure>>

\* _record_failure on top of the failures known: the limit reached locks.
RecordFailure(known) ==
    LET recorded == known \union {Now}
    IN  /\ failures' = recorded
        /\ lockUntil' = IF Cardinality(recorded) >= FailureLimit[guard]
                        THEN clock + Lockout[guard] ELSE lockUntil
        /\ stamps' = stamps + 1
        /\ lastFailure' = clock

\* The nonce or the token was wrong.
ExchangeFails(x) ==
    /\ x \in inRoute /\ stamps < MaxStamps
    /\ RecordFailure(RecentFailures)
    /\ inRoute' = inRoute \ {x}
    /\ UNCHANGED <<guard, clock, attempts, admitted>>

\* It was right: the address starts again with no failure and no lock.
ExchangeSucceeds(x) ==
    /\ x \in inRoute
    /\ failures' = {}
    /\ lockUntil' = 0
    /\ inRoute' = inRoute \ {x}
    /\ UNCHANGED <<guard, clock, attempts, stamps, admitted, lastFailure>>

\* security_boundary: check, validate and record in one run of the event loop.
ApiAccepted ==
    /\ guard = "api" /\ ~Locked /\ ~FailuresSpent
    /\ failures' = RecentFailures
    /\ UNCHANGED <<guard, clock, attempts, lockUntil, inRoute, stamps, admitted, lastFailure>>

ApiRefused ==
    /\ guard = "api" /\ ~Locked /\ ~FailuresSpent /\ stamps < MaxStamps
    /\ RecordFailure(RecentFailures)
    /\ UNCHANGED <<guard, clock, attempts, inRoute, admitted>>

LimitNext ==
    \/ Tick
    \/ RefuseAttempt \/ RefuseFailures
    \/ ApiAccepted \/ ApiRefused
    \/ \E x \in Exchanges : Admit(x) \/ ExchangeFails(x) \/ ExchangeSucceeds(x)

LimitSpec == LimitInit /\ [][LimitNext]_limitVars

-----------------------------------------------------------------------------
\* Within any window of AttemptWindow seconds at most AttemptLimit exchanges
\* are let in, although the window is pruned, filled and read by threads that
\* interleave and a success forgets the failures but not the attempts
\* (check_session).
AttemptsBounded ==
    \A last \in admitted :
        Cardinality({a \in admitted : last.at - AttemptWindow < a.at /\ a.at <= last.at})
            <= AttemptLimit

\* A lock ends: however often refused requests renew it, it never reaches
\* further than a failure window and a lockout past the last failure that was
\* really recorded (_blocked, _record_failure).
LockoutEnds == lockUntil < lastFailure + FailureWindow[guard] + Lockout[guard]

\* Failures overshoot the limit by no more than the exchanges that were already
\* past the check when the limit was reached, because check and record are two
\* critical sections; the middleware, which does not let go in between, does
\* not overshoot at all.
OvershootBounded ==
    /\ guard = "session" =>
         Cardinality(failures) + Cardinality(inRoute)
            <= FailureLimit[guard] - 1 + Cardinality(Exchanges)
    /\ guard = "api" => Cardinality(failures) <= FailureLimit[guard]
=============================================================================
