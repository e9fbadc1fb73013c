------------------------------- MODULE MCAccess -------------------------------
\* Who gets in: the rate limiter of one address, and desktop launchers with their
\* servers and nonces.  The two share no state: part says which of them a
\* behaviour follows, and the other rests in one initial state.
EXTENDS RateLimit, Desktop

CONSTANTS x1, x2, l1, l2

VARIABLE part

MCFailureLimit == [session |-> 2, api |-> 3]
MCFailureWindow == [session |-> 4, api |-> 4]
MCLockout == [session |-> 2, api |-> 2]

\* Two windows, a headless server and a window, an AppImage and a window.
MCInstallations ==
    {[l \in Launchers |-> IF l = l1 THEN first ELSE "window"] : first \in Styles}

accessVars == <<part, limitVars, deskVars>>

AccessInit ==
    /\ part \in {"limiter", "desktop"}
    /\ LimitInit /\ (part # "limiter" => guard = "api")
    /\ DeskInit
    /\ part # "desktop" =>
         /\ style = [l \in Launchers |-> "window"]
         /\ listener[HomePort] = Nobody

AccessNext ==
    \/ part = "limiter" /\ LimitNext /\ UNCHANGED <<part, deskVars>>
    \/ part = "desktop" /\ DeskNext /\ UNCHANGED <<part, limitVars>>

OfDesktop(A) == part = "desktop" /\ A /\ UNCHANGED <<part, limitVars>>

\* The fairness of Desktop.
AccessSpec ==
    /\ AccessInit /\ [][AccessNext]_accessVars
    /\ \A l \in Launchers : /\ WF_accessVars(OfDesktop(Launch(l)))
                            /\ WF_accessVars(OfDesktop(Bind(l)))
===============================================================================
