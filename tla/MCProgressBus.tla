---------------------------- MODULE MCProgressBus ----------------------------
(* Instances of ProgressBus and of Strip for TLC.  They share no state: part *)
(* says which of them a behaviour follows, and the other rests in its        *)
(* initial state.                                                            *)
EXTENDS ProgressBus, Strip

CONSTANT c1

JobSizes == <<2, 1>>  \* a job of two files, then one file or a Retry

VARIABLE part

allVars == <<part, vars, stripVars>>

BusStep(A) == part = "bus" /\ A /\ UNCHANGED <<part, stripVars>>

ProgressInit == part \in {"bus", "strip"} /\ Init /\ StripInit

ProgressNext ==
    \/ BusStep(Next)
    \/ part = "strip" /\ StripNext /\ UNCHANGED <<part, vars>>

\* The fairness of ProgressBus; the strip is only checked for safety.
ProgressSpec ==
    /\ ProgressInit /\ [][ProgressNext]_allVars
    /\ WF_allVars(BusStep(WorkerStep)) /\ \A c \in Pages : WF_allVars(BusStep(Send(c)))
=============================================================================
