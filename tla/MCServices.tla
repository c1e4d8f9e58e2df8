------------------------------ MODULE MCServices ------------------------------
(***************************************************************************)
(* What runs beside a turn or shows it: the naming of threads              *)
(* (ThreadNames), the beat of a worker (Heartbeat) and the trace a reader  *)
(* sees of a message (ClientTrace).  They share no state, so a behaviour   *)
(* follows the one it begins with, and the others stand still.             *)
(***************************************************************************)
EXTENDS ThreadNames, Heartbeat, TLC

CONSTANTS
    Dispatches, Lanes, Phases, MaxParts, MaxSpend, None

VARIABLES
    service,                                        \* the one that is followed
    folded, beside, turn, spent, newest             \* ClientTrace

traceVars == <<folded, beside, turn, spent, newest>>

\* Every call of the lead runs a sub-agent.
Shown == INSTANCE ClientTrace WITH Calls <- Dispatches

ASSUME ServicesAssumption == Shown!TraceAssumption

Services == {"names", "beat", "trace"}

ServicesInit ==
    /\ service \in Services
    /\ Init
    /\ BeatInit
    /\ Shown!Init

ServicesNext ==
    /\ UNCHANGED service
    /\ \/ service = "names" /\ Next
       \/ service # "names" /\ UNCHANGED vars
    /\ \/ service = "beat" /\ BeatNext
       \/ service # "beat" /\ UNCHANGED beatVars
    /\ \/ service = "trace" /\ Shown!Next
       \/ service # "trace" /\ UNCHANGED traceVars

ServicesSpec == ServicesInit /\ [][ServicesNext]_<<vars, beatVars, traceVars, service>>

\* Requests are interchangeable, dispatches, and phases; no property is a liveness.
Symmetry ==
    Permutations(Requests) \cup Permutations(Dispatches) \cup Permutations(Phases)

\* Both reducers' shapes and the status line show one trace (ClientTrace).
ReadersAgree == Shown!ReadersAgree

\* Nothing is shown as running once its turn is over (ClientTrace).
NothingRunsOn == Shown!NothingRunsOn

\* Everything a message holds is shown once (ClientTrace).
ShownWhole == Shown!ShownWhole

=============================================================================
