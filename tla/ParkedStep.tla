------------------------------ MODULE ParkedStep ------------------------------
(***************************************************************************)
(* What durable tasks promise their thread, whatever runs them: a step of   *)
(* deferred calls waits until each of its tasks has an outcome, is answered *)
(* with exactly those outcomes, and is never waited for again. Workers,     *)
(* sweeps, jobs, leases and deaths are DurableTasks' business.              *)
(***************************************************************************)
EXTENDS Naturals

CONSTANT Tasks

Outcome == {"ready", "complete", "failed"}
State   == {"absent", "working"} \cup Outcome

VARIABLES
    state,   \* what the task came to so far
    parked,  \* the tasks the thread's last step waits for
    told     \* the answers turns were opened with

vars == <<state, parked, told>>

Init ==
    /\ state = [t \in Tasks |-> "absent"]
    /\ parked = {}
    /\ told = [t \in Tasks |-> {}]

Answer(s) == IF s = "failed" THEN "failed" ELSE "success"

Become(t, s) ==
    /\ state' = [state EXCEPT ![t] = s]
    /\ UNCHANGED <<parked, told>>

Create(t) == state[t] = "absent" /\ Become(t, "working")

\* The queue refused the task: no step can be waiting for it.
Discard(t) == state[t] = "working" /\ t \notin parked /\ Become(t, "absent")

\* The tool produced a result, or the task died or raised.
Report(t) == state[t] = "working" /\ \E s \in {"ready", "failed"} : Become(t, s)

\* The turn that used the result ended.
Close(t) == state[t] = "ready" /\ \E s \in {"complete", "failed"} : Become(t, s)

\* A turn is opened with the outcome of every task of the step.
Open ==
    /\ parked # {} /\ \A t \in parked : state[t] \in Outcome
    /\ told' = [t \in Tasks |-> IF t \in parked THEN told[t] \cup {Answer(state[t])}
                                ELSE told[t]]
    /\ UNCHANGED <<state, parked>>

\* A turn ended: the thread waits for what it deferred, and for nothing that
\* an earlier turn was told.
Park ==
    /\ \E step \in SUBSET {t \in Tasks : state[t] # "absent" /\ told[t] = {}} : parked' = step
    /\ UNCHANGED <<state, told>>

Next ==
    \/ \E t \in Tasks : Create(t) \/ Discard(t) \/ Report(t) \/ Close(t)
    \/ Open
    \/ Park

Spec == Init /\ [][Next]_vars
===============================================================================
