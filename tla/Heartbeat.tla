------------------------------ MODULE Heartbeat ------------------------------
(***************************************************************************)
(* The beat of a worker and the sweep that reads it: HeartbeatThread of    *)
(* tasks/heartbeat.py, the dead-worker half of tasks/maintenance.py, and   *)
(* the bound platform/config.py puts between the two.                      *)
(*                                                                         *)
(* The beat runs in a thread with an event loop of its own, so a job that  *)
(* holds the worker's loop does not hold it.  Time passes in ticks: the    *)
(* thread tries a beat Interval after the last one landed or failed, and a *)
(* write may be refused, hang, or raise what _beat does not catch, which   *)
(* ends the thread while the worker lives on.                              *)
(***************************************************************************)
EXTENDS Integers

CONSTANTS
    Interval,   \* worker_heartbeat_interval_seconds, in ticks
    Window,     \* worker_dead_heartbeat_seconds, in ticks
    Delay,      \* what a write of the beat takes, unless it hangs
    MaxLost     \* the refused beats in a row the window has room for

\* The settings refuse an interval that leaves fewer than three beats inside the
\* window.  How many refused beats that leaves room for depends on how long the
\* database takes to write or refuse one.
ASSUME HeartbeatAssumption ==
    /\ Interval \in Nat \ {0}
    /\ Window \in Nat
    /\ Delay \in Nat
    /\ MaxLost \in Nat
    /\ 3 * Interval <= Window
    /\ (MaxLost + 1) * (Interval + Delay) <= Window

VARIABLES
    worker,     \* "starting", "running", "stopped" (left in order), "killed"
    blocked,    \* a job holds the worker's event loop
    beat,       \* "waiting" for the interval, "writing", "ended", "died"
    elapsed,    \* ticks in this step of the beat
    lost,       \* refused beats since the last one that landed: more than
                \* MaxLost also where a write hung
    stopping,   \* the thread has been told to stop
    age,        \* ticks since procrastinate_workers.last_heartbeat
    released    \* the sweep read the worker as dead and failed its jobs

beatVars == <<worker, blocked, beat, elapsed, lost, stopping, age, released>>

BeatTypeOK ==
    /\ worker \in {"starting", "running", "stopped", "killed"}
    /\ blocked \in BOOLEAN
    /\ beat \in {"waiting", "writing", "ended", "died"}
    /\ elapsed \in Nat
    /\ lost \in 0..(MaxLost + 1)
    /\ stopping \in BOOLEAN
    /\ age \in Nat
    /\ released \in BOOLEAN

\* The thread starts before the worker registers, and tries a beat at once.
BeatInit ==
    /\ worker = "starting"
    /\ blocked = FALSE
    /\ beat = "waiting"
    /\ elapsed = Interval
    /\ lost = 0
    /\ stopping = FALSE
    /\ age = 0
    /\ released = FALSE

\* The worker registers itself, which writes its first heartbeat.
Register ==
    /\ worker = "starting"
    /\ worker' = "running"
    /\ age' = 0
    /\ UNCHANGED <<blocked, beat, elapsed, lost, stopping, released>>

\* A job makes a synchronous call, and the loop is free again.
HoldLoop ==
    /\ worker = "running"
    /\ blocked' = ~blocked
    /\ UNCHANGED <<worker, beat, elapsed, lost, stopping, age, released>>

\* _run: the interval is over.  A worker without an id has no row to write.
TryBeat ==
    /\ beat = "waiting"
    /\ elapsed = Interval
    /\ ~stopping
    /\ worker \in {"starting", "running"}
    /\ elapsed' = 0
    /\ beat' = IF worker = "starting" THEN "waiting" ELSE "writing"
    /\ UNCHANGED <<worker, blocked, lost, stopping, age, released>>

\* _beat: the row is refreshed.
BeatLands ==
    /\ beat = "writing"
    /\ worker # "killed"
    /\ age' = 0
    /\ lost' = 0
    /\ beat' = "waiting"
    /\ elapsed' = 0
    /\ UNCHANGED <<worker, blocked, stopping, released>>

\* _beat: the database refuses (OSError, SQLAlchemyError); the thread goes on.
BeatFails ==
    /\ beat = "writing"
    /\ worker # "killed"
    /\ lost' = IF lost > MaxLost THEN lost ELSE lost + 1
    /\ beat' = "waiting"
    /\ elapsed' = 0
    /\ UNCHANGED <<worker, blocked, stopping, age, released>>

\* _beat: any other exception leaves the loop of _run, and the thread is gone.  The
\* worker is not told.
BeatRaises ==
    /\ beat = "writing"
    /\ worker # "killed"
    /\ beat' = "died"
    /\ elapsed' = 0
    /\ UNCHANGED <<worker, blocked, lost, stopping, age, released>>

\* stop(), after the worker has left its run: the wait is cut short.
Stop ==
    /\ worker = "running"
    /\ ~blocked
    /\ worker' = "stopped"
    /\ stopping' = TRUE
    /\ UNCHANGED <<blocked, beat, elapsed, lost, age, released>>

EndBeat ==
    /\ stopping
    /\ beat = "waiting"
    /\ beat' = "ended"
    /\ elapsed' = 0
    /\ UNCHANGED <<worker, blocked, lost, stopping, age, released>>

\* The process dies, and its threads with it.  One that has not registered leaves
\* nothing to read.
Kill ==
    /\ worker = "running"
    /\ worker' = "killed"
    /\ blocked' = FALSE
    /\ beat' = "ended"
    /\ elapsed' = 0
    /\ UNCHANGED <<lost, stopping, age, released>>

\* Mutant: the beat is a task on the loop the jobs run on.
DueOnLoop == beat = "waiting" /\ ((elapsed = Interval /\ ~blocked) \/ stopping)

\* The wait is over.  A tick does not pass while the thread has to go on.
Due == beat = "waiting" /\ (elapsed = Interval \/ stopping)

\* A write that is not over after Delay hangs: there is no timeout on it.  Past the
\* window the age of the row tells nothing more.
Tick ==
    /\ ~Due
    /\ LET hangs == beat = "writing" /\ elapsed = Delay IN
       /\ elapsed' = IF hangs \/ beat \in {"ended", "died"} THEN elapsed ELSE elapsed + 1
       /\ lost' = IF hangs THEN MaxLost + 1 ELSE lost
    /\ age' = IF age > Window \/ worker = "starting" THEN age ELSE age + 1
    /\ UNCHANGED <<worker, blocked, beat, stopping, released>>

\* release_stalled_jobs over _dead_workers_jobs: the jobs of a worker whose row is
\* older than the window are failed.
Sweep ==
    /\ worker \in {"running", "killed"}
    /\ age > Window
    /\ released' = TRUE
    /\ UNCHANGED <<worker, blocked, beat, elapsed, lost, stopping, age>>

BeatNext ==
    \/ Register \/ HoldLoop
    \/ TryBeat \/ BeatLands \/ BeatFails \/ BeatRaises
    \/ Stop \/ EndBeat \/ Kill
    \/ Tick \/ Sweep

BeatSpec == BeatInit /\ [][BeatNext]_beatVars

-----------------------------------------------------------------------------
\* The sweep takes the jobs of a worker that is alive only where its beat is gone:
\* the thread died on an exception _beat does not catch, a write hung, or more beats
\* in a row were refused than the window has room for.  A job that holds the
\* worker's loop never costs it its jobs (_dead_workers_jobs).
LiveIsNotDead ==
    [][released' # released => \/ worker = "killed"
                               \/ beat = "died"
                               \/ lost > MaxLost]_beatVars

=============================================================================
