-------------------------------- MODULE Quota --------------------------------
(***************************************************************************)
(* A user's monthly budget: accumulate, get_period_totals and get_current  *)
(* of quota.py over the rows of `monthly_usage`.                           *)
(*                                                                         *)
(* Turns of several applications add what they cost at the same time, each *)
(* in a transaction its host commits.  The clock is read by each function  *)
(* on its own, so a month can end between any two reads.                   *)
(***************************************************************************)
EXTENDS Naturals, FiniteSets, FiniteSetsExt

CONSTANTS
    Applications,   \* the applications the user drives
    Turns,          \* the turns whose cost is recorded, each once
    Costs,          \* what a turn may cost
    MaxMonth,       \* bound on the months that pass
    NoApp

\* The sum of the values f has on S.
Total(f, S) == MapThenSumSet(LAMBDA x : f[x], S)

Payers == {"deployment", "user"}

ASSUME QuotaAssumption ==
    /\ Costs \subseteq Nat
    /\ IsFiniteSet(Applications) /\ IsFiniteSet(Turns)
    /\ MaxMonth \in Nat
    /\ NoApp \notin Applications

VARIABLES
    month,      \* the clock, in months
    usage,      \* total_cost_usd of the row of a key; 0 while there is none
    turn,       \* the recording of a turn's cost
    reading,    \* the open get_current, and what it has read
    status      \* the last QuotaStatus that was returned

quotaVars == <<month, usage, turn, reading, status>>

UsageKeys == Applications \X (0..MaxMonth) \X Payers

Turn == [step : {"idle", "locked", "waiting", "done"}, app : Applications \cup {NoApp},
         month : 0..MaxMonth, payer : Payers, cost : Nat]

NoTurn == [step |-> "idle", app |-> NoApp, month |-> 0, payer |-> "user", cost |-> 0]

QuotaTypeOK ==
    /\ month \in 0..MaxMonth
    /\ usage \in [UsageKeys -> Nat]
    /\ turn \in [Turns -> Turn]
    /\ reading \in [open : BOOLEAN, of : 0..MaxMonth, used : Nat]
    /\ status \in [of : 0..MaxMonth, used : Nat, resets : 0..(MaxMonth + 1)]

QuotaInit ==
    /\ month = 0
    /\ usage = [k \in UsageKeys |-> 0]
    /\ turn = [t \in Turns |-> NoTurn]
    /\ reading = [open |-> FALSE, of |-> 0, used |-> 0]
    /\ status = [of |-> 0, used |-> 0, resets |-> 1]

-----------------------------------------------------------------------------
current_period_start == month
next_period_start == month + 1

Key(t) == <<turn[t].app, turn[t].month, turn[t].payer>>

Locked(k) == \E u \in Turns : turn[u].step = "locked" /\ Key(u) = k

\* accumulate(): the period is taken from the clock and the upsert runs.  It waits
\* for a transaction that holds the key's row, or is inserting it.
Accumulate(t, app, payer, cost) ==
    /\ turn[t].step = "idle"
    /\ cost > 0
    /\ turn' = [turn EXCEPT ![t] =
           [step |-> IF Locked(<<app, current_period_start, payer>>) THEN "waiting"
                     ELSE "locked",
            app |-> app, month |-> current_period_start, payer |-> payer, cost |-> cost]]
    /\ UNCHANGED <<month, usage, reading, status>>

\* A turn that cost nothing writes nothing.
AccumulateNothing(t) ==
    /\ turn[t].step = "idle"
    /\ turn' = [turn EXCEPT ![t].step = "done"]
    /\ UNCHANGED <<month, usage, reading, status>>

Proceed(t) ==
    /\ turn[t].step = "waiting"
    /\ ~Locked(Key(t))
    /\ turn' = [turn EXCEPT ![t].step = "locked"]
    /\ UNCHANGED <<month, usage, reading, status>>

\* Mutant: a row that is there is overwritten.
CommitOver(t) ==
    /\ turn[t].step = "locked"
    /\ usage' = [usage EXCEPT ![Key(t)] = turn[t].cost]
    /\ turn' = [turn EXCEPT ![t].step = "done"]
    /\ UNCHANGED <<month, reading, status>>

\* The host commits: the row holds its own total and this cost.
CommitCost(t) ==
    /\ turn[t].step = "locked"
    /\ usage' = [usage EXCEPT ![Key(t)] = @ + turn[t].cost]
    /\ turn' = [turn EXCEPT ![t].step = "done"]
    /\ UNCHANGED <<month, reading, status>>

\* The host's transaction ends without a commit, and with it what it added.
RollBackCost(t) ==
    /\ turn[t].step \in {"locked", "waiting"}
    /\ turn' = [turn EXCEPT ![t] = [NoTurn EXCEPT !.step = "done"]]
    /\ UNCHANGED <<month, usage, reading, status>>

-----------------------------------------------------------------------------
\* Mutant: every payer's rows are summed.
TotalsOfAll(m, payer) == Total(usage, {k \in UsageKeys : k[2] = m})

\* get_period_totals: one payer's rows of every application in the period.
get_period_totals(m, payer) ==
    Total(usage, {k \in UsageKeys : k[2] = m /\ k[3] = payer})

\* get_current(): the totals first, under one reading of the clock.
ReadTotals ==
    /\ ~reading.open
    /\ reading' = [open |-> TRUE, of |-> current_period_start,
                   used |-> get_period_totals(current_period_start, "deployment")]
    /\ UNCHANGED <<month, usage, turn, status>>

\* The status is built, under another.
ReturnStatus ==
    /\ reading.open
    /\ reading' = [reading EXCEPT !.open = FALSE]
    /\ status' = [of |-> reading.of, used |-> reading.used, resets |-> next_period_start]
    /\ UNCHANGED <<month, usage, turn>>

MonthEnds ==
    /\ month < MaxMonth
    /\ month' = month + 1
    /\ UNCHANGED <<usage, turn, reading, status>>

QuotaNext ==
    \/ \E t \in Turns :
          \/ \E app \in Applications, payer \in Payers, cost \in Costs :
                Accumulate(t, app, payer, cost)
          \/ AccumulateNothing(t) \/ Proceed(t) \/ CommitCost(t) \/ RollBackCost(t)
    \/ ReadTotals \/ ReturnStatus
    \/ MonthEnds

QuotaSpec == QuotaInit /\ [][QuotaNext]_quotaVars

-----------------------------------------------------------------------------
(* Properties.                                                              *)

\* "Accumulation is an upsert on the user, the application, the period and the
\* payer": a row holds the cost of every turn that was recorded under its key and
\* of no other, however the recordings of turns overlap.
SpendCounted ==
    \A k \in UsageKeys :
        usage[k] = Total([t \in Turns |-> turn[t].cost],
                         {t \in Turns : turn[t].step = "done" /\ Key(t) = k})

DeploymentSpend(m) ==
    Total([a \in Applications |-> usage[<<a, m, "deployment">>]], Applications)

\* "Spend on the user's own key does not count against the limit": what a status
\* holds the user to is never more than the deployment paid in its month, over
\* every application.
CapIsDeployment == status.used <= DeploymentSpend(status.of)

\* What a user is held to is what was spent, once, by whom it was paid.
BudgetHolds == SpendCounted /\ CapIsDeployment

\* "Snapshot of a user's current monthly quota": the spend of a status is of the
\* month whose end it names.
StatusOfOneMonth == status.resets = status.of + 1

=============================================================================
