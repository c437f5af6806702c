----------------------------- MODULE Scheduler -----------------------------
(***************************************************************************)
(* Games an admin schedules for later and the bot's background loop that   *)
(* opens them: every tick claims the due rows in one transaction and then  *)
(* works through the claimed list in memory, one game at a time, while     *)
(* admins go on scheduling, cancelling, opening and aborting.  Statements  *)
(* may fail, the process may be asked to stop (its context is cancelled)   *)
(* or crash, and comes back with the table as it was left.                 *)
(*                                                                         *)
(* Time is counted in retry backoffs.  A schedule names a pool set; of the *)
(* games only which sets are open, and of the pools only which sets still  *)
(* fill a card, matter here.  One guild: schedules of guilds only meet in  *)
(* the claimed list.                                                       *)
(***************************************************************************)
EXTENDS Naturals, Sequences, FiniteSets, Functions

CONSTANTS
  PoolSet,       \* sets of pools a schedule can name
  MaxPending,    \* MaxPendingSchedulesPerGuild
  Limit,         \* rows claimed per tick
  Backoff,       \* scheduleRetryBackoffSec
  MaxSchedules,  \* bound: rows ever created
  MaxTime,       \* bound: the clock
  MaxHiccups,    \* bound: failing statements
  MaxStops       \* bound: stops and crashes

ASSUME SchedulerAssumption ==
  /\ MaxPending \in Nat /\ Limit \in Nat \ {0} /\ Backoff \in Nat
  /\ MaxSchedules \in Nat /\ MaxTime \in Nat
  /\ MaxHiccups \in Nat /\ MaxStops \in Nat

VARIABLES
  now,        \* the clock
  rows,       \* scheduled_games: id -> row, a sequence as none is deleted
  claimed,    \* ids the loop holds in memory, in the order it opens them
  at,         \* the now of the claim, from which a retry is counted
  step,       \* what the loop does next to Head(claimed)
  process,    \* "up", "stopping" (context cancelled) or "down"
  open,       \* pool sets with an open game
  fillable,   \* pool sets whose pools exist and fill a card
  opened,     \* id -> how many games the schedule opened (history)
  hiccups, stops

env   == <<open, fillable>>
loop  == <<claimed, at, step>>
vars  == <<now, rows, loop, process, env, opened, hiccups, stops>>

Id == 1 .. MaxSchedules

Row == [set : PoolSet, fireAt : Nat, replace : BOOLEAN,
        status : {"pending", "fired", "skipped", "cancelled"}]

TypeOK ==
  /\ now \in 0 .. MaxTime
  /\ rows \in Seq(Row) /\ Len(rows) <= MaxSchedules
  /\ claimed \in Seq(1 .. Len(rows)) /\ Len(claimed) <= Limit
  /\ at \in Nat
  /\ step \in {"newGame", "skip", "retry"}
  /\ process \in {"up", "stopping", "down"}
  /\ open \subseteq PoolSet /\ fillable \subseteq PoolSet
  /\ opened \in [Id -> Nat]
  /\ hiccups \in 0 .. MaxHiccups /\ stops \in 0 .. MaxStops

Init ==
  /\ now = 0 /\ rows = << >>
  /\ claimed = << >> /\ at = 0 /\ step = "newGame"
  /\ process = "up"
  /\ open = {} /\ fillable = PoolSet
  /\ opened = [id \in Id |-> 0]
  /\ hiccups = 0 /\ stops = 0

Pending == {id \in DOMAIN rows : rows[id].status = "pending"}

\* Mutants: the status is not looked at; the time is not; only the very tick is.
DueWhateverStatus == {id \in DOMAIN rows : rows[id].fireAt <= now}
DueWhateverTime   == Pending
DueOnTheTick      == {id \in Pending : rows[id].fireAt = now}

Due == {id \in Pending : rows[id].fireAt <= now}

SetStatus(id, status) == rows' = [rows EXCEPT ![id].status = status]
-----------------------------------------------------------------------------
(* Admins.  The fire time was checked to be in the future when the command *)
(* was typed, not again when the pools are picked, so it may have passed.  *)

Schedule(set, fireAt, replace) ==
  /\ process = "up"
  /\ Len(rows) < MaxSchedules
  /\ Cardinality(Pending) < MaxPending
  /\ rows' = Append(rows, [set |-> set, fireAt |-> fireAt, replace |-> replace,
                           status |-> "pending"])
  /\ UNCHANGED <<now, loop, process, env, opened, hiccups, stops>>

\* Mutant: any schedule can be cancelled.
CancelAny(id) ==
  /\ process = "up"
  /\ SetStatus(id, "cancelled")
  /\ UNCHANGED <<now, loop, process, env, opened, hiccups, stops>>

Cancel(id) ==
  /\ process = "up"
  /\ id \in Pending
  /\ SetStatus(id, "cancelled")
  /\ UNCHANGED <<now, loop, process, env, opened, hiccups, stops>>

\* A game opened by hand, won or aborted; pools emptied, deleted or refilled.
OthersPlay(set) ==
  /\ open' = IF set \in open THEN open \ {set} ELSE open \cup {set}
  /\ set \notin open => set \in fillable
  /\ UNCHANGED <<now, rows, loop, process, fillable, opened, hiccups, stops>>

OthersEditPools(set) ==
  /\ fillable' = IF set \in fillable THEN fillable \ {set} ELSE fillable \cup {set}
  /\ UNCHANGED <<now, rows, loop, process, open, opened, hiccups, stops>>
-----------------------------------------------------------------------------
(* The loop. *)

Before(a, b) == \/ rows[a].fireAt < rows[b].fireAt
                \/ rows[a].fireAt = rows[b].fireAt /\ a < b

BatchSize == IF Cardinality(Due) < Limit THEN Cardinality(Due) ELSE Limit

\* ORDER BY fire_at LIMIT: there is one such batch.
Batches ==
  {batch \in [1 .. BatchSize -> Due] :
     /\ \A i, j \in 1 .. BatchSize : i < j => Before(batch[i], batch[j])
     /\ \A id \in Due \ Range(batch), i \in 1 .. BatchSize : Before(batch[i], id)}

\* Mutant: the rows are not flipped.
FlippedNot(batch) == rows

Flipped(batch) ==
  [id \in DOMAIN rows |-> IF id \in Range(batch) THEN [rows[id] EXCEPT !.status = "fired"]
                                                ELSE rows[id]]

\* ClaimDueScheduled
Claim ==
  /\ process = "up"
  /\ claimed = << >>
  /\ Due # {}
  /\ \E batch \in Batches :
       /\ claimed' = batch
       /\ rows' = Flipped(batch)
  /\ at' = now
  /\ step' = "newGame"
  /\ UNCHANGED <<now, process, env, opened, hiccups, stops>>

Working == process \in {"up", "stopping"} /\ claimed # << >>
Current == Head(claimed)

\* The end of the list ends the pass, and with it its now.
NextClaimed ==
  /\ claimed' = Tail(claimed)
  /\ step' = "newGame"
  /\ at' = IF Len(claimed) = 1 THEN 0 ELSE at

\* A statement fails by itself, or because its context is cancelled.
Fails    == \/ process = "stopping" /\ hiccups' = hiccups
            \/ hiccups < MaxHiccups /\ hiccups' = hiccups + 1
Succeeds == process = "up" /\ hiccups' = hiccups

\* NewGame refuses for good: ErrValidation, or ErrGameOpen without replace.
Refused == \/ rows[Current].set \notin fillable
           \/ rows[Current].set \in open /\ ~ rows[Current].replace

OpenDue ==
  /\ Working /\ step = "newGame"
  /\ Succeeds
  /\ ~ Refused
  /\ open' = open \cup {rows[Current].set}
  /\ opened' = [opened EXCEPT ![Current] = @ + 1]
  /\ NextClaimed
  /\ UNCHANGED <<now, rows, process, fillable, stops>>

RefuseDue ==
  /\ Working /\ step = "newGame"
  /\ Succeeds
  /\ Refused
  /\ step' = "skip"
  /\ UNCHANGED <<now, rows, claimed, at, process, env, opened, stops>>

FailDue ==
  /\ Working /\ step = "newGame"
  /\ Fails
  /\ step' = "retry"
  /\ UNCHANGED <<now, rows, claimed, at, process, env, opened, stops>>

\* Both results are discarded (_ =): if the UPDATE fails the row stays fired.
MarkSkipped ==
  /\ Working /\ step = "skip"
  /\ \/ Succeeds /\ SetStatus(Current, "skipped")
     \/ Fails /\ UNCHANGED rows
  /\ NextClaimed
  /\ UNCHANGED <<now, process, env, opened, stops>>

Retry ==
  /\ Working /\ step = "retry"
  /\ \/ /\ Succeeds
        /\ rows' = [rows EXCEPT ![Current] =
                      IF @.status = "fired"
                      THEN [@ EXCEPT !.status = "pending", !.fireAt = at + Backoff]
                      ELSE @]
     \/ Fails /\ UNCHANGED rows
  /\ NextClaimed
  /\ UNCHANGED <<now, process, env, opened, stops>>
-----------------------------------------------------------------------------
(* The process. *)

\* SIGTERM cancels the context the loop works under.
Stop ==
  /\ process = "up"
  /\ stops < MaxStops
  /\ process' = "stopping"
  /\ stops' = stops + 1
  /\ UNCHANGED <<now, rows, loop, env, opened, hiccups>>

\* The process exits, after a Stop or by a crash; what it had claimed is gone.
Exit ==
  /\ \/ process = "stopping" /\ stops' = stops
     \/ process = "up" /\ stops < MaxStops /\ stops' = stops + 1
  /\ process' = "down"
  /\ claimed' = << >> /\ step' = "newGame" /\ at' = 0
  /\ UNCHANGED <<now, rows, env, opened, hiccups>>

Restart ==
  /\ process = "down"
  /\ process' = "up"
  /\ UNCHANGED <<now, rows, loop, env, opened, hiccups, stops>>

TimePasses ==
  /\ now < MaxTime
  /\ now' = now + 1
  /\ UNCHANGED <<rows, loop, process, env, opened, hiccups, stops>>

Admins == \/ \E set \in PoolSet, t \in 1 .. MaxTime, replace \in BOOLEAN :
               Schedule(set, t, replace)
          \/ \E id \in DOMAIN rows : Cancel(id)
          \/ \E set \in PoolSet : OthersPlay(set) \/ OthersEditPools(set)

Work == OpenDue \/ RefuseDue \/ FailDue \/ MarkSkipped \/ Retry

Next == Admins \/ Claim \/ Work \/ Stop \/ Exit \/ Restart \/ TimePasses

Spec == Init /\ [][Next]_vars

\* The ticker keeps ticking, the loop keeps working, a stopped process exits
\* and is restarted (the deployment runs it as a service), and time passes.
FairSpec ==
  /\ Spec
  /\ WF_vars(Claim) /\ WF_vars(Work)
  /\ WF_vars(process = "stopping" /\ Exit) /\ WF_vars(Restart)
  /\ WF_vars(TimePasses)
-----------------------------------------------------------------------------
(* A schedule opens at most one game, whatever is retried, claimed again   *)
(* or interrupted between the claim and the opening; and only a schedule   *)
(* that is still fired has opened one - never one reported as skipped,     *)
(* cancelled, or waiting to fire (again).                                  *)
OneGamePerSchedule ==
  \A id \in Id :
    /\ opened[id] <= 1
    /\ opened[id] = 1 => id \in DOMAIN rows /\ rows[id].status = "fired"

(* The loop holds a schedule at most once, and everything it holds is      *)
(* fired in the table: an admin cannot cancel it any more, and no other    *)
(* pass can claim it.                                                      *)
ClaimedRowsAreFired ==
  /\ \A i, j \in DOMAIN claimed : claimed[i] = claimed[j] => i = j
  /\ \A i \in DOMAIN claimed : rows[claimed[i]].status = "fired"

(* The cap on a guild's pending schedules is checked where one is created  *)
(* (CreateScheduledGame), not where one that failed is put back            *)
(* (RescheduleForRetry), so it is exceeded when admins fill the room a     *)
(* claim has made - but never by more than one batch, however often        *)
(* batches fail, are interrupted and come back.                            *)
CapExceededByOneBatch ==
  Cardinality(Pending) + Len(claimed) <= MaxPending + Limit

(* A schedule never opens a game before its time, and a failed one never   *)
(* before the backoff has passed.                                          *)
NeverEarly ==
  [][ \A id \in Id : opened'[id] # opened[id] => now >= rows[id].fireAt ]_vars

(* Skipped and cancelled are final; a game once opened for a schedule is   *)
(* never taken back to the queue.                                          *)
OutcomesAreFinal ==
  [][ \A id \in DOMAIN rows :
        \/ rows[id].status \in {"skipped", "cancelled"}
        \/ rows[id].status = "fired" /\ opened[id] = 1
        => rows'[id] = rows[id] ]_vars

(* A due schedule does not stay pending for ever: it is claimed or         *)
(* cancelled, across restarts and failures.                                *)
DueIsClaimed ==
  \A id \in Id :
    id \in Due ~> id \in DOMAIN rows /\ rows[id].status # "pending"

(* service/scheduled.go:86: "Transient (e.g. a DB hiccup or a cancelled    *)
(* context): do NOT drop the schedule." - a claimed schedule the loop is   *)
(* done with opened its game, is skipped, or is pending again, also when   *)
(* the context was cancelled on the way.  Fails: the UPDATE that should    *)
(* requeue it runs under the same cancelled context.                       *)
NeverDropped ==
  process = "stopping" =>
    \A id \in DOMAIN rows : rows[id].status = "fired" =>
      opened[id] = 1 \/ id \in Range(claimed)
=============================================================================
