-------------------------- MODULE SchedulerProofs --------------------------
(***************************************************************************)
(* For any limit, backoff and number of schedules, however the loop's      *)
(* statements fail and the process stops, crashes and starts again: one    *)
(* game per schedule, never early, outcomes stay, and pending schedules    *)
(* exceed their cap by one batch at most.                                  *)
(***************************************************************************)
EXTENDS Scheduler, FiniteSetTheorems, TLAPS

\* What the loop still holds has opened nothing, and its time has come.
ClaimedRowsWait ==
  \A i \in DOMAIN claimed :
    opened[claimed[i]] = 0 /\ rows[claimed[i]].fireAt <= now

IInv == TypeOK /\ ClaimedRowsAreFired /\ ClaimedRowsWait /\ OneGamePerSchedule

--------------------------------------------------------------------------------
(* Sequences. *)

\* The first of a list and the rest of it.
LEMMA HeadAndTail ==
  ASSUME NEW S, NEW s \in Seq(S), s # << >>
  PROVE  /\ Len(s) \in Nat \ {0} /\ 1 \in DOMAIN s
         /\ Head(s) = s[1] /\ s[1] \in S
         /\ Tail(s) \in Seq(S) /\ Len(Tail(s)) = Len(s) - 1
         /\ \A i \in DOMAIN Tail(s) : i + 1 \in DOMAIN s /\ Tail(s)[i] = s[i + 1]
OBVIOUS

\* A list over a set is one over a larger set.
LEMMA ListOverMore ==
  ASSUME NEW S, NEW T, S \subseteq T, NEW s \in Seq(S)
  PROVE  s \in Seq(T)
<1>1. \A i \in 1 .. Len(s) : s[i] \in T
  OBVIOUS
<1>2. s = [i \in 1 .. Len(s) |-> s[i]] /\ Len(s) \in Nat
  OBVIOUS
<1> QED BY <1>1, <1>2

\* Appending a row keeps the others.
LEMMA Appended ==
  ASSUME NEW S, NEW s \in Seq(S), NEW e \in S
  PROVE  /\ Append(s, e) \in Seq(S) /\ Len(Append(s, e)) = Len(s) + 1
         /\ DOMAIN s = 1 .. Len(s) /\ DOMAIN Append(s, e) = 1 .. Len(s) + 1
         /\ \A i \in DOMAIN s : Append(s, e)[i] = s[i]
OBVIOUS

\* Changing rows in place.
LEMMA RowsChanged ==
  ASSUME NEW S, NEW s \in Seq(S), NEW t, DOMAIN t = DOMAIN s,
         t = [i \in DOMAIN s |-> t[i]], \A i \in DOMAIN s : t[i] \in S
  PROVE  t \in Seq(S) /\ Len(t) = Len(s)
<1>1. DOMAIN s = 1 .. Len(s) /\ Len(s) \in Nat
  OBVIOUS
<1>2. t \in [1 .. Len(s) -> S]
  BY <1>1
<1> QED BY <1>1, <1>2

\* Changing one row.
LEMMA RowReplaced ==
  ASSUME NEW S, NEW s \in Seq(S), NEW i \in DOMAIN s, NEW e \in S
  PROVE  [s EXCEPT ![i] = e] \in Seq(S) /\ Len([s EXCEPT ![i] = e]) = Len(s)
OBVIOUS

\* A function on 1 .. n is a list.
LEMMA FunctionsAreLists ==
  ASSUME NEW S, NEW n \in Nat, NEW f \in [1 .. n -> S]
  PROVE  f \in Seq(S) /\ Len(f) = n /\ DOMAIN f = 1 .. n
OBVIOUS

\* What the types say of ids and times.
LEMMA TypeFacts ==
  ASSUME TypeOK
  PROVE  /\ now \in Nat /\ at \in Nat /\ opened \in [Id -> Nat]
         /\ rows \in Seq(Row) /\ Len(rows) \in Nat /\ Len(rows) <= MaxSchedules
         /\ DOMAIN rows = 1 .. Len(rows) /\ DOMAIN rows \subseteq Id
         /\ \A i \in DOMAIN rows : rows[i] \in Row
         /\ claimed \in Seq(1 .. Len(rows)) /\ Len(claimed) <= Limit
         /\ \A i \in DOMAIN claimed : claimed[i] \in DOMAIN rows
<1>1. now \in Nat /\ at \in Nat /\ opened \in [Id -> Nat]
  BY SchedulerAssumption DEF TypeOK
<1>2. /\ rows \in Seq(Row) /\ Len(rows) \in Nat /\ Len(rows) <= MaxSchedules
      /\ DOMAIN rows = 1 .. Len(rows)
  BY DEF TypeOK
<1>3. DOMAIN rows \subseteq Id
  BY <1>2, SchedulerAssumption DEF Id
<1>4. \A i \in DOMAIN rows : rows[i] \in Row
  BY <1>2
<1>5. claimed \in Seq(1 .. Len(rows)) /\ Len(claimed) <= Limit
  BY DEF TypeOK
<1>6. \A i \in DOMAIN claimed : claimed[i] \in DOMAIN rows
  BY <1>2, <1>5
<1> QED BY <1>1, <1>2, <1>3, <1>4, <1>5, <1>6

--------------------------------------------------------------------------------
(* What ClaimDueScheduled takes. *)

\* A batch is a list of due rows, each once, at most Limit of them.
LEMMA BatchFacts ==
  ASSUME TypeOK, NEW batch \in Batches
  PROVE  /\ batch \in Seq(1 .. Len(rows)) /\ Len(batch) <= Limit
         /\ \A i \in DOMAIN batch : batch[i] \in Due
         /\ \A i, j \in DOMAIN batch : batch[i] = batch[j] => i = j
<1>1. DOMAIN rows = 1 .. Len(rows) /\ Len(rows) \in Nat
  BY TypeFacts
<1>2. Due \subseteq 1 .. Len(rows)
  BY <1>1 DEF Due, Pending
<1>3. IsFiniteSet(Due)
  <2>1. IsFiniteSet(1 .. Len(rows))
    BY <1>1, FS_Interval
  <2> QED BY <1>2, <2>1, FS_Subset
<1>4. Cardinality(Due) \in Nat
  BY <1>3, FS_CardinalityType
<1>5. BatchSize \in Nat /\ BatchSize <= Limit
  BY <1>4, SchedulerAssumption DEF BatchSize
<1>6. /\ batch \in [1 .. BatchSize -> Due]
      /\ \A i, j \in 1 .. BatchSize : i < j => Before(batch[i], batch[j])
  BY DEF Batches
<1>7. /\ batch \in Seq(1 .. Len(rows)) /\ Len(batch) = BatchSize
      /\ DOMAIN batch = 1 .. BatchSize
  <2>1. batch \in [1 .. BatchSize -> 1 .. Len(rows)]
    BY <1>2, <1>6
  <2>2. BatchSize \in Nat
    BY <1>5
  <2> QED BY <2>1, <2>2, FunctionsAreLists
<1>8. \A id \in Due : ~ Before(id, id)
  <2> SUFFICES ASSUME NEW id \in Due PROVE ~ Before(id, id)
    OBVIOUS
  <2>1. id \in Nat /\ rows[id].fireAt \in Nat
    <3>1. rows[id] \in Row /\ id \in Nat
      BY <1>1, <1>2, TypeFacts
    <3> QED BY <3>1 DEF Row
  <2> QED BY <2>1 DEF Before
<1>9. ASSUME NEW i \in DOMAIN batch, NEW j \in DOMAIN batch, batch[i] = batch[j]
      PROVE  i = j
  <2>1. i \in 1 .. BatchSize /\ j \in 1 .. BatchSize /\ batch[i] \in Due
    BY <1>6
  <2>2. ~ (i < j) /\ ~ (j < i)
    BY <1>6, <1>8, <1>9, <2>1
  <2> QED BY <1>5, <2>1, <2>2
<1> QED BY <1>5, <1>6, <1>7, <1>9

--------------------------------------------------------------------------------
(* The inductive invariant. *)

\* Nothing is scheduled at first.
LEMMA InitIInv == Init => IInv
<1> SUFFICES ASSUME Init PROVE IInv
  OBVIOUS
<1>1. TypeOK
  BY SchedulerAssumption DEF Init, TypeOK, Id
<1>2. ClaimedRowsAreFired /\ ClaimedRowsWait /\ OneGamePerSchedule
  BY DEF Init, ClaimedRowsAreFired, ClaimedRowsWait, OneGamePerSchedule, Id
<1> QED BY <1>1, <1>2 DEF IInv

\* A new schedule is a new row: nothing the loop holds changes.
LEMMA ScheduleIInv ==
  ASSUME IInv, NEW set \in PoolSet, NEW t \in 1 .. MaxTime, NEW replace \in BOOLEAN,
         Schedule(set, t, replace)
  PROVE  IInv'
<1> DEFINE row == [set |-> set, fireAt |-> t, replace |-> replace, status |-> "pending"]
<1>1. /\ rows' = Append(rows, row) /\ Len(rows) < MaxSchedules
      /\ UNCHANGED <<now, claimed, at, step, process, open, fillable, opened, hiccups, stops>>
  BY DEF Schedule, loop, env
<1>2. row \in Row
  BY SchedulerAssumption DEF Row
<1>3. rows \in Seq(Row)
  BY DEF IInv, TypeOK
<1> HIDE DEF row
<1>4. /\ rows' \in Seq(Row) /\ Len(rows') = Len(rows) + 1
      /\ DOMAIN rows = 1 .. Len(rows) /\ DOMAIN rows' = 1 .. Len(rows) + 1
      /\ \A i \in DOMAIN rows : rows'[i] = rows[i]
  BY <1>1, <1>2, <1>3, Appended
<1>5. claimed \in Seq(1 .. Len(rows)) /\ \A i \in DOMAIN claimed : claimed[i] \in DOMAIN rows
  BY <1>4 DEF IInv, TypeOK
<1>6. claimed' \in Seq(1 .. Len(rows'))
  <2>1. Len(rows) \in Nat
    BY <1>3
  <2>2. 1 .. Len(rows) \subseteq 1 .. Len(rows')
    BY <1>4, <2>1
  <2> QED BY <1>1, <1>5, <2>2, ListOverMore
<1>7. TypeOK'
  <2>1. Len(rows') <= MaxSchedules
    BY <1>1, <1>3, <1>4, SchedulerAssumption
  <2> QED BY <1>1, <1>4, <1>6, <2>1 DEF IInv, TypeOK, Id
<1>8. ClaimedRowsAreFired' /\ ClaimedRowsWait'
  BY <1>1, <1>4, <1>5 DEF IInv, ClaimedRowsAreFired, ClaimedRowsWait
<1>9. OneGamePerSchedule'
  BY <1>1, <1>3, <1>4 DEF IInv, OneGamePerSchedule
<1> QED BY <1>7, <1>8, <1>9 DEF IInv

\* A cancelled schedule was pending: the loop does not hold it.
LEMMA CancelIInv ==
  ASSUME IInv, NEW id \in DOMAIN rows, Cancel(id)
  PROVE  IInv'
<1>1. /\ rows' = [rows EXCEPT ![id].status = "cancelled"] /\ rows[id].status = "pending"
      /\ UNCHANGED <<now, claimed, at, step, process, open, fillable, opened, hiccups, stops>>
  BY DEF Cancel, Pending, SetStatus, loop, env
<1>2. rows \in Seq(Row) /\ \A i \in DOMAIN rows : rows[i] \in Row
  BY DEF IInv, TypeOK
<1>3. /\ DOMAIN rows' = DOMAIN rows
      /\ \A i \in DOMAIN rows : i # id => rows'[i] = rows[i]
      /\ \A i \in DOMAIN rows : rows'[i] \in Row
      /\ rows' = [i \in DOMAIN rows |-> rows'[i]]
  BY <1>1, <1>2 DEF Row
<1>4. rows' \in Seq(Row) /\ Len(rows') = Len(rows)
  BY <1>2, <1>3, RowsChanged
<1>5. TypeOK'
  BY <1>1, <1>4 DEF IInv, TypeOK, Id
<1>6. \A i \in DOMAIN claimed : claimed[i] \in DOMAIN rows /\ claimed[i] # id
  BY <1>1 DEF IInv, TypeOK, ClaimedRowsAreFired
<1>7. ClaimedRowsAreFired' /\ ClaimedRowsWait'
  BY <1>1, <1>3, <1>6 DEF IInv, ClaimedRowsAreFired, ClaimedRowsWait
<1>8. OneGamePerSchedule'
  BY <1>1, <1>3 DEF IInv, OneGamePerSchedule
<1> QED BY <1>5, <1>7, <1>8 DEF IInv

\* A claim takes pending rows, which have opened nothing.
LEMMA ClaimIInv == ASSUME IInv, Claim PROVE IInv'
<1>0. PICK batch \in Batches : claimed' = batch /\ rows' = Flipped(batch)
  BY DEF Claim
<1>1. /\ at' = now /\ step' = "newGame"
      /\ UNCHANGED <<now, process, open, fillable, opened, hiccups, stops>>
  BY DEF Claim, env
<1>2. /\ batch \in Seq(1 .. Len(rows)) /\ Len(batch) <= Limit
      /\ \A i \in DOMAIN batch : batch[i] \in Due
      /\ \A i, j \in DOMAIN batch : batch[i] = batch[j] => i = j
  BY BatchFacts DEF IInv
<1>3. rows \in Seq(Row) /\ \A i \in DOMAIN rows : rows[i] \in Row
  BY TypeFacts DEF IInv
<1>4. /\ DOMAIN rows' = DOMAIN rows
      /\ \A i \in DOMAIN rows :
           rows'[i] = IF i \in Range(batch) THEN [rows[i] EXCEPT !.status = "fired"] ELSE rows[i]
      /\ rows' = [i \in DOMAIN rows |-> rows'[i]]
  BY <1>0 DEF Flipped
<1>5. \A i \in DOMAIN rows :
        /\ rows'[i] \in Row /\ rows'[i].fireAt = rows[i].fireAt
        /\ i \in Range(batch) => rows'[i].status = "fired"
        /\ i \notin Range(batch) => rows'[i] = rows[i]
  <2> SUFFICES ASSUME NEW i \in DOMAIN rows
               PROVE  /\ rows'[i] \in Row /\ rows'[i].fireAt = rows[i].fireAt
                      /\ i \in Range(batch) => rows'[i].status = "fired"
                      /\ i \notin Range(batch) => rows'[i] = rows[i]
    OBVIOUS
  <2>1. rows[i] \in Row
    BY <1>3
  <2>2. CASE i \in Range(batch)
    <3>1. rows'[i] = [rows[i] EXCEPT !.status = "fired"]
      BY <1>4, <2>2
    <3> QED BY <2>1, <2>2, <3>1 DEF Row
  <2>3. CASE i \notin Range(batch)
    BY <1>4, <2>1, <2>3
  <2> QED BY <2>2, <2>3
<1>6. rows' \in Seq(Row) /\ Len(rows') = Len(rows)
  <2>1. \A i \in DOMAIN rows : rows'[i] \in Row
    BY <1>5
  <2>2. DOMAIN rows' = DOMAIN rows /\ rows' = [i \in DOMAIN rows |-> rows'[i]]
    BY <1>4
  <2> QED BY <1>3, <2>1, <2>2, RowsChanged
<1>7. TypeOK'
  <2>1. now \in Nat
    BY TypeFacts DEF IInv
  <2> QED BY <1>0, <1>1, <1>2, <1>6, <2>1 DEF IInv, TypeOK, Id
<1>8. \A id \in Due : /\ id \in DOMAIN rows /\ rows[id].status = "pending"
                      /\ rows[id].fireAt <= now /\ opened[id] = 0
  <2> SUFFICES ASSUME NEW id \in Due
               PROVE  /\ id \in DOMAIN rows /\ rows[id].status = "pending"
                      /\ rows[id].fireAt <= now /\ opened[id] = 0
    OBVIOUS
  <2>1. id \in DOMAIN rows /\ rows[id].status = "pending" /\ rows[id].fireAt <= now
    BY DEF Due, Pending
  <2>2. id \in Id
    BY <2>1, TypeFacts DEF IInv
  <2>3. opened[id] \in Nat /\ opened[id] <= 1 /\ opened[id] # 1
    BY <2>1, <2>2, TypeFacts DEF IInv, OneGamePerSchedule
  <2> QED BY <2>1, <2>3
<1>9. \A i \in DOMAIN batch : batch[i] \in Range(batch)
  BY DEF Range
<1>10. ClaimedRowsAreFired'
  <2>1. \A i \in DOMAIN batch : rows'[batch[i]].status = "fired"
    <3> SUFFICES ASSUME NEW i \in DOMAIN batch PROVE rows'[batch[i]].status = "fired"
      OBVIOUS
    <3>1. batch[i] \in DOMAIN rows /\ batch[i] \in Range(batch)
      BY <1>2, <1>8, <1>9
    <3> QED BY <1>5, <3>1
  <2> QED BY <1>2, <1>0, <2>1 DEF ClaimedRowsAreFired
<1>11. ClaimedRowsWait'
  <2> SUFFICES ASSUME NEW i \in DOMAIN batch
               PROVE  opened[batch[i]] = 0 /\ rows'[batch[i]].fireAt <= now
    BY <1>0, <1>1 DEF ClaimedRowsWait
  <2>1. batch[i] \in Due
    BY <1>2
  <2>2. batch[i] \in DOMAIN rows /\ opened[batch[i]] = 0 /\ rows[batch[i]].fireAt <= now
    BY <1>8, <2>1
  <2>3. rows'[batch[i]].fireAt = rows[batch[i]].fireAt
    BY <1>5, <2>2
  <2> QED BY <2>2, <2>3
<1>12. \A id \in DOMAIN rows : rows[id].status = "fired" => rows'[id].status = "fired"
  <2> SUFFICES ASSUME NEW id \in DOMAIN rows, rows[id].status = "fired"
               PROVE  rows'[id].status = "fired"
    OBVIOUS
  <2>1. CASE id \in Range(batch)
    BY <1>5, <2>1
  <2>2. CASE id \notin Range(batch)
    <3>1. rows'[id] = rows[id]
      BY <1>5, <2>2
    <3> QED BY <3>1
  <2> QED BY <2>1, <2>2
<1>13. OneGamePerSchedule'
  BY <1>1, <1>4, <1>12 DEF IInv, OneGamePerSchedule
<1> QED BY <1>7, <1>10, <1>11, <1>13 DEF IInv

\* The loop is done with the first of its list.
LEMMA NextClaimedFacts ==
  ASSUME IInv, claimed # << >>, NextClaimed
  PROVE  /\ claimed' \in Seq(1 .. Len(rows)) /\ Len(claimed') <= Limit
         /\ at' \in Nat /\ step' = "newGame"
         /\ Current \in DOMAIN rows
         /\ rows[Current].status = "fired" /\ opened[Current] = 0 /\ rows[Current].fireAt <= now
         /\ \A i \in DOMAIN claimed' :
              /\ claimed'[i] \in DOMAIN rows /\ claimed'[i] # Current
              /\ rows[claimed'[i]].status = "fired"
              /\ opened[claimed'[i]] = 0 /\ rows[claimed'[i]].fireAt <= now
         /\ \A i, j \in DOMAIN claimed' : claimed'[i] = claimed'[j] => i = j
<1>1. claimed \in Seq(1 .. Len(rows)) /\ Len(claimed) <= Limit
  BY TypeFacts DEF IInv
<1>2. /\ Len(claimed) \in Nat \ {0} /\ 1 \in DOMAIN claimed
      /\ Head(claimed) = claimed[1]
      /\ Tail(claimed) \in Seq(1 .. Len(rows)) /\ Len(Tail(claimed)) = Len(claimed) - 1
      /\ \A i \in DOMAIN Tail(claimed) :
           i + 1 \in DOMAIN claimed /\ Tail(claimed)[i] = claimed[i + 1]
  BY <1>1, HeadAndTail
<1>3. claimed' = Tail(claimed) /\ step' = "newGame" /\ at' \in {0, at} /\ Current = claimed[1]
  BY <1>2 DEF NextClaimed, Current
<1>4. at' \in Nat
  BY <1>3, TypeFacts DEF IInv
<1>5. Len(claimed') <= Limit
  BY <1>1, <1>2, <1>3, SchedulerAssumption
<1>6. \A i \in DOMAIN claimed :
        /\ claimed[i] \in DOMAIN rows /\ rows[claimed[i]].status = "fired"
        /\ opened[claimed[i]] = 0 /\ rows[claimed[i]].fireAt <= now
  BY TypeFacts DEF IInv, ClaimedRowsAreFired, ClaimedRowsWait
<1>7. \A i, j \in DOMAIN claimed : claimed[i] = claimed[j] => i = j
  BY DEF IInv, ClaimedRowsAreFired
<1>8. \A i \in DOMAIN claimed' : i \in Nat \ {0}
  BY <1>2, <1>3
<1>9. ASSUME NEW i \in DOMAIN claimed'
      PROVE  /\ claimed'[i] \in DOMAIN rows /\ claimed'[i] # Current
             /\ rows[claimed'[i]].status = "fired"
             /\ opened[claimed'[i]] = 0 /\ rows[claimed'[i]].fireAt <= now
  <2>1. i + 1 \in DOMAIN claimed /\ claimed'[i] = claimed[i + 1] /\ i + 1 # 1
    BY <1>2, <1>3, <1>8
  <2>2. claimed[i + 1] # claimed[1]
    BY <1>2, <1>7, <2>1
  <2> QED BY <1>3, <1>6, <2>1, <2>2
<1>10. ASSUME NEW i \in DOMAIN claimed', NEW j \in DOMAIN claimed', claimed'[i] = claimed'[j]
       PROVE  i = j
  <2>1. /\ i + 1 \in DOMAIN claimed /\ claimed'[i] = claimed[i + 1]
        /\ j + 1 \in DOMAIN claimed /\ claimed'[j] = claimed[j + 1]
    BY <1>2, <1>3
  <2>2. i + 1 = j + 1
    BY <1>7, <1>10, <2>1
  <2> QED BY <1>8, <2>2
<1> QED BY <1>2, <1>3, <1>4, <1>5, <1>6, <1>9, <1>10

\* Opening the first of the list: it has opened nothing yet, the others wait on.
LEMMA OpenDueIInv == ASSUME IInv, OpenDue PROVE IInv'
<1>1. /\ claimed # << >> /\ NextClaimed
      /\ open' = open \cup {rows[Current].set}
      /\ opened' = [opened EXCEPT ![Current] = @ + 1]
      /\ UNCHANGED <<now, rows, process, fillable, hiccups, stops>>
  BY DEF OpenDue, Working, Succeeds
<1>2. /\ claimed' \in Seq(1 .. Len(rows)) /\ Len(claimed') <= Limit
      /\ at' \in Nat /\ step' = "newGame"
      /\ Current \in DOMAIN rows
      /\ rows[Current].status = "fired" /\ opened[Current] = 0
      /\ \A i \in DOMAIN claimed' :
           /\ claimed'[i] \in DOMAIN rows /\ claimed'[i] # Current
           /\ rows[claimed'[i]].status = "fired"
           /\ opened[claimed'[i]] = 0 /\ rows[claimed'[i]].fireAt <= now
      /\ \A i, j \in DOMAIN claimed' : claimed'[i] = claimed'[j] => i = j
  BY <1>1, NextClaimedFacts
<1> DEFINE c == Current
<1>3. c \in DOMAIN rows /\ c \in Id /\ opened \in [Id -> Nat] /\ rows[c] \in Row
  BY <1>2, TypeFacts DEF IInv
<1>4. opened' = [opened EXCEPT ![c] = 1] /\ rows[c].status = "fired"
  BY <1>1, <1>2, <1>3
<1>5. open' \subseteq PoolSet
  <2>1. rows[c].set \in PoolSet
    BY <1>3 DEF Row
  <2> QED BY <1>1, <2>1 DEF IInv, TypeOK
<1> HIDE DEF c
<1>6. opened' \in [Id -> Nat]
  BY <1>3, <1>4
<1>7. TypeOK'
  BY <1>1, <1>2, <1>5, <1>6 DEF IInv, TypeOK, Id
<1>8. ClaimedRowsAreFired'
  BY <1>1, <1>2 DEF ClaimedRowsAreFired
<1>9. ClaimedRowsWait'
  <2> SUFFICES ASSUME NEW i \in DOMAIN claimed'
               PROVE  opened'[claimed'[i]] = 0 /\ rows'[claimed'[i]].fireAt <= now'
    BY DEF ClaimedRowsWait
  <2>1. /\ claimed'[i] \in Id /\ claimed'[i] # c
        /\ opened[claimed'[i]] = 0 /\ rows[claimed'[i]].fireAt <= now
    BY <1>2, TypeFacts DEF IInv, c
  <2> QED BY <1>1, <1>3, <1>4, <2>1
<1>10. OneGamePerSchedule'
  <2> SUFFICES ASSUME NEW id \in Id
               PROVE  /\ opened'[id] <= 1
                      /\ opened'[id] = 1 => id \in DOMAIN rows' /\ rows'[id].status = "fired"
    BY DEF OneGamePerSchedule
  <2>1. CASE id = c
    BY <1>1, <1>3, <1>4, <2>1
  <2>2. CASE id # c
    BY <1>1, <1>3, <1>4, <2>2 DEF IInv, OneGamePerSchedule
  <2> QED BY <2>1, <2>2
<1> QED BY <1>7, <1>8, <1>9, <1>10 DEF IInv

\* A settled schedule - skipped, put back, or left as it is - has opened nothing.
LEMMA SettledIInv ==
  ASSUME IInv, claimed # << >>, NextClaimed, hiccups' \in 0 .. MaxHiccups,
         UNCHANGED <<now, process, open, fillable, opened, stops>>,
         NEW r \in Row, rows' = [rows EXCEPT ![Current] = r]
  PROVE  IInv'
<1>1. /\ claimed' \in Seq(1 .. Len(rows)) /\ Len(claimed') <= Limit
      /\ at' \in Nat /\ step' = "newGame"
      /\ Current \in DOMAIN rows /\ opened[Current] = 0
      /\ \A i \in DOMAIN claimed' :
           /\ claimed'[i] \in DOMAIN rows /\ claimed'[i] # Current
           /\ rows[claimed'[i]].status = "fired"
           /\ opened[claimed'[i]] = 0 /\ rows[claimed'[i]].fireAt <= now
      /\ \A i, j \in DOMAIN claimed' : claimed'[i] = claimed'[j] => i = j
  BY NextClaimedFacts
<1>2. rows \in Seq(Row) /\ \A i \in DOMAIN rows : rows[i] \in Row
  BY TypeFacts DEF IInv
<1>3. /\ DOMAIN rows' = DOMAIN rows
      /\ \A i \in DOMAIN rows : rows'[i] \in Row
      /\ rows' = [i \in DOMAIN rows |-> rows'[i]]
  BY <1>2
<1>4. \A i \in DOMAIN rows : i # Current => rows'[i] = rows[i]
  OBVIOUS
<1>5. rows' \in Seq(Row) /\ Len(rows') = Len(rows)
  BY <1>1, <1>2, RowReplaced
<1>6. TypeOK'
  BY <1>1, <1>5 DEF IInv, TypeOK, Id
<1>7. ClaimedRowsAreFired'
  BY <1>1, <1>4 DEF ClaimedRowsAreFired
<1>8. ClaimedRowsWait'
  BY <1>1, <1>4 DEF ClaimedRowsWait
<1>9. OneGamePerSchedule'
  BY <1>1, <1>3, <1>4 DEF IInv, OneGamePerSchedule
<1> QED BY <1>6, <1>7, <1>8, <1>9 DEF IInv

\* A statement that fails uses up one of the failures, or the context is cancelled.
LEMMA HiccupsStayBounded ==
  ASSUME TypeOK, Succeeds \/ Fails
  PROVE  hiccups' \in 0 .. MaxHiccups
BY SchedulerAssumption DEF TypeOK, Succeeds, Fails

\* The row is skipped, or the UPDATE fails.
LEMMA MarkSkippedIInv == ASSUME IInv, MarkSkipped PROVE IInv'
<1>1. /\ claimed # << >> /\ NextClaimed
      /\ UNCHANGED <<now, process, open, fillable, opened, stops>>
      /\ Succeeds \/ Fails
      /\ SetStatus(Current, "skipped") \/ rows' = rows
  BY DEF MarkSkipped, Working, env
<1>2. hiccups' \in 0 .. MaxHiccups
  BY <1>1, HiccupsStayBounded DEF IInv
<1>3. rows \in Seq(Row) /\ Current \in DOMAIN rows /\ rows[Current] \in Row
  BY <1>1, NextClaimedFacts, TypeFacts DEF IInv
<1>4. CASE SetStatus(Current, "skipped")
  <2> DEFINE r == [rows[Current] EXCEPT !.status = "skipped"]
  <2>1. r \in Row
    BY <1>3 DEF Row
  <2>2. rows' = [rows EXCEPT ![Current] = r]
    BY <1>4 DEF SetStatus
  <2> HIDE DEF r
  <2> QED BY <1>1, <1>2, <2>1, <2>2, SettledIInv
<1>5. CASE rows' = rows
  <2>1. rows' = [rows EXCEPT ![Current] = rows[Current]]
    BY <1>3, <1>5
  <2> QED BY <1>1, <1>2, <1>3, <2>1, SettledIInv
<1> QED BY <1>1, <1>4, <1>5

\* The row is put back for later, was cancelled, or the UPDATE fails.
LEMMA RetryIInv == ASSUME IInv, Retry PROVE IInv'
<1> DEFINE new == IF rows[Current].status = "fired"
                  THEN [rows[Current] EXCEPT !.status = "pending", !.fireAt = at + Backoff]
                  ELSE rows[Current]
<1>1. /\ claimed # << >> /\ NextClaimed
      /\ UNCHANGED <<now, process, open, fillable, opened, stops>>
      /\ Succeeds \/ Fails
      /\ rows' = [rows EXCEPT ![Current] = new] \/ rows' = rows
  BY DEF Retry, Working, env
<1>2. hiccups' \in 0 .. MaxHiccups
  BY <1>1, HiccupsStayBounded DEF IInv
<1>3. /\ rows \in Seq(Row) /\ Current \in DOMAIN rows /\ rows[Current] \in Row
      /\ at \in Nat
  BY <1>1, NextClaimedFacts, TypeFacts DEF IInv
<1>4. new \in Row
  <2>1. at + Backoff \in Nat
    BY <1>3, SchedulerAssumption
  <2> QED BY <1>3, <2>1 DEF Row
<1> HIDE DEF new
<1>5. CASE rows' = [rows EXCEPT ![Current] = new]
  BY <1>1, <1>2, <1>4, <1>5, SettledIInv
<1>6. CASE rows' = rows
  <2>1. rows' = [rows EXCEPT ![Current] = rows[Current]]
    BY <1>3, <1>6
  <2> QED BY <1>1, <1>2, <1>3, <2>1, SettledIInv
<1> QED BY <1>1, <1>5, <1>6

\* Steps that neither write rows, claim nor open.
LEMMA OtherIInv ==
  ASSUME IInv, UNCHANGED <<rows, opened>>, claimed' = claimed \/ claimed' = << >>,
         now' \in {now, now + 1}, now' \in 0 .. MaxTime, at' \in {0, at},
         step' \in {"newGame", "skip", "retry"}, process' \in {"up", "stopping", "down"},
         open' \subseteq PoolSet, fillable' \subseteq PoolSet,
         hiccups' \in 0 .. MaxHiccups, stops' \in 0 .. MaxStops
  PROVE  IInv'
<1>1. /\ now \in Nat /\ at' \in Nat /\ claimed \in Seq(1 .. Len(rows)) /\ Len(claimed) <= Limit
      /\ \A i \in DOMAIN rows : rows[i].fireAt \in Nat
      /\ \A i \in DOMAIN claimed : claimed[i] \in DOMAIN rows
  BY TypeFacts DEF IInv, Row
<1>2. claimed' \in Seq(1 .. Len(rows)) /\ Len(claimed') <= Limit
  <2>1. CASE claimed' = claimed
    BY <1>1, <2>1
  <2>2. CASE claimed' = << >>
    BY <2>2, SchedulerAssumption
  <2> QED BY <2>1, <2>2
<1>3. TypeOK'
  BY <1>1, <1>2 DEF IInv, TypeOK, Id
<1>4. ClaimedRowsAreFired'
  BY DEF IInv, ClaimedRowsAreFired
<1>5. ClaimedRowsWait'
  <2> SUFFICES ASSUME NEW i \in DOMAIN claimed'
               PROVE  opened[claimed'[i]] = 0 /\ rows[claimed'[i]].fireAt <= now'
    BY DEF ClaimedRowsWait
  <2>1. /\ claimed' = claimed /\ claimed[i] \in DOMAIN rows
        /\ opened[claimed[i]] = 0 /\ rows[claimed[i]].fireAt <= now
    BY <1>1 DEF IInv, ClaimedRowsWait
  <2> QED BY <1>1, <2>1
<1>6. OneGamePerSchedule'
  BY DEF IInv, OneGamePerSchedule
<1> QED BY <1>3, <1>4, <1>5, <1>6 DEF IInv

\* Every step keeps the invariant.
LEMMA NextIInv == IInv /\ [Next]_vars => IInv'
<1> SUFFICES ASSUME IInv, [Next]_vars PROVE IInv'
  OBVIOUS
<1>1. /\ now \in 0 .. MaxTime /\ step \in {"newGame", "skip", "retry"}
      /\ process \in {"up", "stopping", "down"}
      /\ open \subseteq PoolSet /\ fillable \subseteq PoolSet
      /\ hiccups \in 0 .. MaxHiccups /\ stops \in 0 .. MaxStops
  BY DEF IInv, TypeOK
<1>2. CASE Admins
  <2>1. ASSUME NEW set \in PoolSet, OthersPlay(set) PROVE IInv'
    BY <1>1, <2>1, OtherIInv DEF OthersPlay, loop
  <2>2. ASSUME NEW set \in PoolSet, OthersEditPools(set) PROVE IInv'
    BY <1>1, <2>2, OtherIInv DEF OthersEditPools, loop
  <2> QED BY <1>2, <2>1, <2>2, ScheduleIInv, CancelIInv DEF Admins
<1>3. CASE RefuseDue
  BY <1>1, <1>3, OtherIInv, HiccupsStayBounded DEF IInv, RefuseDue, env
<1>4. CASE FailDue
  BY <1>1, <1>4, OtherIInv, HiccupsStayBounded DEF IInv, FailDue, env
<1>5. CASE Stop
  BY <1>1, <1>5, OtherIInv, SchedulerAssumption DEF Stop, loop, env
<1>6. CASE Exit
  BY <1>1, <1>6, OtherIInv, SchedulerAssumption DEF Exit, env
<1>7. CASE Restart
  BY <1>1, <1>7, OtherIInv DEF Restart, loop, env
<1>8. CASE TimePasses
  BY <1>1, <1>8, OtherIInv, SchedulerAssumption DEF TimePasses, loop, env
<1>9. CASE UNCHANGED vars
  BY <1>1, <1>9, OtherIInv DEF vars, loop, env
<1> QED
  BY <1>2, <1>3, <1>4, <1>5, <1>6, <1>7, <1>8, <1>9, ClaimIInv, OpenDueIInv,
     MarkSkippedIInv, RetryIInv DEF Next, Work

\* The invariant holds in every behaviour.
LEMMA AlwaysIInv == Spec => []IInv
BY InitIInv, NextIInv, PTL DEF Spec

--------------------------------------------------------------------------------
(* What holds in every behaviour. *)

(* The table, the claimed list and the games stay what their types say: at *)
(* most Limit rows are claimed at once, all of them rows of the table.     *)
THEOREM TypeCorrect == Spec => []TypeOK
<1>1. IInv => TypeOK
  BY DEF IInv
<1> QED BY <1>1, AlwaysIInv, PTL

(* ClaimDueScheduled, NewGame and RetryScheduled together open at most one *)
(* game for a schedule, and one reported as skipped or cancelled, or put   *)
(* back, has opened none: for any limit, backoff and number of failures.   *)
THEOREM OneGameEach == Spec => []OneGamePerSchedule
<1>1. IInv => OneGamePerSchedule
  BY DEF IInv
<1> QED BY <1>1, AlwaysIInv, PTL

(* What the loop holds in memory is fired in the table, each row once, so  *)
(* a cancellation or another claim cannot reach it.                        *)
THEOREM ClaimedStayFired == Spec => []ClaimedRowsAreFired
<1>1. IInv => ClaimedRowsAreFired
  BY DEF IInv
<1> QED BY <1>1, AlwaysIInv, PTL

\* Only OpenDue opens a game for a schedule, and that schedule was due.
LEMMA StepNeverEarly ==
  ASSUME IInv, [Next]_vars
  PROVE  \A id \in Id : opened'[id] # opened[id] => now >= rows[id].fireAt
<1>1. CASE OpenDue
  <2>1. /\ claimed # << >> /\ NextClaimed
        /\ opened' = [opened EXCEPT ![Current] = @ + 1]
    BY <1>1 DEF OpenDue, Working
  <2>2. Current \in DOMAIN rows /\ rows[Current].fireAt <= now
    BY <2>1, NextClaimedFacts
  <2>3. now \in Nat /\ rows[Current].fireAt \in Nat /\ opened \in [Id -> Nat]
    BY <2>2, TypeFacts DEF IInv, Row
  <2>4. ASSUME NEW id \in Id, opened'[id] # opened[id] PROVE id = Current
    BY <2>1, <2>3, <2>4
  <2> QED BY <2>2, <2>3, <2>4
<1>2. CASE UNCHANGED opened
  BY <1>2
<1>3. OpenDue \/ UNCHANGED opened
  BY DEF Next, Admins, Schedule, Cancel, OthersPlay, OthersEditPools, Claim, Work,
         RefuseDue, FailDue, MarkSkipped, Retry, Stop, Exit, Restart, TimePasses, vars
<1> QED BY <1>1, <1>2, <1>3

(* A schedule never opens a game before its time, and a failed one not     *)
(* before its backoff: rows whose time an admin or a retry moved are no    *)
(* longer the loop's.                                                      *)
THEOREM NothingOpensEarly == Spec => NeverEarly
<1>1. IInv /\ [Next]_vars =>
        [\A id \in Id : opened'[id] # opened[id] => now >= rows[id].fireAt]_vars
  BY StepNeverEarly
<1> QED BY <1>1, AlwaysIInv, PTL DEF Spec, NeverEarly

\* A row only changes while pending, or while the loop holds it and before it opened.
LEMMA StepKeepsOutcomes ==
  ASSUME IInv, [Next]_vars, NEW id \in DOMAIN rows,
         \/ rows[id].status \in {"skipped", "cancelled"}
         \/ rows[id].status = "fired" /\ opened[id] = 1
  PROVE  rows'[id] = rows[id]
<1>1. rows \in Seq(Row)
  BY DEF IInv, TypeOK
<1>2. ASSUME claimed # << >>, NextClaimed PROVE id # Current
  <2>1. rows[Current].status = "fired" /\ opened[Current] = 0
    BY <1>2, NextClaimedFacts
  <2> QED BY <2>1
<1>3. ASSUME NEW set \in PoolSet, NEW t \in 1 .. MaxTime, NEW replace \in BOOLEAN,
             Schedule(set, t, replace)
      PROVE  rows'[id] = rows[id]
  <2> DEFINE row == [set |-> set, fireAt |-> t, replace |-> replace, status |-> "pending"]
  <2>1. rows' = Append(rows, row)
    BY <1>3 DEF Schedule
  <2> HIDE DEF row
  <2> QED BY <1>1, <2>1
<1>4. ASSUME NEW other \in DOMAIN rows, Cancel(other) PROVE rows'[id] = rows[id]
  <2>1. id # other /\ rows' = [rows EXCEPT ![other].status = "cancelled"]
    BY <1>4 DEF Cancel, Pending, SetStatus
  <2> QED BY <2>1
<1>5. CASE Claim
  <2>1. PICK batch \in Batches : rows' = Flipped(batch)
    BY <1>5 DEF Claim
  <2>2. id \notin Range(batch)
    <3>1. \A i \in DOMAIN batch : rows[batch[i]].status = "pending"
      BY BatchFacts DEF IInv, Due, Pending
    <3> QED BY <3>1 DEF Range
  <2> QED BY <2>1, <2>2 DEF Flipped
<1>6. CASE MarkSkipped
  BY <1>2, <1>6 DEF MarkSkipped, Working, SetStatus
<1>7. CASE Retry
  BY <1>2, <1>7 DEF Retry, Working
<1>8. CASE UNCHANGED rows
  BY <1>8
<1>9. \/ Admins \/ Claim \/ MarkSkipped \/ Retry \/ UNCHANGED rows
  BY DEF Next, Work, OpenDue, RefuseDue, FailDue, Stop, Exit, Restart, TimePasses, vars
<1>10. CASE Admins
  BY <1>3, <1>4, <1>8, <1>10 DEF Admins, OthersPlay, OthersEditPools
<1> QED BY <1>5, <1>6, <1>7, <1>8, <1>9, <1>10

(* Skipped and cancelled are final, and a row that opened its game stays   *)
(* as it is, whatever the loop still has in hand.                          *)
THEOREM OutcomesStay == Spec => OutcomesAreFinal
<1>1. IInv /\ [Next]_vars =>
        [\A id \in DOMAIN rows :
           \/ rows[id].status \in {"skipped", "cancelled"}
           \/ rows[id].status = "fired" /\ opened[id] = 1
           => rows'[id] = rows[id]]_vars
  BY StepKeepsOutcomes
<1> QED BY <1>1, AlwaysIInv, PTL DEF Spec, OutcomesAreFinal

--------------------------------------------------------------------------------
(* The cap on pending schedules. *)

\* The pending schedules are finitely many, and a step that keeps the types has them so.
LEMMA PendingFinite ==
  ASSUME TypeOK
  PROVE  /\ IsFiniteSet(Pending) /\ Cardinality(Pending) \in Nat
         /\ Len(claimed) \in Nat /\ Len(claimed) <= Limit
<1>1. IsFiniteSet(DOMAIN rows)
  BY TypeFacts, FS_Interval
<1>2. IsFiniteSet(Pending)
  BY <1>1, FS_Subset DEF Pending
<1>3. claimed \in Seq(1 .. Len(rows)) /\ Len(claimed) <= Limit
  BY TypeFacts
<1> QED BY <1>2, <1>3, FS_CardinalityType

\* The cap at a step that puts at most as much into the queue as the loop lets go of.
LEMMA CapKept ==
  ASSUME TypeOK, TypeOK', CapExceededByOneBatch, NEW added,
         \/ Pending' \subseteq Pending /\ Len(claimed') <= Len(claimed)
         \/ Pending' \subseteq Pending \cup {added} /\ Len(claimed') = Len(claimed) - 1
         \/ /\ Pending' \subseteq Pending \cup {added} /\ claimed' = claimed
            /\ Cardinality(Pending) < MaxPending
  PROVE  CapExceededByOneBatch'
<1>1. /\ IsFiniteSet(Pending) /\ Cardinality(Pending) \in Nat
      /\ Len(claimed) \in Nat /\ Len(claimed) <= Limit
  BY PendingFinite
<1>2. Len(claimed') \in Nat
  BY DEF TypeOK
<1>3. /\ IsFiniteSet(Pending \cup {added})
      /\ Cardinality(Pending \cup {added}) <= Cardinality(Pending) + 1
      /\ Cardinality(Pending \cup {added}) \in Nat
  <2>1. /\ IsFiniteSet(Pending \cup {added})
        /\ Cardinality(Pending \cup {added}) =
             IF added \in Pending THEN Cardinality(Pending) ELSE Cardinality(Pending) + 1
    BY <1>1, FS_AddElement
  <2> HIDE DEF Pending
  <2>2. Cardinality(Pending) <= Cardinality(Pending) + 1
    BY <1>1
  <2> QED BY <1>1, <2>1, <2>2
<1>4. Pending' \subseteq Pending =>
        Cardinality(Pending') <= Cardinality(Pending) /\ Cardinality(Pending') \in Nat
  BY <1>1, FS_Subset, FS_CardinalityType
<1>5. Pending' \subseteq Pending \cup {added} =>
        Cardinality(Pending') <= Cardinality(Pending) + 1 /\ Cardinality(Pending') \in Nat
  <2>1. Pending' \subseteq Pending \cup {added} =>
          /\ Cardinality(Pending') <= Cardinality(Pending \cup {added})
          /\ Cardinality(Pending') \in Nat
    BY <1>3, FS_Subset, FS_CardinalityType
  <2> QED BY <1>1, <1>3, <2>1
<1> QED BY <1>1, <1>2, <1>4, <1>5, SchedulerAssumption DEF CapExceededByOneBatch

\* A claim takes out of the queue what it takes into memory.
LEMMA ClaimKeepsCap ==
  ASSUME IInv, IInv', CapExceededByOneBatch, Claim
  PROVE  CapExceededByOneBatch'
<1>1. PICK batch \in Batches : claimed' = batch /\ rows' = Flipped(batch)
  BY DEF Claim
<1>2. /\ batch \in Seq(1 .. Len(rows)) /\ \A i \in DOMAIN batch : batch[i] \in Pending
      /\ \A i, j \in DOMAIN batch : batch[i] = batch[j] => i = j
  BY BatchFacts DEF IInv, Due
<1>3. IsFiniteSet(Pending) /\ Cardinality(Pending) \in Nat
  BY PendingFinite DEF IInv
<1>4. Range(batch) \subseteq Pending /\ IsFiniteSet(Range(batch))
  <2>1. Range(batch) \subseteq Pending
    BY <1>2 DEF Range
  <2> QED BY <1>3, <2>1, FS_Subset
<1>5. Len(batch) <= Cardinality(Range(batch)) /\ Len(batch) \in Nat
  <2>1. Len(batch) \in Nat /\ DOMAIN batch = 1 .. Len(batch)
    BY <1>2
  <2>2. batch \in Injection(1 .. Len(batch), Range(batch))
    <3>1. batch \in [1 .. Len(batch) -> Range(batch)]
      BY <1>2, <2>1 DEF Range
    <3> QED BY <1>2, <3>1 DEF Injection, IsInjective
  <2>3. Cardinality(1 .. Len(batch)) = Len(batch)
    <3> DEFINE n == Len(batch)
    <3>1. n \in Nat /\ n \in Int /\ 1 \in Int
      BY <2>1
    <3> HIDE DEF n
    <3>2. Cardinality(1 .. n) = IF 1 > n THEN 0 ELSE n - 1 + 1
      BY <3>1, FS_Interval
    <3>3. Cardinality(1 .. n) = n
      BY <3>1, <3>2
    <3> QED BY <3>3 DEF n
  <2>4. Cardinality(1 .. Len(batch)) <= Cardinality(Range(batch))
    BY <1>4, <2>2, FS_Injection
  <2> QED BY <2>1, <2>3, <2>4
<1>6. Pending' = Pending \ Range(batch)
  <2>1. DOMAIN rows' = DOMAIN rows
    BY <1>1 DEF Flipped
  <2>2. ASSUME NEW id \in DOMAIN rows
        PROVE  rows'[id].status = "pending"
                 <=> rows[id].status = "pending" /\ id \notin Range(batch)
    <3>1. rows[id] \in Row
      BY TypeFacts DEF IInv
    <3>2. CASE id \in Range(batch)
      BY <1>1, <3>1, <3>2 DEF Flipped, Row
    <3>3. CASE id \notin Range(batch)
      BY <1>1, <3>3 DEF Flipped
    <3> QED BY <3>2, <3>3
  <2> QED BY <2>1, <2>2 DEF Pending
<1>7. Cardinality(Pending') = Cardinality(Pending) - Cardinality(Range(batch))
  <2>1. Pending \cap Range(batch) = Range(batch)
    BY <1>4
  <2>2. Cardinality(Pending \ Range(batch)) =
          Cardinality(Pending) - Cardinality(Pending \cap Range(batch))
    BY <1>3, FS_Difference
  <2> QED BY <1>6, <2>1, <2>2
<1>8. Cardinality(Range(batch)) \in Nat
  BY <1>4, FS_CardinalityType
<1>9. claimed = << >> /\ Len(claimed) = 0
  BY DEF Claim
<1> QED BY <1>1, <1>3, <1>5, <1>7, <1>8, <1>9, SchedulerAssumption DEF CapExceededByOneBatch

\* A step of the loop changes the row it works on only.
LEMMA SettledKeepsCap ==
  ASSUME IInv, IInv', CapExceededByOneBatch, claimed # << >>, NextClaimed,
         DOMAIN rows' = DOMAIN rows, \A id \in DOMAIN rows : id # Current => rows'[id] = rows[id]
  PROVE  CapExceededByOneBatch'
<1>1. Pending' \subseteq Pending \cup {Current}
  BY DEF Pending
<1>2. Len(claimed') = Len(claimed) - 1
  <2>1. claimed \in Seq(1 .. Len(rows))
    BY TypeFacts DEF IInv
  <2> QED BY <2>1, HeadAndTail DEF NextClaimed
<1> QED BY <1>1, <1>2, CapKept DEF IInv

\* Every step keeps the cap.
LEMMA StepKeepsCap ==
  ASSUME IInv, IInv', CapExceededByOneBatch, [Next]_vars
  PROVE  CapExceededByOneBatch'
<1>1. rows \in Seq(Row) /\ claimed \in Seq(1 .. Len(rows))
  BY TypeFacts DEF IInv
<1>2. ASSUME NEW set \in PoolSet, NEW t \in 1 .. MaxTime, NEW replace \in BOOLEAN,
             Schedule(set, t, replace)
      PROVE  CapExceededByOneBatch'
  <2> DEFINE row == [set |-> set, fireAt |-> t, replace |-> replace, status |-> "pending"]
  <2>1. /\ rows' = Append(rows, row) /\ claimed' = claimed /\ Cardinality(Pending) < MaxPending
    BY <1>2 DEF Schedule, loop
  <2> HIDE DEF row
  <2>2. /\ DOMAIN rows' = 1 .. Len(rows) + 1 /\ DOMAIN rows = 1 .. Len(rows)
        /\ Len(rows) \in Nat /\ \A id \in DOMAIN rows : rows'[id] = rows[id]
    BY <1>1, <2>1
  <2>3. Pending' \subseteq Pending \cup {Len(rows) + 1}
    BY <2>2 DEF Pending
  <2> QED BY <2>1, <2>3, CapKept DEF IInv
<1>3. ASSUME NEW id \in DOMAIN rows, Cancel(id) PROVE CapExceededByOneBatch'
  <2>1. rows' = [rows EXCEPT ![id].status = "cancelled"] /\ claimed' = claimed /\ id \in Pending
    BY <1>3 DEF Cancel, SetStatus, loop
  <2>2. DOMAIN rows' = DOMAIN rows /\ \A i \in DOMAIN rows : i # id => rows'[i] = rows[i]
    BY <1>1, <2>1
  <2>3. Pending' \subseteq Pending /\ Len(claimed') <= Len(claimed)
    BY <1>1, <2>1, <2>2 DEF Pending
  <2> QED BY <2>3, CapKept DEF IInv
<1>4. CASE OpenDue \/ MarkSkipped \/ Retry
  <2>1. claimed # << >> /\ NextClaimed
    BY <1>4 DEF OpenDue, MarkSkipped, Retry, Working
  <2>2. DOMAIN rows' = DOMAIN rows /\ \A i \in DOMAIN rows : i # Current => rows'[i] = rows[i]
    BY <1>1, <1>4 DEF OpenDue, MarkSkipped, Retry, SetStatus
  <2> QED BY <2>1, <2>2, SettledKeepsCap
<1>5. CASE UNCHANGED rows /\ (claimed' = claimed \/ claimed' = << >>)
  <2>1. Pending' = Pending /\ Len(claimed') <= Len(claimed)
    BY <1>1, <1>5 DEF Pending
  <2> QED BY <2>1, CapKept DEF IInv
<1>6. CASE Admins
  BY <1>2, <1>3, <1>5, <1>6 DEF Admins, OthersPlay, OthersEditPools, loop
<1>7. \/ Admins \/ Claim \/ OpenDue \/ MarkSkipped \/ Retry
      \/ UNCHANGED rows /\ (claimed' = claimed \/ claimed' = << >>)
  BY DEF Next, Work, RefuseDue, FailDue, Stop, Exit, Restart, TimePasses, vars, loop
<1> QED BY <1>4, <1>5, <1>6, <1>7, ClaimKeepsCap

(* The cap is checked where a schedule is created, not where a failed one  *)
(* is put back (CreateScheduledGame, RescheduleForRetry): what is pending  *)
(* and what the loop still holds never exceed it by more than one batch.   *)
THEOREM CapHoldsButForOneBatch == Spec => []CapExceededByOneBatch
<1>1. Init => CapExceededByOneBatch
  <2> SUFFICES ASSUME Init PROVE CapExceededByOneBatch
    OBVIOUS
  <2>1. Pending = {} /\ Len(claimed) = 0
    BY DEF Init, Pending
  <2> QED BY <2>1, FS_EmptySet, SchedulerAssumption DEF CapExceededByOneBatch
<1>2. IInv /\ IInv' /\ CapExceededByOneBatch /\ [Next]_vars => CapExceededByOneBatch'
  BY StepKeepsCap
<1> QED BY <1>1, <1>2, AlwaysIInv, PTL DEF Spec
=============================================================================
