------------------------- MODULE DealRequestsProofs -------------------------
(***************************************************************************)
(* For any number of players and concurrent requests: every answer shows   *)
(* the player's one card, and only a request that lost the race keeps the  *)
(* connection.                                                             *)
(***************************************************************************)
EXTENDS DealRequests, FiniteSetTheorems, TLAPS

\* A request that has dealt finds the card when it reads it again.
DealtBeforeReread == \A r \in Req : pc[r] = "reread" => card[user[r]] # 0

IInv ==
  /\ TypeOK
  /\ OnlyLosersKeepTheConnection
  /\ DealtBeforeReread
  /\ SameCardEveryTime

\* The id of a new card is positive: cards are counted from one.
LEMMA NewIdIsPositive ==
  ASSUME card \in [User -> Nat]
  PROVE  /\ Cardinality({u \in User : card[u] # 0}) + 1 \in Nat
         /\ Cardinality({u \in User : card[u] # 0}) + 1 # 0
<1> DEFINE holders == {u \in User : card[u] # 0}
<1>1. IsFiniteSet(holders)
  BY RequestAssumption, FS_Subset
<1>2. Cardinality(holders) \in Nat
  BY <1>1, FS_CardinalityType
<1> HIDE DEF holders
<1>3. Cardinality(holders) + 1 \in Nat /\ Cardinality(holders) + 1 # 0
  BY <1>2
<1> QED BY <1>3 DEF holders

\* Initially nobody has asked.
LEMMA InitIInv == Init => IInv
BY RequestAssumption
DEF Init, IInv, TypeOK, OnlyLosersKeepTheConnection, DealtBeforeReread, SameCardEveryTime

\* Every step keeps the invariant: a request that acts outside a transaction of
\* its own finds the connection free, and cards are only ever added.
LEMMA NextIInv == IInv /\ [Next]_vars => IInv'
<1> SUFFICES ASSUME IInv, [Next]_vars PROVE IInv'
  OBVIOUS
<1> USE DEF IInv, TypeOK, OnlyLosersKeepTheConnection, DealtBeforeReread,
            SameCardEveryTime
<1>1. ASSUME NEW r \in Req, Press(r) PROVE IInv'
  BY <1>1 DEF Press, Goto
<1>2. ASSUME NEW r \in Req, Lookup(r) PROVE IInv'
  <2>1. CASE card[user[r]] # 0
    <3>1. /\ pc' = [pc EXCEPT ![r] = "done"] /\ reply' = [reply EXCEPT ![r] = "card"]
          /\ got' = [got EXCEPT ![r] = card[user[r]]]
          /\ conn = NoOne /\ UNCHANGED <<gameOpen, fillable, card, conn, user, lost>>
      BY <1>2, <2>1 DEF Lookup, Answer, Goto
    <3>2. TypeOK'
      BY <3>1
    <3>3. SameCardEveryTime'
      BY <3>1, <2>1
    <3> QED BY <3>1, <3>2, <3>3
  <2>2. CASE card[user[r]] = 0
    BY <1>2, <2>2 DEF Lookup, Goto
  <2> QED BY <2>1, <2>2
<1>3. ASSUME NEW r \in Req, DealRefused(r) PROVE IInv'
  BY <1>3, RequestAssumption DEF DealRefused, Answer, Goto
<1>4. ASSUME NEW r \in Req, DealCommits(r) PROVE IInv'
  <2> DEFINE id == Cardinality({u \in User : card[u] # 0}) + 1
  <2>1. id \in Nat /\ id # 0
    BY NewIdIsPositive
  <2>2. /\ card' = [card EXCEPT ![user[r]] = id]
        /\ pc[r] = "deal" /\ conn = NoOne /\ card[user[r]] = 0
        /\ pc' = [pc EXCEPT ![r] = "reread"]
        /\ UNCHANGED <<gameOpen, fillable, conn, user, reply, got, lost>>
    BY <1>4 DEF DealCommits, Goto
  <2> HIDE DEF id
  <2> QED BY <2>1, <2>2
<1>5. ASSUME NEW r \in Req, DealConflicts(r) PROVE IInv'
  BY <1>5 DEF DealConflicts, Goto
<1>6. ASSUME NEW r \in Req, Reread(r) PROVE IInv'
  BY <1>6, RequestAssumption DEF Reread, Answer, Goto
<1>7. ASSUME NEW r \in Req, Timeout(r) PROVE IInv'
  BY <1>7, RequestAssumption DEF Timeout, Answer, Goto
<1>8. CASE CloseGame \/ OthersEditPools
  BY <1>8 DEF CloseGame, OthersEditPools
<1>9. CASE UNCHANGED vars
  BY <1>9 DEF vars
<1> QED
  BY <1>1, <1>2, <1>3, <1>4, <1>5, <1>6, <1>7, <1>8, <1>9 DEF Next, Deal

\* The invariant holds in every behaviour.
LEMMA AlwaysIInv == Spec => []IInv
BY InitIInv, NextIInv, PTL DEF Spec

(* The types of all variables, for any sets of requests and players.       *)
THEOREM TypeCorrect == Spec => []TypeOK
BY AlwaysIInv, PTL DEF IInv

(* Whoever asks, however often and from wherever at once: all answers that *)
(* show a card show the one stored (Store.GetOrDealCard).                  *)
THEOREM AlwaysTheSameCard == Spec => []SameCardEveryTime
BY AlwaysIInv, PTL DEF IInv

(* A request that has been answered never keeps the database locked        *)
(* (the deferred Rollback of Store.GetOrDealCard).                         *)
THEOREM OnlyLosersKeepIt == Spec => []OnlyLosersKeepTheConnection
BY AlwaysIInv, PTL DEF IInv

-----------------------------------------------------------------------------
(* Without a race. *)

OneRequestEach == \A r, s \in Req : user[r] = user[s] => r = s

\* Nobody else deals a player's card, so that a deal meets none.
Alone ==
  OneRequestEach =>
    /\ conn = NoOne
    /\ \A r \in Req : pc[r] \in {"idle", "lookup", "deal"} => card[user[r]] = 0

LEMMA NextAlone == TypeOK /\ Alone /\ [Next]_vars => Alone'
<1> SUFFICES ASSUME TypeOK, Alone, [Next]_vars, OneRequestEach' PROVE
      /\ conn' = NoOne
      /\ \A r \in Req : pc'[r] \in {"idle", "lookup", "deal"} => card'[user'[r]] = 0
  BY DEF Alone
<1>1. user' = user
  BY DEF Next, vars, Press, Lookup, Deal, DealRefused, DealCommits, DealConflicts, Reread,
         Timeout, CloseGame, OthersEditPools
<1>2. /\ conn = NoOne
      /\ \A r \in Req : pc[r] \in {"idle", "lookup", "deal"} => card[user[r]] = 0
  BY <1>1 DEF Alone, OneRequestEach
<1>3. \A r \in Req : ~ Timeout(r) /\ ~ DealConflicts(r)
  BY <1>2 DEF Timeout, DealConflicts
<1>4. ASSUME NEW r \in Req, DealCommits(r)
      PROVE  conn' = NoOne
             /\ \A s \in Req : pc'[s] \in {"idle", "lookup", "deal"} => card'[user'[s]] = 0
  <2>1. \A s \in Req : s # r => user[s] # user[r] /\ pc'[s] = pc[s]
    BY <1>1, <1>4 DEF TypeOK, DealCommits, Goto, OneRequestEach
  <2>2. pc'[r] = "reread" /\ conn' = conn
    BY <1>4 DEF TypeOK, DealCommits, Goto
  <2>3. \A s \in Req : s # r => card'[user[s]] = card[user[s]]
    BY <2>1, <1>4 DEF TypeOK, DealCommits
  <2> QED BY <1>1, <1>2, <2>1, <2>2, <2>3
<1>5. ASSUME NEW r \in Req, Press(r) \/ Lookup(r) \/ DealRefused(r) \/ Reread(r)
      PROVE  conn' = NoOne
             /\ \A s \in Req : pc'[s] \in {"idle", "lookup", "deal"} => card'[user'[s]] = 0
  <2>1. card' = card /\ conn' = conn
    BY <1>5 DEF Press, Lookup, DealRefused, Reread
  <2>2. \A s \in Req : s # r => pc'[s] = pc[s]
    BY <1>5 DEF TypeOK, Press, Lookup, DealRefused, Reread, Answer, Goto
  <2>3. pc'[r] \in {"idle", "lookup", "deal"} => pc[r] \in {"idle", "lookup"}
    BY <1>5 DEF TypeOK, Press, Lookup, DealRefused, Reread, Answer, Goto
  <2> QED BY <1>1, <1>2, <2>1, <2>2, <2>3
<1>6. CASE CloseGame \/ OthersEditPools \/ UNCHANGED vars
  BY <1>1, <1>2, <1>6 DEF CloseGame, OthersEditPools, vars
<1> QED BY <1>3, <1>4, <1>5, <1>6 DEF Next, Deal

(* Only two requests of one player at a time can block the database: where *)
(* nobody asks twice, the connection is free between all steps, however    *)
(* many players ask at once (Store.GetOrDealCard).                         *)
THEOREM FreeWithoutARace == Spec => [](OneRequestEach => conn = NoOne)
<1>1. Init => Alone
  BY DEF Init, Alone
<1>2. IInv => TypeOK
  BY DEF IInv
<1>3. Alone => (OneRequestEach => conn = NoOne)
  BY DEF Alone
<1> QED BY <1>1, <1>2, <1>3, NextAlone, AlwaysIInv, PTL DEF Spec
=============================================================================
