---------------------------- MODULE DealRequests ---------------------------
(***************************************************************************)
(* Players asking for their card of one game, from the bot and the website *)
(* at once.  GetOrDealCard looks the card up first, outside the            *)
(* transaction that deals it, and every statement or transaction needs the *)
(* single connection of the pool (SetMaxOpenConns(1) in store.go).  Steps  *)
(* between two uses of the connection interleave freely; a transaction     *)
(* that ends by itself is one step.                                        *)
(***************************************************************************)
EXTENDS Naturals, FiniteSets

CONSTANTS Req, User, NoOne

ASSUME RequestAssumption == NoOne \notin Req /\ IsFiniteSet(User)

VARIABLES
  gameOpen,   \* games.status = 'open'
  fillable,   \* the game's pools have squares enough for a card
  card,       \* user -> id of the user's card, 0 if there is none
  conn,       \* the request whose transaction keeps the connection, or NoOne
  pc,         \* request -> where it is
  user,       \* request -> who sent it
  reply,      \* request -> what it was answered
  got,        \* request -> the card id in the answer, 0 if none
  lost        \* requests whose INSERT met the user's card (history)

vars == <<gameOpen, fillable, card, conn, pc, user, reply, got, lost>>

TypeOK ==
  /\ gameOpen \in BOOLEAN /\ fillable \in BOOLEAN
  /\ card \in [User -> Nat]
  /\ conn \in Req \cup {NoOne}
  /\ pc \in [Req -> {"idle", "lookup", "deal", "conflict", "reread", "done"}]
  /\ user \in [Req -> User]
  /\ reply \in [Req -> {"none", "card", "refused", "error"}]
  /\ got \in [Req -> Nat]
  /\ lost \subseteq Req

Init ==
  /\ gameOpen = TRUE /\ fillable = TRUE
  /\ card = [u \in User |-> 0]
  /\ conn = NoOne
  /\ pc = [r \in Req |-> "idle"]
  /\ user \in [Req -> User]
  /\ reply = [r \in Req |-> "none"]
  /\ got = [r \in Req |-> 0]
  /\ lost = {}

Goto(r, label) == pc' = [pc EXCEPT ![r] = label]

Answer(r, what, id) ==
  /\ Goto(r, "done")
  /\ reply' = [reply EXCEPT ![r] = what]
  /\ got' = [got EXCEPT ![r] = id]

\* service.DealCard has found the game.
Press(r) ==
  /\ pc[r] = "idle"
  /\ Goto(r, "lookup")
  /\ UNCHANGED <<gameOpen, fillable, card, conn, user, reply, got, lost>>

\* The first getUserCard, outside any transaction.
Lookup(r) ==
  /\ pc[r] = "lookup"
  /\ conn = NoOne
  /\ IF card[user[r]] # 0
     THEN Answer(r, "card", card[user[r]])
     ELSE Goto(r, "deal") /\ UNCHANGED <<reply, got>>
  /\ UNCHANGED <<gameOpen, fillable, card, conn, user, lost>>

\* ErrGameNotOpen, or ErrNotEnoughEntries once the pools have been edited.
DealRefused(r) ==
  /\ pc[r] = "deal"
  /\ conn = NoOne
  /\ ~ (gameOpen /\ fillable)
  /\ Answer(r, "refused", 0)
  /\ UNCHANGED <<gameOpen, fillable, card, conn, user, lost>>

\* Mutant: a second deal replaces the player's card.
DealAgain(r) ==
  /\ pc[r] = "deal"
  /\ conn = NoOne
  /\ gameOpen /\ fillable
  /\ card' = [card EXCEPT ![user[r]] = @ + 1]
  /\ Goto(r, "reread")
  /\ UNCHANGED <<gameOpen, fillable, conn, user, reply, got, lost>>

DealCommits(r) ==
  /\ pc[r] = "deal"
  /\ conn = NoOne
  /\ gameOpen /\ fillable
  /\ card[user[r]] = 0
  /\ card' = [card EXCEPT ![user[r]] = Cardinality({u \in User : card[u] # 0}) + 1]
  /\ Goto(r, "reread")
  /\ UNCHANGED <<gameOpen, fillable, conn, user, reply, got, lost>>

\* UNIQUE (game_id, user_id) refuses the INSERT.  The code then reads the card
\* through s.db, which asks the pool for a connection while this transaction
\* holds the only one: no step of this request is possible any more.
DealConflicts(r) ==
  /\ pc[r] = "deal"
  /\ conn = NoOne
  /\ gameOpen /\ fillable
  /\ card[user[r]] # 0
  /\ conn' = r
  /\ lost' = lost \cup {r}
  /\ Goto(r, "conflict")
  /\ UNCHANGED <<gameOpen, fillable, card, user, reply, got>>

\* getUserCard after the commit.
Reread(r) ==
  /\ pc[r] = "reread"
  /\ conn = NoOne
  /\ Answer(r, "card", card[user[r]])
  /\ UNCHANGED <<gameOpen, fillable, card, conn, user, lost>>

\* Mutants: the transaction is not rolled back; its read has no deadline.
TimeoutWithoutRollback(r) ==
  /\ pc[r] \notin {"idle", "done"}
  /\ conn # NoOne
  /\ Answer(r, "error", 0)
  /\ UNCHANGED <<gameOpen, fillable, card, conn, user, lost>>

TimeoutUnlessInTx(r) ==
  /\ pc[r] \notin {"idle", "done", "conflict"}
  /\ conn # NoOne
  /\ Answer(r, "error", 0)
  /\ UNCHANGED <<gameOpen, fillable, card, conn, user, lost>>

\* The request's context ends while it waits for the connection: 30 s for the
\* bot, when the client goes away for the website.  Its transaction rolls back.
Timeout(r) ==
  /\ pc[r] \notin {"idle", "done"}
  /\ conn # NoOne
  /\ Answer(r, "error", 0)
  /\ conn' = IF conn = r THEN NoOne ELSE conn
  /\ UNCHANGED <<gameOpen, fillable, card, user, lost>>

\* Somebody's win or abort, a transaction like the others.
CloseGame ==
  /\ gameOpen
  /\ conn = NoOne
  /\ gameOpen' = FALSE
  /\ UNCHANGED <<fillable, card, conn, pc, user, reply, got, lost>>

\* Admins remove squares of the game's pools, or add some.
OthersEditPools ==
  /\ conn = NoOne
  /\ fillable' = ~ fillable
  /\ UNCHANGED <<gameOpen, card, conn, pc, user, reply, got, lost>>

Deal(r) == DealRefused(r) \/ DealCommits(r) \/ DealConflicts(r)

Next ==
  \/ \E r \in Req : Press(r) \/ Lookup(r) \/ Deal(r) \/ Reread(r) \/ Timeout(r)
  \/ CloseGame \/ OthersEditPools

Spec == Init /\ [][Next]_vars

\* A handler runs on, and every context ends: the bot sets a deadline, a web
\* client eventually disconnects.
Fairness ==
  \A r \in Req : WF_vars(Lookup(r) \/ Deal(r) \/ Reread(r)) /\ WF_vars(Timeout(r))

FairSpec == Spec /\ Fairness
-----------------------------------------------------------------------------
(* However often and from wherever a player asks, every answer that shows  *)
(* a card shows the same one, the card stored for that player.             *)
SameCardEveryTime ==
  \A r \in Req : reply[r] = "card" => got[r] # 0 /\ got[r] = card[user[r]]

(* The connection is only ever kept by a request that lost the race, and   *)
(* gives it back when it is answered: a finished request never leaves the  *)
(* whole database locked behind it.                                        *)
OnlyLosersKeepTheConnection ==
  conn # NoOne => pc[conn] = "conflict" /\ conn \in lost

(* Every request is answered in the end, even those stuck behind one that  *)
(* waits for itself, because contexts end.                                 *)
EveryRequestIsAnswered ==
  \A r \in Req : pc[r] = "lookup" ~> pc[r] = "done"

(* games.go:353: "Concurrent deal for the same user; return the winner of  *)
(* the race." - the loser is answered with the card.  Fails: it waits for  *)
(* the connection it holds until its context ends.                         *)
RaceLoserGetsTheCard ==
  \A r \in lost : pc[r] = "done" => reply[r] = "card"
=============================================================================
