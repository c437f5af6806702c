----------------------------- MODULE GameStore -----------------------------
(***************************************************************************)
(* The tables internal/store keeps about play (pools, entries, games,      *)
(* cards) and the transactions that change them.  The database is opened   *)
(* with one connection (store.go), so a transaction is one atomic step; a  *)
(* method made of several statements is several steps.  A method that      *)
(* returns an error changes nothing and is not a step.                     *)
(*                                                                         *)
(* A table is a function from row ids to rows; its DOMAIN is the rows that *)
(* exist.  Timestamps and the layout of a card are left out.               *)
(***************************************************************************)
EXTENDS Board, Integers

CONSTANTS
  Guild,              \* Discord servers
  User,               \* Discord users
  NoUser,             \* winner_user_id IS NULL
  Slug,               \* names a pool can be given
  Square,             \* texts a pool entry can have
  CellInput,          \* bound: cell indices users send, in range or not
  MaxPools,           \* pools a guild may have
  MaxEntriesPerPool,  \* active entries a pool may have
  MaxPoolId,          \* bound: pool ids used
  MaxGames,           \* bound: games ever created
  MaxCards            \* bound: cards ever dealt

ASSUME StoreAssumption ==
  /\ NoUser \notin User
  /\ CellInput \subseteq Int
  /\ MaxPools \in Nat /\ MaxEntriesPerPool \in Nat
  /\ MaxPoolId \in Nat /\ MaxGames \in Nat /\ MaxCards \in Nat

VARIABLES
  pools,     \* id -> [guild, slug]
  entries,   \* the active rows; nr tells the rows of a pool apart
  clearing,  \* ClearPoolEntries calls that have checked the pool's owner
  games,     \* id -> Game
  cards      \* id -> Card

tables == <<pools, entries, clearing, games, cards>>

RowId == Nat \ {0}

Pool  == [guild : Guild, slug : Slug]
Nr    == 1 .. MaxEntriesPerPool
Entry == [guild : Guild, pool : RowId, nr : Nr, square : Square]

\* poolSet is both pool_ids and pool_set_key, which is canonical for the set;
\* label is the pools named in the derived game name; winnerCard 0 is NULL.
Game == [guild : Guild, poolSet : SUBSET RowId, label : SUBSET Pool,
         status : {"open", "finished", "aborted"},
         winner : User \cup {NoUser}, winnerCard : Nat]

\* squares is the texts copied onto the card when dealt, origin their pools.
Card == [game : RowId, guild : Guild, user : User,
         squares : SUBSET Square, origin : SUBSET Pool, marked : SUBSET Cell]

IsTable(table, Rows) == /\ DOMAIN table \subseteq RowId
                        /\ table \in [DOMAIN table -> Rows]

TypeOK ==
  /\ IsTable(pools, Pool)
  /\ entries \subseteq Entry
  /\ clearing \subseteq Guild \X RowId
  /\ IsTable(games, Game)
  /\ IsTable(cards, Card)

Init ==
  /\ pools = << >> /\ entries = {} /\ clearing = {}
  /\ games = << >> /\ cards = << >>
-----------------------------------------------------------------------------
\* An INTEGER PRIMARY KEY without AUTOINCREMENT: one more than the largest id
\* in the table now, so the id of a deleted last row is given out again.
IsNextRowId(table, id) ==
  /\ \A row \in DOMAIN table : row < id
  /\ id = 1 \/ id - 1 \in DOMAIN table

Insert(table, id, row) ==
  [i \in DOMAIN table \cup {id} |-> IF i = id THEN row ELSE table[i]]

Delete(table, id) == [i \in DOMAIN table \ {id} |-> table[i]]

OwnsPool(g, p) == p \in DOMAIN pools /\ pools[p].guild = g

EntriesOf(p) == {e \in entries : e.pool = p}

CreatePool(g, slug) ==
  /\ Cardinality({p \in DOMAIN pools : pools[p].guild = g}) < MaxPools
  /\ \A p \in DOMAIN pools : pools[p] # [guild |-> g, slug |-> slug]
  /\ \E id \in 1 .. MaxPoolId :
       /\ IsNextRowId(pools, id)
       /\ pools' = Insert(pools, id, [guild |-> g, slug |-> slug])
  /\ UNCHANGED <<entries, clearing, games, cards>>

\* ON DELETE CASCADE takes the entries along.
DeletePool(g, p) ==
  /\ OwnsPool(g, p)
  /\ pools' = Delete(pools, p)
  /\ entries' = entries \ EntriesOf(p)
  /\ UNCHANGED <<clearing, games, cards>>

AddEntry(g, p, sq) ==
  /\ OwnsPool(g, p)
  /\ Cardinality(EntriesOf(p)) < MaxEntriesPerPool
  /\ \E nr \in Nr \ {e.nr : e \in EntriesOf(p)} :
       entries' = entries \cup {[guild |-> g, pool |-> p, nr |-> nr, square |-> sq]}
  /\ UNCHANGED <<pools, clearing, games, cards>>

EditEntry(g, e, sq) ==
  /\ e \in entries
  /\ e.guild = g
  /\ entries' = (entries \ {e}) \cup {[e EXCEPT !.square = sq]}
  /\ UNCHANGED <<pools, clearing, games, cards>>

SoftDeleteEntry(g, e) ==
  /\ e \in entries
  /\ e.guild = g
  /\ entries' = entries \ {e}
  /\ UNCHANGED <<pools, clearing, games, cards>>

\* ClearPoolEntries is a SELECT of the owner and then an UPDATE, outside any
\* transaction: the pool may be deleted, and its id reused, in between.
ClearPoolCheck(g, p) ==
  /\ OwnsPool(g, p)
  /\ clearing' = clearing \cup {<<g, p>>}
  /\ UNCHANGED <<pools, entries, games, cards>>

ClearPoolUpdate(g, p) ==
  /\ <<g, p>> \in clearing
  /\ clearing' = clearing \ {<<g, p>>}
  /\ entries' = {e \in entries : ~(e.guild = g /\ e.pool = p)}
  /\ UNCHANGED <<pools, games, cards>>
-----------------------------------------------------------------------------
\* Mutant: the squares are not filtered by guild.
UsableEntriesOfAnyGuild(g, ids) == {e \in entries : e.pool \in ids}

\* entriesForPoolsTx: what the pools now offer a game of guild g.
UsableEntries(g, ids) == {e \in entries : e.guild = g /\ e.pool \in ids}

OpenGames(g, ids) ==
  {gm \in DOMAIN games : /\ games[gm].guild = g
                         /\ games[gm].poolSet = ids
                         /\ games[gm].status = "open"}

\* Mutant: the game to replace stays open.
AbortForgotten(row) == row

Abort(row) == [row EXCEPT !.status = "aborted"]

\* Without replace an open game for the same set refuses the call (ErrGameOpen);
\* with it that game is aborted in the same transaction.
NewGame(g, ids, replace) ==
  /\ ids # {}
  /\ \A p \in ids : OwnsPool(g, p)
  /\ Cardinality(UsableEntries(g, ids)) >= FillCount
  /\ OpenGames(g, ids) # {} => replace
  /\ \E id \in 1 .. MaxGames :
       /\ IsNextRowId(games, id)
       /\ LET old == [gm \in DOMAIN games |->
                        IF gm \in OpenGames(g, ids) THEN Abort(games[gm])
                                                    ELSE games[gm]]
          IN  games' = Insert(old, id,
                         [guild |-> g, poolSet |-> ids,
                          label |-> {pools[p] : p \in ids}, status |-> "open",
                          winner |-> NoUser, winnerCard |-> 0])
  /\ UNCHANGED <<pools, entries, clearing, cards>>

\* Mutant: a game can be aborted whatever its status.
AbortAnyGame(g, gm) ==
  /\ gm \in DOMAIN games
  /\ games[gm].guild = g
  /\ games' = [games EXCEPT ![gm] = Abort(@)]
  /\ UNCHANGED <<pools, entries, clearing, cards>>

AbortGame(g, gm) ==
  /\ gm \in DOMAIN games
  /\ games[gm].guild = g
  /\ games[gm].status = "open"
  /\ games' = [games EXCEPT ![gm] = Abort(@)]
  /\ UNCHANGED <<pools, entries, clearing, cards>>

\* Mutant: no UNIQUE constraint, a racing deal gets a second card.
HasCardIgnored(gm, u) == FALSE

\* UNIQUE (game_id, user_id)
HasCard(gm, u) == \E c \in DOMAIN cards : cards[c].game = gm /\ cards[c].user = u

\* The transaction of GetOrDealCard, for a user found to have no card yet; the
\* constraint refuses the second of two racing deals.  Rows are drawn without
\* replacement; dedupe works on their ids, so equal texts may both be drawn.
DealCard(g, gm, u) ==
  /\ gm \in DOMAIN games
  /\ games[gm].guild = g
  /\ games[gm].status = "open"
  /\ ~ HasCard(gm, u)
  /\ \E hand \in SUBSET UsableEntries(g, games[gm].poolSet) :
       /\ Cardinality(hand) = FillCount
       /\ \E id \in 1 .. MaxCards :
            /\ IsNextRowId(cards, id)
            /\ cards' = Insert(cards, id,
                          [game |-> gm, guild |-> g, user |-> u,
                           squares |-> {e.square : e \in hand},
                           origin |-> {pools[e.pool] : e \in hand},
                           marked |-> {CenterIdx}])
  /\ UNCHANGED <<pools, entries, clearing, games>>

\* Mutant: a card can be played on after its game was won.
CardIsNotAborted(c) == games[cards[c].game].status # "aborted"

CardIsOpen(c) == games[cards[c].game].status = "open"

\* Mutant: the index is not checked.
ToggleAnyIndex(g, c, idx) ==
  /\ c \in DOMAIN cards
  /\ CardIsOpen(c)
  /\ cards' = [cards EXCEPT ![c].marked = @ \cup {idx}]
  /\ UNCHANGED <<pools, entries, clearing, games>>

\* Who may toggle (the owner, or an admin) is decided by the service.
ToggleCell(g, c, idx) ==
  /\ idx \in Cell
  /\ idx # CenterIdx
  /\ c \in DOMAIN cards
  /\ cards[c].guild = g
  /\ CardIsOpen(c)
  /\ cards' = [cards EXCEPT ![c].marked =
                 IF idx \in @ THEN @ \ {idx} ELSE @ \cup {idx}]
  /\ UNCHANGED <<pools, entries, clearing, games>>

CallBingo(g, c, u) ==
  /\ c \in DOMAIN cards
  /\ cards[c].guild = g
  /\ cards[c].user = u
  /\ HasBingo(cards[c].marked)
  /\ CardIsOpen(c)
  /\ games[cards[c].game].guild = g
  /\ games' = [games EXCEPT ![cards[c].game] =
                 [@ EXCEPT !.status = "finished", !.winner = u, !.winnerCard = c]]
  /\ UNCHANGED <<pools, entries, clearing, cards>>
-----------------------------------------------------------------------------
PoolStep(g) ==
  \/ \E slug \in Slug : CreatePool(g, slug)
  \/ \E p \in DOMAIN pools : DeletePool(g, p) \/ ClearPoolCheck(g, p)
  \/ \E p \in DOMAIN pools, sq \in Square : AddEntry(g, p, sq)
  \/ \E e \in entries, sq \in Square : EditEntry(g, e, sq)
  \/ \E e \in entries : SoftDeleteEntry(g, e)
  \/ \E clear \in clearing : ClearPoolUpdate(g, clear[2])

GameStep(g) ==
  \/ \E ids \in SUBSET DOMAIN pools, replace \in BOOLEAN : NewGame(g, ids, replace)
  \/ \E gm \in DOMAIN games : AbortGame(g, gm)
  \/ \E gm \in DOMAIN games, u \in User : DealCard(g, gm, u)
  \/ \E c \in DOMAIN cards, idx \in CellInput : ToggleCell(g, c, idx)
  \/ \E c \in DOMAIN cards, u \in User : CallBingo(g, c, u)

Next == \E g \in Guild : PoolStep(g) \/ GameStep(g)

Spec == Init /\ [][Next]_tables
-----------------------------------------------------------------------------
(* A finished game has a winning card that is a card of that very game,    *)
(* held by the recorded winner and still showing a completed line; a game  *)
(* that is open or aborted has no winner.  The call checks the line, the   *)
(* owner and the status in one transaction; toggles, aborts, replacing     *)
(* games and other calls may come at any moment before and after.          *)
WinnerHoldsALine ==
  \A gm \in DOMAIN games :
    IF games[gm].status = "finished"
    THEN /\ games[gm].winnerCard \in DOMAIN cards
         /\ LET card == cards[games[gm].winnerCard]
            IN  /\ card.game = gm
                /\ card.guild = games[gm].guild
                /\ card.user = games[gm].winner
                /\ HasBingo(card.marked)
    ELSE games[gm].winner = NoUser /\ games[gm].winnerCard = 0

(* A guild never has two open games over the same set of pools (the        *)
(* partial unique index), whatever the order of openings, replacements,    *)
(* wins and aborts.                                                        *)
OneOpenGamePerSet ==
  \A g1, g2 \in DOMAIN games :
    /\ games[g1].status = "open" /\ games[g2].status = "open"
    /\ games[g1].guild = games[g2].guild
    /\ games[g1].poolSet = games[g2].poolSet
    => g1 = g2

(* A player has at most one card in a game, and a card belongs to a game   *)
(* of its own guild.                                                       *)
OneCardPerPlayer ==
  /\ \A c1, c2 \in DOMAIN cards :
       cards[c1].game = cards[c2].game /\ cards[c1].user = cards[c2].user
         => c1 = c2
  /\ \A c \in DOMAIN cards :
       /\ cards[c].game \in DOMAIN games
       /\ cards[c].guild = games[cards[c].game].guild

(* The foreign key: an entry belongs to an existing pool of its guild,     *)
(* also after the pool's id was deleted and given out again.               *)
EntriesFollowTheirPool ==
  \A e \in entries : e.pool \in DOMAIN pools /\ pools[e.pool].guild = e.guild

(* No square crosses guilds: a card only ever holds squares of its own     *)
(* guild's pools, although a deleted pool's id may be given to a pool of   *)
(* another guild while games that name the id are still open.              *)
GuildIsolation ==
  /\ EntriesFollowTheirPool
  /\ \A c \in DOMAIN cards : \A pool \in cards[c].origin : pool.guild = cards[c].guild

(* History is read-only: once a game is no longer open neither its row nor *)
(* any of its cards changes, and no card is added to it.                   *)
ClosedGamesAreFrozen ==
  [][ \A gm \in DOMAIN games : games[gm].status # "open" =>
        /\ gm \in DOMAIN games' /\ games'[gm] = games[gm]
        /\ \A c \in DOMAIN cards' : cards'[c].game = gm =>
             c \in DOMAIN cards /\ cards'[c] = cards[c] ]_tables

PhaseOf == [gm \in 1 .. MaxGames |->
              IF gm \in DOMAIN games THEN games[gm].status ELSE "none"]

ReadyOf == [gm \in 1 .. MaxGames |->
              {cards[c].user : c \in {k \in DOMAIN cards :
                   cards[k].game = gm /\ HasBingo(cards[k].marked)}}]

WinnerOf == [gm \in 1 .. MaxGames |->
               IF gm \in DOMAIN games THEN games[gm].winner ELSE NoUser]

Rounds == INSTANCE BingoRound WITH
  Round <- 1 .. MaxGames, Player <- User, Nobody <- NoUser,
  phase <- PhaseOf, ready <- ReadyOf, winner <- WinnerOf

(* The store keeps the promise of BingoRound for every game: the players   *)
(* ready to call are the owners of cards with a completed line.  First     *)
(* caller wins, nobody wins twice, a closed game is final.                 *)
KeepsThePromise == Rounds!Spec
=============================================================================
