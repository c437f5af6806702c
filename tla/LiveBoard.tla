-------------------------------- MODULE LiveBoard --------------------------------
(***************************************************************************)
(* One player's page on a game, kept up to date while everybody plays.     *)
(*                                                                         *)
(* A change is committed, then published on the hub to the subscriptions   *)
(* of its game - unless a read in between fails; the handler of a stream   *)
(* writes what it finds in its buffer to the page, and the page asks for   *)
(* the whole board on every event.  Answers come in any order or without   *)
(* the player's card, connections break, the player clicks (shown at once, *)
(* sent afterwards) and moves on to another game.                          *)
(*                                                                         *)
(* The player has joined every game.  A board is the number of changes it  *)
(* was read after, the player's mark in one cell, whether the game is open *)
(* and whether the player's card is on it.                                 *)
(***************************************************************************)
EXTENDS Integers, FiniteSets, FiniteSetsExt

CONSTANTS
    Game,
    Conn,       \* stream requests at a time
    Fetch,      \* board requests at a time
    Click,      \* toggle requests at a time
    NoGame,
    Slots,      \* maxSSEPerUser
    Buffer,     \* a subscription's buffer (16)
    MaxRev,     \* bound: others change a game while all had fewer changes
    MaxOpens,   \* bound: games the player opens
    MaxClicks,  \* bound: cells the player clicks
    MaxFaults   \* bound: requests that fail and connections that break

ASSUME BoardAssumption ==
    /\ NoGame \notin Game /\ IsFiniteSet(Conn) /\ IsFiniteSet(Click)
    /\ {Slots, Buffer} \subseteq Nat \ {0}
    /\ {MaxRev, MaxOpens, MaxClicks, MaxFaults} \subseteq Nat

VARIABLES
    rev, mark, open,  \* the store: each game's changes, the player's mark, its status
    unsent,           \* changes committed and not yet published
    slots,            \* sseCount
    conn,             \* the handlers of streams and what is on its way from them
    gameId, board,    \* the page: state.gameId and state.board
    view,             \* what it shows: another view, nothing yet, a board or an error
    es,               \* its EventSource: closed, on, waiting to reconnect or given up
    fetch, click,     \* its requests and what has become of them
    blind,            \* history: something got lost or came out of place, and no event since
    opens, clicks, faults

store == <<rev, mark, open, unsent>>
page == <<gameId, board, view, es>>
bounds == <<opens, clicks, faults>>
vars == <<store, slots, conn, page, fetch, click, blind, bounds>>

Free == [pc |-> "free"]
Idle == [pc |-> "idle"]
NoBoard == [game |-> NoGame, rev |-> 0, mark |-> FALSE, open |-> FALSE, card |-> FALSE]

\* Requests are told apart, not named: a new one is the first that is free.
First(requests) == CHOOSE free \in DOMAIN requests : requests[free] \in {Free, Idle}

\* What handleBoard answers; its queries count as of the first.
Truth(g) == [game |-> g, rev |-> rev[g], mark |-> mark[g], open |-> open[g], card |-> TRUE]

\* The page's stream, if it has one: what is written to others is lost.
Attached(c) == conn[c].pc # "free" /\ conn[c].attached
Subscribed(c, g) == conn[c].pc = "live" /\ conn[c].game = g
Watched(g) == \E c \in Conn : Attached(c) /\ Subscribed(c, g)

\* The history counts while a game is shown.
Misled(why) == blind' = (view # "other" /\ (blind \/ why))

Init ==
    /\ rev = [g \in Game |-> 0] /\ mark = [g \in Game |-> FALSE]
    /\ open = [g \in Game |-> TRUE] /\ unsent = [g \in Game |-> 0]
    /\ slots = 0 /\ conn = [c \in Conn |-> Free]
    /\ gameId = NoGame /\ board = NoBoard /\ view = "other" /\ es = "closed"
    /\ fetch = [f \in Fetch |-> Idle] /\ click = [k \in Click |-> Idle]
    /\ blind = FALSE
    /\ opens = 0 /\ clicks = 0 /\ faults = 0

--------------------------------------------------------------------------------
(* The store and the hub. *)

Commit(g, flip, close) ==
    /\ open[g]
    /\ rev' = [rev EXCEPT ![g] = @ + 1]
    /\ mark' = [mark EXCEPT ![g] = IF flip THEN ~@ ELSE @]
    /\ open' = [open EXCEPT ![g] = ~close]

\* The service publishes what the store reports as done.
Announced(g) == unsent' = [unsent EXCEPT ![g] = @ + 1] /\ UNCHANGED blind

\* The store reads the row again after its commit, and when that fails the service
\* returns before it publishes.  A game that is replaced is never published.
Unannounced(g) == UNCHANGED unsent /\ Misled(gameId = g)

\* Others play; the player clicks the cell in Discord; the game is won or aborted.
Change(g) ==
    /\ MapThenSumSet(LAMBDA any : rev[any], Game) < MaxRev
    /\ Commit(g, TRUE, FALSE) \/ Commit(g, FALSE, FALSE) \/ Commit(g, FALSE, TRUE)
    /\ Announced(g) \/ Unannounced(g)
    /\ UNCHANGED <<slots, conn, page, fetch, click, bounds>>

Buffered(c) == IF conn[c].buffer < Buffer THEN conn[c].buffer + 1 ELSE Buffer

\* Publish does not wait: what does not fit into a buffer is dropped for it.
Publish(g) ==
    /\ unsent[g] > 0
    /\ unsent' = [unsent EXCEPT ![g] = @ - 1]
    /\ conn' = [c \in Conn |-> IF Subscribed(c, g)
                               THEN [conn[c] EXCEPT !.buffer = Buffered(c)] ELSE conn[c]]
    /\ Misled(gameId = g /\ ~Watched(g))
    /\ UNCHANGED <<rev, mark, open, slots, page, fetch, click, bounds>>

--------------------------------------------------------------------------------
(* handleEvents, and the page's EventSource. *)

Detached == [c \in Conn |-> IF Attached(c) THEN [conn[c] EXCEPT !.attached = FALSE]
                                           ELSE conn[c]]
Requested(conns, c, g) ==
    [conns EXCEPT ![c] = [pc |-> "request", game |-> g, attached |-> TRUE,
                          buffer |-> 0]]

\* An EventSource that is refused does not ask again.
Refused(c) ==
    /\ conn' = [conn EXCEPT ![c] = Free]
    /\ es' = IF Attached(c) THEN "refused" ELSE es

\* requireMember says no, or fails.
Refuse(c) ==
    /\ conn[c].pc = "request" /\ faults < MaxFaults
    /\ faults' = faults + 1
    /\ Refused(c)
    /\ UNCHANGED <<store, slots, gameId, board, view, fetch, click, blind, opens, clicks>>

\* acquireSSE; beyond the cap the answer is 429.
Acquire(c) ==
    /\ conn[c].pc = "request"
    /\ \/ /\ slots < Slots
          /\ slots' = slots + 1
          /\ conn' = [conn EXCEPT ![c].pc = "held"]
          /\ UNCHANGED es
       \/ /\ slots >= Slots
          /\ Refused(c)
          /\ UNCHANGED slots
    /\ UNCHANGED <<store, gameId, board, view, fetch, click, blind, bounds>>

\* The game's id does not parse, or there is no way to flush.
TurnAway(c) ==
    /\ conn[c].pc = "held" /\ faults < MaxFaults
    /\ faults' = faults + 1
    /\ slots' = slots - 1
    /\ Refused(c)
    /\ UNCHANGED <<store, gameId, board, view, fetch, click, blind, opens, clicks>>

Subscribe(c) ==
    /\ conn[c].pc = "held"
    /\ conn' = [conn EXCEPT ![c].pc = "live"]
    /\ UNCHANGED <<store, slots, page, fetch, click, blind, bounds>>

\* The handler writes an event for a page that has gone.
WriteInVain(c) ==
    /\ conn[c].pc = "live" /\ ~Attached(c) /\ conn[c].buffer > 0
    /\ conn' = [conn EXCEPT ![c].buffer = @ - 1]
    /\ UNCHANGED <<store, slots, page, fetch, click, blind, bounds>>

\* Mutant: a handler whose page has gone ends when a write fails.
GoneOnWrite(c) ==
    /\ conn[c].pc = "live" /\ ~Attached(c) /\ conn[c].buffer > 0
    /\ slots' = slots - 1
    /\ conn' = [conn EXCEPT ![c] = Free]
    /\ UNCHANGED <<store, page, fetch, click, blind, bounds>>

\* Mutant: the slot is not given back.
GoneWithSlot(c) ==
    /\ conn[c].pc = "live" /\ ~Attached(c)
    /\ conn' = [conn EXCEPT ![c] = Free]
    /\ UNCHANGED <<store, slots, page, fetch, click, blind, bounds>>

\* The request's context ends: the subscription is closed, the slot released.
Gone(c) ==
    /\ conn[c].pc = "live" /\ ~Attached(c)
    /\ slots' = slots - 1
    /\ conn' = [conn EXCEPT ![c] = Free]
    /\ UNCHANGED <<store, page, fetch, click, blind, bounds>>

\* The connection breaks with what the page has not been told; later the EventSource asks
\* again, and nothing asks for the board.
Break(c) ==
    /\ Attached(c) /\ faults < MaxFaults
    /\ faults' = faults + 1
    /\ es' = "waiting" /\ conn' = Detached
    /\ Misled(conn[c].buffer > 0)
    /\ UNCHANGED <<store, slots, gameId, board, view, fetch, click, opens, clicks>>

Reconnect(c) ==
    /\ es = "waiting" /\ conn[c] = Free /\ c = First(conn)
    /\ es' = "on" /\ conn' = Requested(conn, c, gameId)
    /\ UNCHANGED <<store, slots, gameId, board, view, fetch, click, blind, bounds>>

--------------------------------------------------------------------------------
(* openGame, loadGames and loadBoard. *)

\* Requests of an earlier view: an error is shown where nobody looks any more.
Older == [f \in Fetch |-> IF fetch[f] = Idle THEN Idle ELSE [fetch[f] EXCEPT !.current = FALSE]]
Asked(requests, f, g) == [requests EXCEPT ![f] = [pc |-> "sent", game |-> g, current |-> TRUE]]

\* The page asks for the board and for a stream; neither waits for the other.
OpenGame(c, f, g) ==
    /\ view = "other" /\ opens < MaxOpens /\ conn[c] = Free /\ c = First(conn)
    /\ fetch[f] = Idle /\ f = First(fetch)
    /\ opens' = opens + 1
    /\ gameId' = g /\ view' = "empty" /\ es' = "on"
    /\ fetch' = Asked(fetch, f, g)
    /\ conn' = Requested(conn, c, g)
    /\ blind' = FALSE
    /\ UNCHANGED <<store, slots, board, click, clicks, faults>>

\* loadGames and the other views close the stream; none of them reads the game.
Leave ==
    /\ view # "other"
    /\ gameId' = NoGame /\ view' = "other" /\ es' = "closed"
    /\ conn' = Detached /\ fetch' = Older
    /\ blind' = FALSE
    /\ UNCHANGED <<store, slots, board, click, bounds>>

\* Mutant: no second request while one is on its way.
ReceiveUnlessAsking(c, f) ==
    /\ Attached(c) /\ conn[c].pc = "live" /\ conn[c].buffer > 0
    /\ fetch[f] = Idle /\ f = First(fetch)
    /\ conn' = [conn EXCEPT ![c].buffer = @ - 1]
    /\ fetch' = IF \E other \in Fetch : fetch[other] # Idle THEN fetch ELSE Asked(fetch, f, gameId)
    /\ blind' = FALSE
    /\ UNCHANGED <<store, slots, page, click, bounds>>

\* The handler writes an event and flushes it; handleStreamEvent asks for the board.
Receive(c, f) ==
    /\ Attached(c) /\ conn[c].pc = "live" /\ conn[c].buffer > 0
    /\ fetch[f] = Idle /\ f = First(fetch)
    /\ conn' = [conn EXCEPT ![c].buffer = @ - 1]
    /\ fetch' = Asked(fetch, f, gameId)
    /\ blind' = FALSE
    /\ UNCHANGED <<store, slots, page, click, bounds>>

Answers(f, snap) ==
    fetch' = [fetch EXCEPT ![f] = [pc |-> "answered", snap |-> snap, current |-> fetch[f].current]]

\* handleBoard; when GetUserCard fails, the answer is a board without a card.
ReadBoard(f) ==
    /\ fetch[f].pc = "sent"
    /\ LET truth == Truth(fetch[f].game) IN
       \/ Answers(f, truth) /\ UNCHANGED faults
       \/ /\ faults < MaxFaults /\ faults' = faults + 1
          /\ Answers(f, [truth EXCEPT !.card = FALSE])
    /\ UNCHANGED <<store, slots, conn, page, click, blind, opens, clicks>>

\* Mutant: a board does not replace a message.
RenderedIfNoError == IF view \in {"other", "error"} THEN view ELSE "board"

\* renderBoard draws state.board wherever a board is to be shown by now.
Rendered == IF view = "other" THEN "other" ELSE "board"

\* The answer replaces state.board, whatever game and time it is of.
Answer(f) ==
    /\ fetch[f].pc = "answered"
    /\ LET snap == fetch[f].snap IN
       /\ board' = snap
       /\ IF view # "other" /\ snap = Truth(gameId) THEN blind' = FALSE
          ELSE Misled(\/ ~snap.card
                      \/ /\ view = "board" /\ board.game = gameId
                         /\ snap.game # gameId \/ snap.rev < board.rev)
    /\ view' = Rendered
    /\ fetch' = [fetch EXCEPT ![f] = Idle]
    /\ click' = [k \in Click |-> IF click[k] = Idle THEN Idle
                                 ELSE [click[k] EXCEPT !.shown = FALSE]]
    /\ UNCHANGED <<store, slots, conn, gameId, es, bounds>>

\* The request fails; the message replaces the board.
AnswerFails(f) ==
    /\ fetch[f].pc \in {"sent", "answered"} /\ faults < MaxFaults
    /\ faults' = faults + 1
    /\ fetch' = [fetch EXCEPT ![f] = Idle]
    /\ view' = IF fetch[f].current THEN "error" ELSE view
    /\ Misled(fetch[f].current)
    /\ UNCHANGED <<store, slots, conn, gameId, board, es, click, opens, clicks>>

--------------------------------------------------------------------------------
(* toggle and handleToggle. *)

\* The click shows at once and remembers what to go back to, and in which board.
Toggle(k) ==
    /\ view = "board" /\ board.card /\ board.open /\ click[k] = Idle /\ clicks < MaxClicks
    /\ clicks' = clicks + 1
    /\ click' = [click EXCEPT ![k] = [pc |-> "sent", game |-> board.game,
                                      prev |-> board.mark, shown |-> TRUE]]
    /\ board' = [board EXCEPT !.mark = ~@]
    /\ UNCHANGED <<store, slots, conn, gameId, view, es, fetch, blind, opens, faults>>

\* The server flips what it has, and the page is told so, which changes nothing on
\* it; or the answer is lost; or it is an error because the card could not be read
\* again.  Where the game is closed the server refuses.
HandleToggle(k) ==
    /\ click[k].pc = "sent"
    /\ LET g == click[k].game IN
       \/ /\ Commit(g, TRUE, FALSE)
          /\ \/ /\ Announced(g)
                /\ click' = [click EXCEPT ![k] = Idle]
                /\ UNCHANGED faults
             \/ /\ Announced(g) \/ Unannounced(g)
                /\ click' = [click EXCEPT ![k].pc = "failed"]
                /\ faults < MaxFaults /\ faults' = faults + 1
       \/ /\ ~open[g]
          /\ click' = [click EXCEPT ![k].pc = "failed"]
          /\ UNCHANGED <<store, blind, faults>>
    /\ UNCHANGED <<slots, conn, page, fetch, opens, clicks>>

\* The request is lost on its way.
ToggleLost(k) ==
    /\ click[k].pc = "sent" /\ faults < MaxFaults
    /\ faults' = faults + 1
    /\ click' = [click EXCEPT ![k].pc = "failed"]
    /\ UNCHANGED <<store, slots, conn, page, fetch, blind, opens, clicks>>

\* The revert sets the cell of the board that was clicked, seen if that is still
\* the one shown, and draws whatever board there is.  It is out of place when the
\* cell has been clicked again since.
Revert(k) ==
    /\ click[k].pc = "failed"
    /\ board' = IF click[k].shown THEN [board EXCEPT !.mark = click[k].prev] ELSE board
    /\ view' = Rendered
    /\ Misled(click[k].shown /\ board.mark = click[k].prev)
    /\ click' = [click EXCEPT ![k] = Idle]
    /\ UNCHANGED <<store, slots, conn, gameId, es, fetch, bounds>>

--------------------------------------------------------------------------------
PageAsks ==
    \/ \E c \in Conn, f \in Fetch, g \in Game : OpenGame(c, f, g)
    \/ Leave
    \/ \E k \in Click : Toggle(k)

Streams(c) ==
    \/ Acquire(c) \/ Subscribe(c) \/ WriteInVain(c) \/ Gone(c) \/ Reconnect(c)
    \/ \E f \in Fetch : Receive(c, f)

Replies ==
    \/ \E f \in Fetch : ReadBoard(f) \/ Answer(f)
    \/ \E k \in Click : HandleToggle(k) \/ Revert(k)

Faults ==
    \/ \E c \in Conn : Refuse(c) \/ TurnAway(c) \/ Break(c)
    \/ \E f \in Fetch : AnswerFails(f)
    \/ \E k \in Click : ToggleLost(k)

Next ==
    \/ \E g \in Game : Change(g) \/ Publish(g)
    \/ PageAsks
    \/ \E c \in Conn : Streams(c)
    \/ Replies
    \/ Faults

\* Publishing, handlers and answers go on; nobody has to click, play or fail.
Fairness ==
    /\ \A g \in Game : WF_vars(Publish(g))
    /\ \A c \in Conn : WF_vars(Streams(c))
    /\ \A f \in Fetch : WF_vars(ReadBoard(f) \/ Answer(f))
    /\ \A k \in Click : WF_vars(HandleToggle(k) \/ Revert(k))

Spec == Init /\ [][Next]_vars /\ Fairness

--------------------------------------------------------------------------------
BoardType == [game : Game \cup {NoGame}, rev : Nat, mark : BOOLEAN, open : BOOLEAN,
              card : BOOLEAN]
Handler == [pc : {"request", "held", "live"}, game : Game, attached : BOOLEAN,
            buffer : 0 .. Buffer]
TypeOK ==
    /\ rev \in [Game -> Nat] /\ mark \in [Game -> BOOLEAN]
    /\ open \in [Game -> BOOLEAN] /\ unsent \in [Game -> Nat]
    /\ slots \in 0 .. Slots
    /\ conn \in [Conn -> {Free} \cup Handler]
    /\ gameId \in Game \cup {NoGame} /\ board \in BoardType
    /\ view \in {"other", "empty", "board", "error"}
    /\ es \in {"closed", "on", "waiting", "refused"}
    /\ fetch \in [Fetch -> {Idle}
            \cup [pc : {"sent"}, game : Game, current : BOOLEAN]
            \cup [pc : {"answered"}, snap : BoardType, current : BOOLEAN]]
    /\ click \in [Click -> {Idle} \cup
            [pc : {"sent", "failed"}, game : Game, prev : BOOLEAN, shown : BOOLEAN]]
    /\ blind \in BOOLEAN
    /\ opens \in 0 .. MaxOpens /\ clicks \in 0 .. MaxClicks /\ faults \in 0 .. MaxFaults

\* Something may still change what the page shows of its game.
Coming ==
    \/ unsent[gameId] > 0
    \/ \E c \in Conn : Attached(c) /\ conn[c].buffer > 0
    \/ \E f \in Fetch : fetch[f] # Idle
    \/ \E k \in Click : click[k] # Idle

\* The page shows its game as it is, or is about to ask for it - although full
\* buffers drop events, clicks are shown before they are sent and answers overtake
\* each other (handleEvents, loadBoard, toggle).  It is left behind only by a change
\* that is never published (a failed read after the commit, a replaced game), by an
\* event published while it had no stream or lost with one, by an answer that is an
\* error, lacks the card, is of another game or older than what is shown, and by a
\* click undone where the cell was clicked again; and no longer than until the next
\* event that reaches it.
ShownIsTrueOrComing ==
    view # "other" /\ ~blind => Coming \/ (view = "board" /\ board = Truth(gameId))

\* Whatever way a request for a stream ends, refused after the slot was taken or gone,
\* its slot is given back (acquireSSE, releaseSSE).
SlotsAreStreams ==
    slots = Cardinality({c \in Conn : conn[c].pc \in {"held", "live"}})

\* A stream whose page has gone ends, also where nothing happens in the game
\* (handleEvents): lingering ones do not use up the player's slots for ever.
StreamsEnd == []<>(\A c \in Conn : conn[c].pc = "free" \/ Attached(c))

\* The page settles on the truth (handleStreamEvent) unless a loss came after the
\* last event that reached it: a loss that any event follows is made good, and its
\* stream is not one that is told things and never passes them on.
CatchesUp ==
    <>[](view = "other" \/ blind \/ (view = "board" /\ board = Truth(gameId)))
================================================================================
