--------------------------- MODULE LiveBoardProofs ---------------------------
(***************************************************************************)
(* For any number of games, connections, requests, clicks and faults:      *)
(* every slot of the player is a stream being served, and no more than the *)
(* cap of them are; the page shows its game as it is, or is about to ask,  *)
(* unless something it needed got lost or came out of place and no event   *)
(* has reached it since.                                                   *)
(***************************************************************************)
EXTENDS LiveBoard, FiniteSetTheorems, TLAPS

Live == {c \in Conn : conn[c].pc \in {"held", "live"}}

Stored ==
    /\ rev \in [Game -> Nat] /\ mark \in [Game -> BOOLEAN]
    /\ open \in [Game -> BOOLEAN] /\ unsent \in [Game -> Nat]

Streaming ==
    /\ conn \in [Conn -> {Free} \cup Handler]
    /\ slots \in 0 .. Slots
    /\ slots = Cardinality(Live)

FetchType == {Idle} \cup [pc : {"sent"}, game : Game, current : BOOLEAN]
                    \cup [pc : {"answered"}, snap : BoardType, current : BOOLEAN]
ClickType ==
    {Idle} \cup [pc : {"sent", "failed"}, game : Game, prev : BOOLEAN, shown : BOOLEAN]

Paged ==
    /\ gameId \in Game \cup {NoGame} /\ board \in BoardType
    /\ view \in {"other", "empty", "board", "error"}
    /\ es \in {"closed", "on", "waiting", "refused"}
    /\ blind \in BOOLEAN

Asking == fetch \in [Fetch -> FetchType] /\ click \in [Click -> ClickType]

\* What is on the page is of a game: nothing is asked for no game.
Linked ==
    /\ view # "other" => gameId \in Game
    /\ view = "other" => /\ \A c \in Conn : ~ Attached(c)
                        /\ es = "closed"
                        /\ \A f \in Fetch : fetch[f] # Idle => ~ fetch[f].current
    /\ view = "board" => board.game \in Game
    /\ \A k \in Click : click[k] # Idle => board.game \in Game
    /\ \A f \in Fetch : fetch[f].pc = "answered" => fetch[f].snap.game \in Game

Bounded == opens \in 0 .. MaxOpens /\ clicks \in 0 .. MaxClicks /\ faults \in 0 .. MaxFaults

IInv == Stored /\ Streaming /\ Paged /\ Asking /\ Linked /\ Bounded

--------------------------------------------------------------------------------
(* Streams. *)

\* What a connection is.
LEMMA ConnFacts ==
    ASSUME Streaming, NEW c \in Conn
    PROVE  /\ conn[c] = Free \/ conn[c] \in Handler
           /\ conn[c].pc \in {"free", "request", "held", "live"}
           /\ conn[c].pc # "free" => conn[c] \in Handler
           /\ Free.pc = "free"
<1>1. conn[c] = Free \/ conn[c] \in Handler
    BY DEF Streaming
<1>2. Free.pc = "free"
    BY DEF Free
<1> QED BY <1>1, <1>2 DEF Handler

\* The streams that hold a slot are finitely many.
LEMMA LiveFinite == IsFiniteSet(Live) /\ Cardinality(Live) \in Nat
<1>1. IsFiniteSet(Conn) /\ Live \subseteq Conn
    BY BoardAssumption DEF Live
<1>2. IsFiniteSet(Live)
    BY <1>1, FS_Subset
<1> QED BY <1>2, FS_CardinalityType

\* Steps that start and end no stream.
LEMMA SameStreams ==
    ASSUME Streaming, conn' \in [Conn -> {Free} \cup Handler], slots' = slots,
           \A c \in Conn : conn'[c].pc \in {"held", "live"} <=> conn[c].pc \in {"held", "live"}
    PROVE  Streaming'
<1>1. Live' = Live
    BY DEF Live
<1> QED BY <1>1 DEF Streaming

\* A step that starts one.
LEMMA StreamStarts ==
    ASSUME Streaming, conn' \in [Conn -> {Free} \cup Handler],
           slots < Slots, slots' = slots + 1,
           NEW c \in Conn, conn[c].pc \notin {"held", "live"}, conn'[c].pc = "held",
           \A d \in Conn : d # c => conn'[d] = conn[d]
    PROVE  Streaming'
<1>1. Live' = Live \cup {c} /\ c \notin Live
    BY DEF Live
<1>2. Cardinality(Live \cup {c}) = Cardinality(Live) + 1
    BY <1>1, LiveFinite, FS_AddElement
<1>3. slots' \in 0 .. Slots
    BY BoardAssumption DEF Streaming
<1> QED BY <1>1, <1>2, <1>3 DEF Streaming

\* A step that ends one.
LEMMA StreamEnds ==
    ASSUME Streaming, conn' \in [Conn -> {Free} \cup Handler],
           slots' = slots - 1,
           NEW c \in Conn, conn[c].pc \in {"held", "live"}, conn'[c].pc = "free",
           \A d \in Conn : d # c => conn'[d] = conn[d]
    PROVE  Streaming'
<1>1. Live' = Live \ {c} /\ c \in Live
    BY DEF Live
<1>2. Cardinality(Live \ {c}) = Cardinality(Live) - 1
    BY <1>1, LiveFinite, FS_RemoveElement
<1>3. Cardinality(Live) # 0
    BY <1>1, LiveFinite, FS_EmptySet
<1>4. slots' \in 0 .. Slots
    BY <1>3, LiveFinite, BoardAssumption DEF Streaming
<1> QED BY <1>1, <1>2, <1>4 DEF Streaming

\* Letting go of the page's stream ends none of the handlers.
LEMMA DetachedFacts ==
    ASSUME Streaming
    PROVE  /\ Detached \in [Conn -> {Free} \cup Handler]
           /\ \A c \in Conn : /\ Detached[c].pc = conn[c].pc
                              /\ ~ (Detached[c].pc # "free" /\ Detached[c].attached)
<1> SUFFICES ASSUME NEW c \in Conn
             PROVE  /\ Detached[c] \in {Free} \cup Handler
                    /\ Detached[c].pc = conn[c].pc
                    /\ ~ (Detached[c].pc # "free" /\ Detached[c].attached)
    BY DEF Detached
<1>1. CASE Attached(c)
    <2>1. conn[c] \in Handler
        BY <1>1, ConnFacts DEF Attached
    <2>2. Detached[c] = [conn[c] EXCEPT !.attached = FALSE]
        BY <1>1 DEF Detached
    <2> QED BY <2>1, <2>2 DEF Handler
<1>2. CASE ~ Attached(c)
    <2>1. Detached[c] = conn[c]
        BY <1>2 DEF Detached
    <2> QED BY <1>2, <2>1, ConnFacts DEF Attached
<1> QED BY <1>1, <1>2

\* A step of one connection.
LEMMA OneConn ==
    ASSUME Streaming, NEW c \in Conn, NEW h \in {Free} \cup Handler,
           conn' = [conn EXCEPT ![c] = h]
    PROVE  /\ conn' \in [Conn -> {Free} \cup Handler]
           /\ conn'[c] = h
           /\ \A d \in Conn : d # c => conn'[d] = conn[d]
BY DEF Streaming

\* A handler that goes on, and one whose buffer changes.
LEMMA HandlerGoesOn ==
    ASSUME NEW h \in Handler, NEW pc \in {"held", "live"}
    PROVE  /\ [h EXCEPT !.pc = pc] \in Handler
           /\ [h EXCEPT !.pc = pc].pc = pc
           /\ [h EXCEPT !.pc = pc].attached = h.attached
           /\ [h EXCEPT !.pc = pc].buffer = h.buffer
BY DEF Handler

LEMMA BufferChanged ==
    ASSUME NEW h \in Handler, NEW n \in 0 .. Buffer
    PROVE  /\ [h EXCEPT !.buffer = n] \in Handler
           /\ [h EXCEPT !.buffer = n].pc = h.pc
           /\ [h EXCEPT !.buffer = n].attached = h.attached
BY DEF Handler

\* Steps of streams: the page's links stay where no stream becomes its own.
LEMMA StreamStep ==
    ASSUME IInv, Streaming',
           \A c \in Conn : Attached(c)' => Attached(c),
           UNCHANGED <<rev, mark, open, unsent, gameId, board, view, es, click, fetch, blind>>,
           opens' = opens, clicks' = clicks, faults' = faults
    PROVE  IInv'
BY DEF IInv, Stored, Paged, Asking, Linked, Bounded

--------------------------------------------------------------------------------
(* The store.  Lemma <Action>IInv, here and below: that action keeps the invariant. *)

\* A board as the server reads it.
LEMMA TruthFacts ==
    ASSUME Stored, NEW g \in Game
    PROVE  Truth(g) \in BoardType /\ Truth(g).game = g
BY DEF Stored, Truth, BoardType

LEMMA CommitStored ==
    ASSUME Stored, NEW g \in Game, NEW flip \in BOOLEAN, NEW close \in BOOLEAN,
           Commit(g, flip, close), Announced(g) \/ Unannounced(g)
    PROVE  Stored' /\ blind' \in {blind} \cup BOOLEAN
<1>1. /\ rev' = [rev EXCEPT ![g] = @ + 1]
      /\ mark' = [mark EXCEPT ![g] = IF flip THEN ~@ ELSE @]
      /\ open' = [open EXCEPT ![g] = ~close]
    BY DEF Commit
<1>2. rev' \in [Game -> Nat]
    BY <1>1 DEF Stored
<1>3. mark' \in [Game -> BOOLEAN] /\ open' \in [Game -> BOOLEAN]
    BY <1>1 DEF Stored
<1>4. unsent' \in [Game -> Nat]
    BY DEF Stored, Announced, Unannounced
<1>5. blind' \in {blind} \cup BOOLEAN
    BY DEF Announced, Unannounced, Misled
<1> QED BY <1>2, <1>3, <1>4, <1>5 DEF Stored

LEMMA ChangeIInv == ASSUME IInv, NEW g \in Game, Change(g) PROVE IInv'
<1>1. /\ \E flip, close \in BOOLEAN : Commit(g, flip, close)
      /\ Announced(g) \/ Unannounced(g)
      /\ UNCHANGED <<slots, conn, gameId, board, view, es, fetch, click,
                     opens, clicks, faults>>
    BY DEF Change, page, bounds
<1>2. Stored' /\ blind' \in BOOLEAN
    BY <1>1, CommitStored DEF IInv, Paged
<1>3. Streaming'
    BY <1>1 DEF IInv, Streaming, Live
<1>4. Paged' /\ Asking' /\ Linked' /\ Bounded'
    BY <1>1, <1>2 DEF IInv, Paged, Asking, Linked, Bounded, Attached
<1> QED BY <1>2, <1>3, <1>4 DEF IInv

LEMMA PublishIInv == ASSUME IInv, NEW g \in Game, Publish(g) PROVE IInv'
<1>1. /\ unsent[g] > 0 /\ unsent' = [unsent EXCEPT ![g] = @ - 1]
      /\ conn' = [c \in Conn |-> IF Subscribed(c, g)
                                THEN [conn[c] EXCEPT !.buffer = Buffered(c)] ELSE conn[c]]
      /\ UNCHANGED <<rev, mark, open, slots, gameId, board, view, es, fetch, click,
                     opens, clicks, faults>>
    BY DEF Publish, page, bounds
<1>2. blind' \in BOOLEAN
    BY DEF Publish, Misled
<1>3. unsent' \in [Game -> Nat]
    BY <1>1 DEF IInv, Stored
<1>4. ASSUME NEW c \in Conn
      PROVE  /\ conn'[c] \in {Free} \cup Handler
             /\ conn'[c].pc = conn[c].pc
             /\ Attached(c)' <=> Attached(c)
    <2>1. CASE Subscribed(c, g)
        <3>1. conn[c].pc # "free" /\ conn'[c] = [conn[c] EXCEPT !.buffer = Buffered(c)]
            BY <1>1, <2>1 DEF Subscribed
        <3>2. conn[c] \in Handler
            BY <3>1, ConnFacts DEF IInv
        <3>3. Buffered(c) \in 0 .. Buffer
            BY <3>2, BoardAssumption DEF Buffered, Handler
        <3>4. /\ conn'[c] \in Handler /\ conn'[c].pc = conn[c].pc
              /\ conn'[c].attached = conn[c].attached
            BY <3>1, <3>2, <3>3, BufferChanged
        <3> QED BY <3>4 DEF Attached
    <2>2. CASE ~ Subscribed(c, g)
        <3>1. conn'[c] = conn[c]
            BY <1>1, <2>2
        <3> QED BY <3>1, ConnFacts DEF Attached, IInv
    <2> QED BY <2>1, <2>2
<1>5. Streaming'
    <2>1. conn' \in [Conn -> {Free} \cup Handler]
        BY <1>1, <1>4
    <2> QED BY <1>1, <1>4, <2>1, SameStreams DEF IInv
<1>6. Stored' /\ Paged' /\ Asking' /\ Bounded'
    BY <1>1, <1>2, <1>3 DEF IInv, Stored, Paged, Asking, Bounded
<1>7. Linked'
    BY <1>1, <1>4 DEF IInv, Linked
<1> QED BY <1>5, <1>6, <1>7 DEF IInv

--------------------------------------------------------------------------------
(* Streams. *)

LEMMA RefusedFacts ==
    ASSUME IInv, NEW c \in Conn, Refused(c),
           \/ conn[c].pc = "request" /\ slots' = slots
           \/ conn[c].pc = "held" /\ slots' = slots - 1
    PROVE  /\ Streaming' /\ \A d \in Conn : Attached(d)' => Attached(d)
           /\ es' \in {"closed", "on", "waiting", "refused"}
           /\ view = "other" => es' = "closed"
<1>1. conn' = [conn EXCEPT ![c] = Free]
    BY DEF Refused
<1>2. /\ conn' \in [Conn -> {Free} \cup Handler] /\ conn'[c] = Free
      /\ \A d \in Conn : d # c => conn'[d] = conn[d]
    BY <1>1, OneConn DEF IInv
<1>3. Streaming'
    <2>1. conn'[c].pc = "free"
        BY <1>2 DEF Free
    <2>2. CASE conn[c].pc = "request" /\ slots' = slots
        BY <1>2, <2>1, <2>2, SameStreams DEF IInv
    <2>3. CASE conn[c].pc = "held" /\ slots' = slots - 1
        BY <1>2, <2>1, <2>3, StreamEnds DEF IInv
    <2> QED BY <2>2, <2>3
<1>4. \A d \in Conn : Attached(d)' => Attached(d)
    BY <1>2 DEF Attached, Free
<1> QED BY <1>3, <1>4 DEF Refused, IInv, Paged, Linked

LEMMA RefuseIInv == ASSUME IInv, NEW c \in Conn, Refuse(c) PROVE IInv'
<1>1. /\ conn[c].pc = "request" /\ Refused(c) /\ faults < MaxFaults /\ faults' = faults + 1
      /\ UNCHANGED <<rev, mark, open, unsent, slots, gameId, board, view, fetch, click, blind,
                     opens, clicks>>
    BY DEF Refuse, store
<1>2. /\ Streaming' /\ \A d \in Conn : Attached(d)' => Attached(d)
      /\ es' \in {"closed", "on", "waiting", "refused"}
      /\ view = "other" => es' = "closed"
    BY <1>1, RefusedFacts
<1>3. faults' \in 0 .. MaxFaults
    BY <1>1, BoardAssumption DEF IInv, Bounded
<1>4. Stored' /\ Paged' /\ Asking' /\ Bounded'
    BY <1>1, <1>2, <1>3 DEF IInv, Stored, Paged, Asking, Bounded
<1>5. Linked'
    BY <1>1, <1>2 DEF IInv, Linked
<1> QED BY <1>2, <1>4, <1>5 DEF IInv

LEMMA TurnAwayIInv == ASSUME IInv, NEW c \in Conn, TurnAway(c) PROVE IInv'
<1>1. /\ conn[c].pc = "held" /\ Refused(c) /\ slots' = slots - 1
      /\ faults < MaxFaults /\ faults' = faults + 1
      /\ UNCHANGED <<rev, mark, open, unsent, gameId, board, view, fetch, click, blind,
                     opens, clicks>>
    BY DEF TurnAway, store
<1>2. /\ Streaming' /\ \A d \in Conn : Attached(d)' => Attached(d)
      /\ es' \in {"closed", "on", "waiting", "refused"}
      /\ view = "other" => es' = "closed"
    BY <1>1, RefusedFacts
<1>3. faults' \in 0 .. MaxFaults
    BY <1>1, BoardAssumption DEF IInv, Bounded
<1>4. Stored' /\ Paged' /\ Asking' /\ Bounded'
    BY <1>1, <1>2, <1>3 DEF IInv, Stored, Paged, Asking, Bounded
<1>5. Linked'
    BY <1>1, <1>2 DEF IInv, Linked
<1> QED BY <1>2, <1>4, <1>5 DEF IInv

LEMMA AcquireIInv == ASSUME IInv, NEW c \in Conn, Acquire(c) PROVE IInv'
<1>1. /\ conn[c].pc = "request"
      /\ UNCHANGED <<rev, mark, open, unsent, gameId, board, view, fetch, click, blind,
                     opens, clicks, faults>>
    BY DEF Acquire, store, bounds
<1>2. CASE slots < Slots /\ slots' = slots + 1 /\ conn' = [conn EXCEPT ![c].pc = "held"]
           /\ UNCHANGED es
    <2> DEFINE h == [conn[c] EXCEPT !.pc = "held"]
    <2>1. conn[c] \in Handler
        BY <1>1, ConnFacts DEF IInv
    <2>2. h \in Handler /\ h.pc = "held" /\ h.attached = conn[c].attached
        BY <2>1, HandlerGoesOn
    <2>3. conn' = [conn EXCEPT ![c] = h]
        BY <1>2
    <2> HIDE DEF h
    <2>4. /\ conn' \in [Conn -> {Free} \cup Handler] /\ conn'[c] = h
          /\ \A d \in Conn : d # c => conn'[d] = conn[d]
        BY <2>2, <2>3, OneConn DEF IInv
    <2>5. Streaming'
        BY <1>1, <1>2, <2>2, <2>4, StreamStarts DEF IInv
    <2>6. \A d \in Conn : Attached(d)' => Attached(d)
        BY <1>1, <2>2, <2>4 DEF Attached
    <2> QED BY <1>1, <1>2, <2>5, <2>6, StreamStep
<1>3. CASE Refused(c) /\ UNCHANGED slots
    <2>1. /\ Streaming' /\ \A d \in Conn : Attached(d)' => Attached(d)
          /\ es' \in {"closed", "on", "waiting", "refused"}
          /\ view = "other" => es' = "closed"
        BY <1>1, <1>3, RefusedFacts
    <2>2. Stored' /\ Paged' /\ Asking' /\ Bounded'
        BY <1>1, <2>1 DEF IInv, Stored, Paged, Asking, Bounded
    <2>3. Linked'
        BY <1>1, <2>1 DEF IInv, Linked
    <2> QED BY <2>1, <2>2, <2>3 DEF IInv
<1> QED BY <1>2, <1>3 DEF Acquire

LEMMA SubscribeIInv == ASSUME IInv, NEW c \in Conn, Subscribe(c) PROVE IInv'
<1> DEFINE h == [conn[c] EXCEPT !.pc = "live"]
<1>1. /\ conn[c].pc = "held" /\ conn' = [conn EXCEPT ![c] = h]
      /\ UNCHANGED <<rev, mark, open, unsent, slots, gameId, board, view, es, fetch, click, blind,
                     opens, clicks, faults>>
    BY DEF Subscribe, store, page, bounds
<1>2. conn[c] \in Handler
    BY <1>1, ConnFacts DEF IInv
<1>3. h \in Handler /\ h.pc = "live" /\ h.attached = conn[c].attached
    BY <1>2, HandlerGoesOn
<1> HIDE DEF h
<1>4. /\ conn' \in [Conn -> {Free} \cup Handler] /\ conn'[c] = h
      /\ \A d \in Conn : d # c => conn'[d] = conn[d]
    BY <1>1, <1>3, OneConn DEF IInv
<1>5. Streaming'
    BY <1>1, <1>3, <1>4, SameStreams DEF IInv
<1>6. \A d \in Conn : Attached(d)' => Attached(d)
    BY <1>1, <1>3, <1>4 DEF Attached
<1> QED BY <1>1, <1>5, <1>6, StreamStep

\* A handler passes on one of its events.
LEMMA Written ==
    ASSUME IInv, NEW c \in Conn, conn[c].pc = "live", conn[c].buffer > 0,
           conn' = [conn EXCEPT ![c].buffer = @ - 1], slots' = slots
    PROVE  Streaming' /\ \A d \in Conn : Attached(d)' <=> Attached(d)
<1> DEFINE h == [conn[c] EXCEPT !.buffer = @ - 1]
<1>1. conn[c] \in Handler
    BY ConnFacts DEF IInv
<1>2. conn[c].buffer - 1 \in 0 .. Buffer
    BY <1>1, BoardAssumption DEF Handler
<1>3. h \in Handler /\ h.pc = conn[c].pc /\ h.attached = conn[c].attached
    BY <1>1, <1>2, BufferChanged
<1>4. conn' = [conn EXCEPT ![c] = h]
    OBVIOUS
<1> HIDE DEF h
<1>5. /\ conn' \in [Conn -> {Free} \cup Handler] /\ conn'[c] = h
      /\ \A d \in Conn : d # c => conn'[d] = conn[d]
    BY <1>3, <1>4, OneConn DEF IInv
<1>6. Streaming'
    BY <1>3, <1>5, SameStreams DEF IInv
<1>7. \A d \in Conn : Attached(d)' <=> Attached(d)
    BY <1>3, <1>5 DEF Attached
<1> QED BY <1>6, <1>7

LEMMA WriteInVainIInv == ASSUME IInv, NEW c \in Conn, WriteInVain(c) PROVE IInv'
<1>1. /\ conn[c].pc = "live" /\ conn[c].buffer > 0
      /\ conn' = [conn EXCEPT ![c].buffer = @ - 1]
      /\ UNCHANGED <<rev, mark, open, unsent, slots, gameId, board, view, es, fetch, click, blind,
                     opens, clicks, faults>>
    BY DEF WriteInVain, store, page, bounds
<1> QED BY <1>1, Written, StreamStep

LEMMA GoneIInv == ASSUME IInv, NEW c \in Conn, Gone(c) PROVE IInv'
<1>1. /\ conn[c].pc = "live" /\ slots' = slots - 1 /\ conn' = [conn EXCEPT ![c] = Free]
      /\ UNCHANGED <<rev, mark, open, unsent, gameId, board, view, es, fetch, click, blind,
                     opens, clicks, faults>>
    BY DEF Gone, store, page, bounds
<1>2. /\ conn' \in [Conn -> {Free} \cup Handler] /\ conn'[c] = Free
      /\ \A d \in Conn : d # c => conn'[d] = conn[d]
    BY <1>1, OneConn DEF IInv
<1>3. Free.pc = "free"
    BY DEF Free
<1>4. Streaming'
    BY <1>1, <1>2, <1>3, StreamEnds DEF IInv
<1>5. \A d \in Conn : Attached(d)' => Attached(d)
    BY <1>2 DEF Attached, Free
<1> QED BY <1>1, <1>4, <1>5, StreamStep

LEMMA BreakIInv == ASSUME IInv, NEW c \in Conn, Break(c) PROVE IInv'
<1>1. /\ Attached(c) /\ faults < MaxFaults /\ faults' = faults + 1
      /\ es' = "waiting" /\ conn' = Detached
      /\ UNCHANGED <<rev, mark, open, unsent, slots, gameId, board, view, fetch, click,
                     opens, clicks>>
    BY DEF Break, store
<1>2. blind' \in BOOLEAN
    BY DEF Break, Misled
<1>3. view # "other"
    BY <1>1 DEF IInv, Linked
<1>4. Streaming'
    BY <1>1, DetachedFacts, SameStreams DEF IInv
<1>5. faults' \in 0 .. MaxFaults
    BY <1>1, BoardAssumption DEF IInv, Bounded
<1>6. Stored' /\ Paged' /\ Asking' /\ Bounded'
    BY <1>1, <1>2, <1>5 DEF IInv, Stored, Paged, Asking, Bounded
<1>7. Linked'
    BY <1>1, <1>3 DEF IInv, Linked
<1> QED BY <1>4, <1>6, <1>7 DEF IInv

\* A new stream takes no slot yet.
LEMMA RequestedFacts ==
    ASSUME IInv, NEW c \in Conn, NEW g \in Game, conn[c] = Free,
           conn' = Requested(conn, c, g), slots' = slots
    PROVE  Streaming'
<1> DEFINE h == [pc |-> "request", game |-> g, attached |-> TRUE, buffer |-> 0]
<1>1. h \in Handler /\ h.pc = "request"
    BY BoardAssumption DEF Handler
<1>2. conn' = [conn EXCEPT ![c] = h]
    BY DEF Requested
<1> HIDE DEF h
<1>3. /\ conn' \in [Conn -> {Free} \cup Handler] /\ conn'[c] = h
      /\ \A d \in Conn : d # c => conn'[d] = conn[d]
    BY <1>1, <1>2, OneConn DEF IInv
<1>4. conn[c].pc = "free"
    BY DEF Free
<1> QED BY <1>1, <1>3, <1>4, SameStreams DEF IInv

LEMMA ReconnectIInv == ASSUME IInv, NEW c \in Conn, Reconnect(c) PROVE IInv'
<1>1. /\ es = "waiting" /\ conn[c] = Free /\ es' = "on"
      /\ conn' = Requested(conn, c, gameId)
      /\ UNCHANGED <<rev, mark, open, unsent, slots, gameId, board, view, fetch, click, blind,
                     opens, clicks, faults>>
    BY DEF Reconnect, store, bounds
<1>2. view # "other" /\ gameId \in Game
    BY <1>1 DEF IInv, Linked
<1>3. Streaming'
    BY <1>1, <1>2, RequestedFacts
<1>4. Stored' /\ Paged' /\ Asking' /\ Bounded'
    BY <1>1 DEF IInv, Stored, Paged, Asking, Bounded
<1>5. Linked'
    BY <1>1, <1>2 DEF IInv, Linked
<1> QED BY <1>3, <1>4, <1>5 DEF IInv

--------------------------------------------------------------------------------
(* Requests for the board. *)

\* What a request is.
LEMMA FetchFacts ==
    ASSUME IInv, NEW f \in Fetch
    PROVE  /\ fetch[f] \in FetchType /\ Idle.pc = "idle"
           /\ fetch[f].pc = "sent" => fetch[f].game \in Game /\ fetch[f].current \in BOOLEAN
           /\ fetch[f].pc = "answered" => /\ fetch[f].snap \in BoardType
                                          /\ fetch[f].snap.game \in Game
                                          /\ fetch[f].current \in BOOLEAN
<1>1. fetch[f] \in FetchType
    BY DEF IInv, Asking
<1>2. Idle.pc = "idle"
    BY DEF Idle
<1>3. fetch[f].pc = "answered" => fetch[f].snap.game \in Game
    BY DEF IInv, Linked
<1> QED BY <1>1, <1>2, <1>3 DEF FetchType

\* A new request for the board of game g.
LEMMA AskedFacts ==
    ASSUME IInv, NEW f \in Fetch, NEW g \in Game, fetch' = Asked(fetch, f, g)
    PROVE  /\ fetch' \in [Fetch -> FetchType]
           /\ \A e \in Fetch : fetch'[e].pc = "answered" => fetch'[e].snap.game \in Game
<1> DEFINE r == [pc |-> "sent", game |-> g, current |-> TRUE]
<1>1. r \in FetchType /\ r.pc = "sent"
    BY DEF FetchType
<1>2. fetch' = [fetch EXCEPT ![f] = r]
    BY DEF Asked
<1> HIDE DEF r
<1>3. fetch \in [Fetch -> FetchType]
    BY DEF IInv, Asking
<1>4. fetch'[f] = r /\ \A e \in Fetch : e # f => fetch'[e] = fetch[e]
    BY <1>2, <1>3
<1> QED BY <1>1, <1>2, <1>3, <1>4, FetchFacts

LEMMA OpenGameIInv ==
    ASSUME IInv, NEW c \in Conn, NEW f \in Fetch, NEW g \in Game, OpenGame(c, f, g)
    PROVE  IInv'
<1>1. /\ opens < MaxOpens /\ conn[c] = Free /\ opens' = opens + 1
      /\ gameId' = g /\ view' = "empty" /\ es' = "on"
      /\ fetch' = Asked(fetch, f, g) /\ conn' = Requested(conn, c, g) /\ blind' = FALSE
      /\ UNCHANGED <<rev, mark, open, unsent, slots, board, click, clicks, faults>>
    BY DEF OpenGame, store
<1>2. Streaming'
    BY <1>1, RequestedFacts
<1>3. /\ fetch' \in [Fetch -> FetchType]
      /\ \A e \in Fetch : fetch'[e].pc = "answered" => fetch'[e].snap.game \in Game
    BY <1>1, AskedFacts
<1>4. opens' \in 0 .. MaxOpens
    BY <1>1, BoardAssumption DEF IInv, Bounded
<1>5. Stored' /\ Paged' /\ Asking' /\ Bounded'
    BY <1>1, <1>3, <1>4 DEF IInv, Stored, Paged, Asking, Bounded
<1>6. Linked'
    BY <1>1, <1>3 DEF IInv, Linked
<1> QED BY <1>2, <1>5, <1>6 DEF IInv

LEMMA LeaveIInv == ASSUME IInv, Leave PROVE IInv'
<1>1. /\ gameId' = NoGame /\ view' = "other" /\ es' = "closed"
      /\ conn' = Detached /\ fetch' = Older /\ blind' = FALSE
      /\ UNCHANGED <<rev, mark, open, unsent, slots, board, click, opens, clicks, faults>>
    BY DEF Leave, store, bounds
<1>2. Streaming'
    BY <1>1, DetachedFacts, SameStreams DEF IInv
<1>3. \A c \in Conn : ~ Attached(c)'
    BY <1>1, DetachedFacts DEF IInv, Attached
<1>4. ASSUME NEW f \in Fetch
      PROVE  /\ fetch'[f] \in FetchType
             /\ fetch'[f] # Idle => ~ fetch'[f].current
             /\ fetch'[f].pc = "answered" => fetch'[f].snap.game \in Game
    <2>1. fetch'[f] = IF fetch[f] = Idle THEN Idle ELSE [fetch[f] EXCEPT !.current = FALSE]
        BY <1>1 DEF Older
    <2>2. CASE fetch[f] = Idle
        BY <2>1, <2>2, FetchFacts
    <2>3. CASE fetch[f] \in [pc : {"sent"}, game : Game, current : BOOLEAN]
        <3>1. fetch[f] # Idle
            BY <2>3, FetchFacts
        <3>2. fetch'[f] = [fetch[f] EXCEPT !.current = FALSE]
            BY <2>1, <3>1
        <3>3. /\ fetch'[f] \in [pc : {"sent"}, game : Game, current : BOOLEAN]
              /\ fetch'[f].pc = "sent" /\ fetch'[f].current = FALSE
            BY <2>3, <3>2
        <3> QED BY <3>3 DEF FetchType
    <2>4. CASE fetch[f] \in [pc : {"answered"}, snap : BoardType, current : BOOLEAN]
        <3>1. fetch[f] # Idle
            BY <2>4, FetchFacts
        <3>2. fetch'[f] = [fetch[f] EXCEPT !.current = FALSE]
            BY <2>1, <3>1
        <3>3. /\ fetch'[f] \in [pc : {"answered"}, snap : BoardType, current : BOOLEAN]
              /\ fetch'[f].current = FALSE /\ fetch'[f].snap = fetch[f].snap
            BY <2>4, <3>2
        <3>4. fetch[f].snap.game \in Game
            BY <2>4, FetchFacts
        <3> QED BY <3>3, <3>4 DEF FetchType
    <2> QED BY <2>2, <2>3, <2>4, FetchFacts DEF FetchType
<1>5. fetch' \in [Fetch -> FetchType]
    BY <1>1, <1>4 DEF Older
<1>6. Stored' /\ Paged' /\ Asking' /\ Bounded'
    BY <1>1, <1>5 DEF IInv, Stored, Paged, Asking, Bounded
<1>7. Linked'
    BY <1>1, <1>3, <1>4 DEF IInv, Linked
<1> QED BY <1>2, <1>6, <1>7 DEF IInv

LEMMA ReceiveIInv == ASSUME IInv, NEW c \in Conn, NEW f \in Fetch, Receive(c, f) PROVE IInv'
<1>1. /\ Attached(c) /\ conn[c].pc = "live" /\ conn[c].buffer > 0
      /\ conn' = [conn EXCEPT ![c].buffer = @ - 1]
      /\ fetch' = Asked(fetch, f, gameId) /\ blind' = FALSE
      /\ UNCHANGED <<rev, mark, open, unsent, slots, gameId, board, view, es, click,
                     opens, clicks, faults>>
    BY DEF Receive, store, page, bounds
<1>2. view # "other" /\ gameId \in Game
    BY <1>1 DEF IInv, Linked
<1>3. Streaming'
    BY <1>1, Written
<1>4. /\ fetch' \in [Fetch -> FetchType]
      /\ \A e \in Fetch : fetch'[e].pc = "answered" => fetch'[e].snap.game \in Game
    BY <1>1, <1>2, AskedFacts
<1>5. Stored' /\ Paged' /\ Asking' /\ Bounded'
    BY <1>1, <1>4 DEF IInv, Stored, Paged, Asking, Bounded
<1>6. Linked'
    BY <1>1, <1>2, <1>4 DEF IInv, Linked
<1> QED BY <1>3, <1>5, <1>6 DEF IInv

\* A request that is answered or over.
LEMMA FetchChanged ==
    ASSUME IInv, NEW f \in Fetch, NEW r \in FetchType, fetch' = [fetch EXCEPT ![f] = r],
           r.pc = "answered" => r.snap.game \in Game,
           r # Idle => fetch[f] # Idle /\ r.current = fetch[f].current
    PROVE  /\ fetch' \in [Fetch -> FetchType]
           /\ \A e \in Fetch : fetch'[e].pc = "answered" => fetch'[e].snap.game \in Game
           /\ view = "other" => \A e \in Fetch : fetch'[e] # Idle => ~ fetch'[e].current
<1>1. fetch \in [Fetch -> FetchType]
    BY DEF IInv, Asking
<1>2. fetch'[f] = r /\ \A e \in Fetch : e # f => fetch'[e] = fetch[e]
    BY <1>1
<1>3. fetch' \in [Fetch -> FetchType]
    BY <1>1
<1>4. \A e \in Fetch : fetch'[e].pc = "answered" => fetch'[e].snap.game \in Game
    BY <1>2, FetchFacts
<1>5. view = "other" => \A e \in Fetch : fetch'[e] # Idle => ~ fetch'[e].current
    BY <1>2 DEF IInv, Linked
<1> QED BY <1>3, <1>4, <1>5

\* What a request may be answered with: the board, or the board without the card.
LEMMA ReadFacts ==
    ASSUME IInv, NEW f \in Fetch, ReadBoard(f)
    PROVE  \E snap \in BoardType :
              /\ Answers(f, snap)
              /\ snap.game = fetch[f].game /\ snap.rev = rev[fetch[f].game]
              /\ snap.card => snap = Truth(fetch[f].game)
<1> DEFINE truth == Truth(fetch[f].game)
           without == [truth EXCEPT !.card = FALSE]
<1>1. fetch[f].game \in Game
    BY FetchFacts DEF ReadBoard
<1>2. truth \in BoardType /\ truth.game = fetch[f].game /\ truth.rev = rev[fetch[f].game]
    BY <1>1, TruthFacts DEF IInv, Truth
<1>3. /\ without \in BoardType /\ without.game = truth.game /\ without.rev = truth.rev
      /\ without.card = FALSE
    BY <1>2 DEF BoardType
<1>4. Answers(f, truth) \/ Answers(f, without)
    BY DEF ReadBoard
<1> HIDE DEF without
<1> QED BY <1>2, <1>3, <1>4

LEMMA ReadBoardIInv == ASSUME IInv, NEW f \in Fetch, ReadBoard(f) PROVE IInv'
<1>1. /\ fetch[f].pc = "sent"
      /\ UNCHANGED <<rev, mark, open, unsent, slots, conn, gameId, board, view, es, click, blind,
                     opens, clicks>>
    BY DEF ReadBoard, store, page
<1>2. PICK snap \in BoardType : Answers(f, snap) /\ snap.game = fetch[f].game
    BY ReadFacts
<1> DEFINE r == [pc |-> "answered", snap |-> snap, current |-> fetch[f].current]
<1>3. fetch' = [fetch EXCEPT ![f] = r]
    BY <1>2 DEF Answers
<1>4. fetch[f].game \in Game /\ fetch[f].current \in BOOLEAN /\ fetch[f] # Idle
    BY <1>1, FetchFacts
<1>5. /\ r \in FetchType /\ r.snap.game \in Game /\ r.current = fetch[f].current
    BY <1>2, <1>4 DEF FetchType
<1> HIDE DEF r
<1>6. /\ fetch' \in [Fetch -> FetchType]
      /\ \A e \in Fetch : fetch'[e].pc = "answered" => fetch'[e].snap.game \in Game
      /\ view = "other" => \A e \in Fetch : fetch'[e] # Idle => ~ fetch'[e].current
    BY <1>3, <1>4, <1>5, FetchChanged
<1>7. faults' \in 0 .. MaxFaults
    BY BoardAssumption DEF ReadBoard, IInv, Bounded
<1>8. Stored' /\ Streaming' /\ Paged' /\ Asking' /\ Bounded'
    BY <1>1, <1>6, <1>7 DEF IInv, Stored, Streaming, Live, Paged, Asking, Bounded
<1>9. Linked'
    BY <1>1, <1>6 DEF IInv, Linked, Attached
<1> QED BY <1>8, <1>9 DEF IInv

\* A request that is over.
LEMMA FetchOver ==
    ASSUME IInv, NEW f \in Fetch, fetch' = [fetch EXCEPT ![f] = Idle]
    PROVE  /\ fetch' \in [Fetch -> FetchType]
           /\ \A e \in Fetch : fetch'[e].pc = "answered" => fetch'[e].snap.game \in Game
           /\ view = "other" => \A e \in Fetch : fetch'[e] # Idle => ~ fetch'[e].current
<1>1. Idle \in FetchType /\ Idle.pc # "answered"
    BY DEF FetchType, Idle
<1> QED BY <1>1, FetchChanged

LEMMA AnswerIInv == ASSUME IInv, NEW f \in Fetch, Answer(f) PROVE IInv'
<1>1. /\ fetch[f].pc = "answered" /\ board' = fetch[f].snap /\ view' = Rendered
      /\ fetch' = [fetch EXCEPT ![f] = Idle]
      /\ click' = [k \in Click |-> IF click[k] = Idle THEN Idle
                                  ELSE [click[k] EXCEPT !.shown = FALSE]]
      /\ UNCHANGED <<rev, mark, open, unsent, slots, conn, gameId, es, opens, clicks, faults>>
    BY DEF Answer, store, bounds
<1>2. blind' \in BOOLEAN
    BY DEF Answer, Misled
<1>3. board' \in BoardType /\ board'.game \in Game
    BY <1>1, FetchFacts
<1>4. /\ fetch' \in [Fetch -> FetchType]
      /\ \A e \in Fetch : fetch'[e].pc = "answered" => fetch'[e].snap.game \in Game
      /\ view = "other" => \A e \in Fetch : fetch'[e] # Idle => ~ fetch'[e].current
    BY <1>1, FetchOver
<1>5. click' \in [Click -> ClickType]
    <2>1. ASSUME NEW k \in Click PROVE click'[k] \in ClickType
        <3>1. click[k] \in ClickType
            BY DEF IInv, Asking
        <3>2. CASE click[k] = Idle
            BY <1>1, <3>2 DEF ClickType
        <3>3. CASE click[k] # Idle
            <4>1. click'[k] = [click[k] EXCEPT !.shown = FALSE]
                BY <1>1, <3>3
            <4>2. click[k] \in [pc : {"sent", "failed"}, game : Game, prev : BOOLEAN, shown : BOOLEAN]
                BY <3>1, <3>3 DEF ClickType
            <4>3. click'[k] \in [pc : {"sent", "failed"}, game : Game, prev : BOOLEAN, shown : BOOLEAN]
                BY <4>1, <4>2
            <4> QED BY <4>3 DEF ClickType
        <3> QED BY <3>2, <3>3
    <2> QED BY <1>1, <2>1
<1>6. Stored' /\ Streaming' /\ Paged' /\ Asking' /\ Bounded'
    BY <1>1, <1>2, <1>3, <1>4, <1>5
       DEF IInv, Stored, Streaming, Live, Paged, Asking, Bounded, Rendered
<1>7. Linked'
    BY <1>1, <1>3, <1>4 DEF IInv, Linked, Attached, Rendered
<1> QED BY <1>6, <1>7 DEF IInv

LEMMA AnswerFailsIInv == ASSUME IInv, NEW f \in Fetch, AnswerFails(f) PROVE IInv'
<1>1. /\ fetch[f].pc \in {"sent", "answered"} /\ faults < MaxFaults /\ faults' = faults + 1
      /\ fetch' = [fetch EXCEPT ![f] = Idle]
      /\ view' = IF fetch[f].current THEN "error" ELSE view
      /\ UNCHANGED <<rev, mark, open, unsent, slots, conn, gameId, board, es, click,
                     opens, clicks>>
    BY DEF AnswerFails, store
<1>2. blind' \in BOOLEAN
    BY DEF AnswerFails, Misled
<1>3. fetch[f] # Idle
    BY <1>1, FetchFacts
<1>4. view = "other" => view' = "other"
    BY <1>1, <1>3 DEF IInv, Linked
<1>5. /\ fetch' \in [Fetch -> FetchType]
      /\ \A e \in Fetch : fetch'[e].pc = "answered" => fetch'[e].snap.game \in Game
      /\ view = "other" => \A e \in Fetch : fetch'[e] # Idle => ~ fetch'[e].current
    BY <1>1, FetchOver
<1>6. faults' \in 0 .. MaxFaults
    BY <1>1, BoardAssumption DEF IInv, Bounded
<1>7. Stored' /\ Streaming' /\ Paged' /\ Asking' /\ Bounded'
    BY <1>1, <1>2, <1>5, <1>6 DEF IInv, Stored, Streaming, Live, Paged, Asking, Bounded
<1>8. Linked'
    BY <1>1, <1>4, <1>5 DEF IInv, Linked, Attached
<1> QED BY <1>7, <1>8 DEF IInv

--------------------------------------------------------------------------------
(* Clicks. *)

Sending == [pc : {"sent", "failed"}, game : Game, prev : BOOLEAN, shown : BOOLEAN]

\* What a click is.
LEMMA ClickFacts ==
    ASSUME IInv, NEW k \in Click
    PROVE  /\ Idle.pc = "idle"
           /\ click[k] = Idle \/ click[k] \in Sending
           /\ click[k].pc \in {"sent", "failed"} => /\ click[k] \in Sending
                                                  /\ board.game \in Game
<1>1. click[k] = Idle \/ click[k] \in Sending
    BY DEF IInv, Asking, ClickType, Sending
<1>2. Idle.pc = "idle"
    BY DEF Idle
<1>3. click[k] # Idle => board.game \in Game
    BY DEF IInv, Linked
<1> QED BY <1>1, <1>2, <1>3

\* A click that is sent, has failed or is over.
LEMMA ClickChanged ==
    ASSUME IInv, NEW k \in Click, NEW r, r = Idle \/ r \in Sending,
           click' = [click EXCEPT ![k] = r],
           r # Idle => board'.game \in Game,
           board'.game = board.game
    PROVE  /\ click' \in [Click -> ClickType]
           /\ \A j \in Click : click'[j] # Idle => board'.game \in Game
<1>1. click \in [Click -> ClickType] /\ r \in ClickType
    BY DEF IInv, Asking, ClickType, Sending
<1>2. click'[k] = r /\ \A j \in Click : j # k => click'[j] = click[j]
    BY <1>1
<1>3. \A j \in Click : click[j] # Idle => board.game \in Game
    BY DEF IInv, Linked
<1> QED BY <1>1, <1>2, <1>3

\* A board whose cell is set.
LEMMA BoardMarked ==
    ASSUME NEW b \in BoardType, NEW m \in BOOLEAN
    PROVE  [b EXCEPT !.mark = m] \in BoardType /\ [b EXCEPT !.mark = m].game = b.game
BY DEF BoardType

LEMMA ToggleIInv == ASSUME IInv, NEW k \in Click, Toggle(k) PROVE IInv'
<1> DEFINE r == [pc |-> "sent", game |-> board.game, prev |-> board.mark, shown |-> TRUE]
<1>1. /\ view = "board" /\ clicks < MaxClicks /\ clicks' = clicks + 1
      /\ click' = [click EXCEPT ![k] = r] /\ board' = [board EXCEPT !.mark = ~@]
      /\ UNCHANGED <<rev, mark, open, unsent, slots, conn, gameId, view, es, fetch, blind,
                     opens, faults>>
    BY DEF Toggle, store
<1>2. board \in BoardType /\ board.game \in Game /\ board.mark \in BOOLEAN
    BY <1>1 DEF IInv, Paged, Linked, BoardType
<1>3. r \in Sending
    BY <1>2 DEF Sending
<1> HIDE DEF r
<1>4. PICK m \in BOOLEAN : board' = [board EXCEPT !.mark = m]
    <2>1. (~ board.mark) \in BOOLEAN
        OBVIOUS
    <2>2. board' = [board EXCEPT !.mark = ~ board.mark]
        BY <1>1
    <2> QED BY <2>1, <2>2
<1>5. board' \in BoardType /\ board'.game = board.game
    BY <1>2, <1>4, BoardMarked
<1>6. /\ click' \in [Click -> ClickType]
      /\ \A j \in Click : click'[j] # Idle => board'.game \in Game
    BY <1>1, <1>2, <1>3, <1>5, ClickChanged
<1>7. clicks' \in 0 .. MaxClicks
    BY <1>1, BoardAssumption DEF IInv, Bounded
<1>8. Stored' /\ Streaming' /\ Paged' /\ Asking' /\ Bounded'
    BY <1>1, <1>5, <1>6, <1>7 DEF IInv, Stored, Streaming, Live, Paged, Asking, Bounded
<1>9. Linked'
    BY <1>1, <1>2, <1>5, <1>6 DEF IInv, Linked, Attached
<1> QED BY <1>8, <1>9 DEF IInv

\* The answer to a click.
LEMMA ClickStep ==
    ASSUME IInv, NEW k \in Click, Stored', faults' \in 0 .. MaxFaults, blind' \in BOOLEAN,
           click[k].pc \in {"sent", "failed"},
           \/ click' = [click EXCEPT ![k] = Idle]
           \/ click' = [click EXCEPT ![k].pc = "failed"],
           UNCHANGED <<slots, conn, gameId, board, view, es, fetch, opens, clicks>>
    PROVE  IInv'
<1>1. click[k] \in Sending /\ board.game \in Game
    BY ClickFacts
<1>2. PICK r : (r = Idle \/ r \in Sending) /\ click' = [click EXCEPT ![k] = r]
    <2>1. CASE click' = [click EXCEPT ![k] = Idle]
        BY <2>1
    <2>2. CASE click' = [click EXCEPT ![k].pc = "failed"]
        <3> DEFINE failed == [click[k] EXCEPT !.pc = "failed"]
        <3>1. failed \in Sending
            BY <1>1 DEF Sending
        <3>2. click' = [click EXCEPT ![k] = failed]
            BY <2>2
        <3> HIDE DEF failed
        <3> QED BY <3>1, <3>2
    <2> QED BY <2>1, <2>2
<1>3. /\ click' \in [Click -> ClickType]
      /\ \A j \in Click : click'[j] # Idle => board'.game \in Game
    BY <1>1, <1>2, ClickChanged
<1>4. Streaming' /\ Paged' /\ Asking' /\ Bounded'
    BY <1>3 DEF IInv, Streaming, Live, Paged, Asking, Bounded
<1>5. Linked'
    BY <1>3 DEF IInv, Linked, Attached
<1> QED BY <1>4, <1>5 DEF IInv

LEMMA HandleToggleIInv == ASSUME IInv, NEW k \in Click, HandleToggle(k) PROVE IInv'
<1>1. /\ click[k].pc = "sent"
      /\ UNCHANGED <<slots, conn, gameId, board, view, es, fetch, opens, clicks>>
    BY DEF HandleToggle, page
<1>2. click[k].game \in Game
    BY <1>1, ClickFacts DEF Sending
<1>3. Stored' /\ blind' \in BOOLEAN
    <2>1. CASE /\ Commit(click[k].game, TRUE, FALSE)
               /\ Announced(click[k].game) \/ Unannounced(click[k].game)
        BY <1>2, <2>1, CommitStored DEF IInv, Paged
    <2>2. CASE UNCHANGED <<store, blind>>
        BY <2>2 DEF IInv, Stored, Paged, store
    <2> QED BY <2>1, <2>2 DEF HandleToggle
<1>4. faults' \in 0 .. MaxFaults
    <2>1. faults' = faults \/ (faults < MaxFaults /\ faults' = faults + 1)
        BY DEF HandleToggle
    <2> QED BY <2>1, BoardAssumption DEF IInv, Bounded
<1>5. \/ click' = [click EXCEPT ![k] = Idle]
      \/ click' = [click EXCEPT ![k].pc = "failed"]
    BY DEF HandleToggle
<1> QED BY <1>1, <1>3, <1>4, <1>5, ClickStep

LEMMA ToggleLostIInv == ASSUME IInv, NEW k \in Click, ToggleLost(k) PROVE IInv'
<1>1. /\ click[k].pc = "sent" /\ faults < MaxFaults /\ faults' = faults + 1
      /\ click' = [click EXCEPT ![k].pc = "failed"]
      /\ UNCHANGED <<rev, mark, open, unsent, slots, conn, gameId, board, view, es, fetch, blind,
                     opens, clicks>>
    BY DEF ToggleLost, store, page
<1>2. Stored' /\ faults' \in 0 .. MaxFaults /\ blind' \in BOOLEAN
    BY <1>1, BoardAssumption DEF IInv, Stored, Paged, Bounded
<1> QED BY <1>1, <1>2, ClickStep

LEMMA RevertIInv == ASSUME IInv, NEW k \in Click, Revert(k) PROVE IInv'
<1>1. /\ click[k].pc = "failed"
      /\ board' = IF click[k].shown THEN [board EXCEPT !.mark = click[k].prev] ELSE board
      /\ view' = Rendered /\ click' = [click EXCEPT ![k] = Idle]
      /\ UNCHANGED <<rev, mark, open, unsent, slots, conn, gameId, es, fetch,
                     opens, clicks, faults>>
    BY DEF Revert, store, bounds
<1>2. blind' \in BOOLEAN
    BY DEF Revert, Misled
<1>3. click[k].prev \in BOOLEAN /\ board \in BoardType /\ board.game \in Game
    BY <1>1, ClickFacts DEF Sending, IInv, Paged
<1>4. board' \in BoardType /\ board'.game = board.game
    BY <1>1, <1>3, BoardMarked
<1>5. /\ click' \in [Click -> ClickType]
      /\ \A j \in Click : click'[j] # Idle => board'.game \in Game
    BY <1>1, <1>3, <1>4, ClickChanged
<1>6. Stored' /\ Streaming' /\ Paged' /\ Asking' /\ Bounded'
    BY <1>1, <1>2, <1>4, <1>5
       DEF IInv, Stored, Streaming, Live, Paged, Asking, Bounded, Rendered
<1>7. Linked'
    BY <1>1, <1>3, <1>4, <1>5 DEF IInv, Linked, Attached, Rendered
<1> QED BY <1>6, <1>7 DEF IInv

--------------------------------------------------------------------------------
(* What holds in every behaviour. *)

LEMMA InitIInv == Init => IInv
<1> SUFFICES ASSUME Init PROVE IInv
    OBVIOUS
<1>1. Stored
    BY DEF Init, Stored
<1>2. Streaming
    <2>1. Live = {}
        BY DEF Init, Live, Free
    <2> QED BY <2>1, FS_EmptySet, BoardAssumption DEF Init, Streaming
<1>3. Paged /\ Asking /\ Bounded
    <2>1. board \in BoardType
        BY DEF Init, NoBoard, BoardType
    <2>2. Paged
        BY <2>1 DEF Init, Paged
    <2>3. Idle \in FetchType /\ Idle \in ClickType
        BY DEF FetchType, ClickType
    <2>4. Asking
        BY <2>3 DEF Init, Asking
    <2>5. Bounded
        BY BoardAssumption DEF Init, Bounded
    <2> QED BY <2>2, <2>4, <2>5
<1>4. Linked
    BY DEF Init, Linked, Attached, Free, Idle
<1> QED BY <1>1, <1>2, <1>3, <1>4 DEF IInv

\* Every step keeps the invariant.
LEMMA NextIInv == IInv /\ [Next]_vars => IInv'
<1> SUFFICES ASSUME IInv, [Next]_vars PROVE IInv'
    OBVIOUS
<1>1. CASE \E g \in Game : Change(g) \/ Publish(g)
    BY <1>1, ChangeIInv, PublishIInv
<1>2. CASE PageAsks
    BY <1>2, OpenGameIInv, LeaveIInv, ToggleIInv DEF PageAsks
<1>3. CASE \E c \in Conn : Streams(c)
    BY <1>3, AcquireIInv, SubscribeIInv, WriteInVainIInv, GoneIInv, ReconnectIInv,
       ReceiveIInv DEF Streams
<1>4. CASE Replies
    BY <1>4, ReadBoardIInv, AnswerIInv, HandleToggleIInv, RevertIInv DEF Replies
<1>5. CASE Faults
    BY <1>5, RefuseIInv, TurnAwayIInv, BreakIInv, AnswerFailsIInv, ToggleLostIInv DEF Faults
<1>6. CASE UNCHANGED vars
    BY <1>6 DEF vars, store, page, bounds, IInv, Stored, Streaming, Live, Paged, Asking, Linked,
                Bounded, Attached
<1> QED BY <1>1, <1>2, <1>3, <1>4, <1>5, <1>6 DEF Next

\* The invariant holds in every behaviour.
LEMMA AlwaysIInv == Spec => []IInv
BY InitIInv, NextIInv, PTL DEF Spec

(* The player never has more streams than the cap, and the page asks for   *)
(* boards and marks cells of games only.                                   *)
THEOREM TypeCorrect == Spec => []TypeOK
<1>1. IInv => TypeOK
    BY DEF IInv, Stored, Streaming, Paged, Asking, Bounded, TypeOK, FetchType, ClickType
<1> QED BY <1>1, AlwaysIInv, PTL

(* Whatever way streams end - refused before or after they took a slot,    *)
(* broken, left, lingering - the count kept by acquireSSE and releaseSSE   *)
(* is the number of requests that hold one.                                *)
THEOREM NoSlotIsLost == Spec => []SlotsAreStreams
<1>1. IInv => SlotsAreStreams
    BY DEF IInv, Streaming, Live, SlotsAreStreams
<1> QED BY <1>1, AlwaysIInv, PTL

-----------------------------------------------------------------------------
(* What the page shows. *)


\* One stream at most is the page's own, and it has not been told anything yet
\* while it is being asked for.
OneStream ==
    /\ \A c, d \in Conn : Attached(c) /\ Attached(d) => c = d
    /\ es # "on" => \A c \in Conn : ~ Attached(c)
    /\ \A c \in Conn : conn[c].pc \in {"request", "held"} => conn[c].buffer = 0

\* An answer on its way is a board its game has had: the last one, if no change
\* has come after it and the card is on it.
Snapshots ==
    \A f \in Fetch : fetch[f].pc = "answered" =>
        /\ fetch[f].snap.rev <= rev[fetch[f].snap.game]
        /\ fetch[f].snap.rev = rev[fetch[f].snap.game] /\ fetch[f].snap.card =>
             fetch[f].snap = Truth(fetch[f].snap.game)

\* Clicks that show are in the board that is there.
Placed == \A k \in Click : click[k].pc # "idle" /\ click[k].shown => click[k].game = board.game

\* The clicks that show and go back to m.
Shown(requests, m) ==
    {k \in Click : requests[k].pc # "idle" /\ requests[k].shown /\ requests[k].prev = m}

\* Clicks alternate: taking back all that show makes m of the mark there is.
Balanced(requests, now, m) ==
    Cardinality(Shown(requests, m)) =
        Cardinality(Shown(requests, ~m)) + IF now = m THEN 0 ELSE 1

\* The ways on which the page is still to learn of the last change, or that it cannot:
\* an answer without the card leaves it blind.
Hears == unsent[gameId] > 0
Told == \E c \in Conn : Attached(c) /\ conn[c].buffer > 0
Asks == \E f \in Fetch : fetch[f].pc = "sent" /\ fetch[f].current /\ fetch[f].game = gameId
Gets == \E f \in Fetch : /\ fetch[f].pc = "answered" /\ fetch[f].current
                         /\ fetch[f].snap = Truth(gameId) \/ ~ fetch[f].snap.card

\* Or it has been drawn, with the clicks on top of it.
Has ==
    /\ view = "board" /\ board.game = gameId
    /\ board.rev = rev[gameId] /\ board.open = open[gameId] /\ board.card
    /\ Balanced(click, board.mark, mark[gameId])

InTheKnow == view # "other" /\ ~blind => Hears \/ Told \/ Asks \/ Gets \/ Has

Truthful == OneStream /\ Snapshots /\ Placed /\ InTheKnow

--------------------------------------------------------------------------------
(* Counting clicks. *)

LEMMA ShownFinite ==
    ASSUME NEW requests, NEW m
    PROVE  IsFiniteSet(Shown(requests, m)) /\ Cardinality(Shown(requests, m)) \in Nat
<1>1. IsFiniteSet(Click) /\ Shown(requests, m) \subseteq Click
    BY BoardAssumption DEF Shown
<1>2. IsFiniteSet(Shown(requests, m))
    BY <1>1, FS_Subset
<1> QED BY <1>2, FS_CardinalityType

\* A board just drawn: no click shows.
LEMMA NoneShown ==
    ASSUME NEW requests, \A k \in Click : requests[k].pc # "idle" => ~ requests[k].shown,
           NEW m \in BOOLEAN
    PROVE  Balanced(requests, m, m)
<1>1. Shown(requests, m) = {} /\ Shown(requests, ~m) = {}
    BY DEF Shown
<1>2. Cardinality({}) = 0
    BY FS_EmptySet
<1> QED BY <1>1, <1>2 DEF Balanced

\* Steps that make no click show or stop showing.
LEMMA SameShown ==
    ASSUME NEW before, NEW after, NEW now \in BOOLEAN, NEW m \in BOOLEAN,
           \A b \in BOOLEAN : Shown(after, b) = Shown(before, b),
           Balanced(before, now, m)
    PROVE  Balanced(after, now, m)
<1>1. Shown(after, m) = Shown(before, m) /\ Shown(after, ~m) = Shown(before, ~m)
    OBVIOUS
<1> QED BY <1>1 DEF Balanced

\* One click more.
LEMMA OneMoreShown ==
    ASSUME NEW before, NEW after, NEW now \in BOOLEAN, NEW m \in BOOLEAN, NEW k \in Click,
           before[k].pc = "idle",
           after[k].pc # "idle" /\ after[k].shown /\ after[k].prev = now,
           \A j \in Click : j # k => after[j] = before[j],
           Balanced(before, now, m)
    PROVE  Balanced(after, ~now, m)
<1>1. /\ Shown(after, now) = Shown(before, now) \cup {k} /\ k \notin Shown(before, now)
      /\ Shown(after, ~now) = Shown(before, ~now)
    BY DEF Shown
<1>2. Cardinality(Shown(before, now) \cup {k}) = Cardinality(Shown(before, now)) + 1
    BY <1>1, ShownFinite, FS_AddElement
<1>3. /\ Cardinality(Shown(before, now)) \in Nat /\ Cardinality(Shown(before, ~now)) \in Nat
    BY ShownFinite
<1>4. CASE now = m
    <2>1. Cardinality(Shown(before, m)) = Cardinality(Shown(before, ~m))
        BY <1>3, <1>4 DEF Balanced
    <2>2. Cardinality(Shown(after, m)) = Cardinality(Shown(after, ~m)) + 1
        BY <1>1, <1>2, <1>4, <2>1
    <2>3. (~now) # m
        BY <1>4
    <2> QED BY <2>2, <2>3 DEF Balanced
<1>5. CASE now # m
    <2>1. now = ~m /\ (~now) = m
        BY <1>5
    <2>2. Cardinality(Shown(before, m)) = Cardinality(Shown(before, ~m)) + 1
        BY <1>5 DEF Balanced
    <2>3. Shown(after, ~m) = Shown(before, ~m) \cup {k} /\ Shown(after, m) = Shown(before, m)
        BY <1>1, <2>1
    <2>4. Cardinality(Shown(after, ~m)) = Cardinality(Shown(before, ~m)) + 1
        BY <1>2, <2>1, <2>3
    <2>5. Cardinality(Shown(after, m)) = Cardinality(Shown(after, ~m)) + 0
        <3>1. Cardinality(Shown(before, ~m)) \in Nat
            BY ShownFinite
        <3> QED BY <3>1, <2>2, <2>3, <2>4
    <2> QED BY <2>1, <2>5 DEF Balanced
<1> QED BY <1>4, <1>5

\* One click taken back that goes where the cell is not.
LEMMA OneLessShown ==
    ASSUME NEW before, NEW after, NEW prev \in BOOLEAN, NEW m \in BOOLEAN, NEW k \in Click,
           before[k].pc # "idle" /\ before[k].shown /\ before[k].prev = prev,
           after[k].pc = "idle",
           \A j \in Click : j # k => after[j] = before[j],
           Balanced(before, ~prev, m)
    PROVE  Balanced(after, prev, m)
<1>1. /\ Shown(after, prev) = Shown(before, prev) \ {k} /\ k \in Shown(before, prev)
      /\ Shown(after, ~prev) = Shown(before, ~prev)
    BY DEF Shown
<1>2. Cardinality(Shown(before, prev) \ {k}) = Cardinality(Shown(before, prev)) - 1
    BY <1>1, ShownFinite, FS_RemoveElement
<1>3. /\ Cardinality(Shown(before, prev)) \in Nat /\ Cardinality(Shown(before, ~prev)) \in Nat
    BY ShownFinite
<1>4. CASE prev = m
    <2>1. (~prev) # m
        BY <1>4
    <2>2. Cardinality(Shown(before, m)) = Cardinality(Shown(before, ~m)) + 1
        BY <2>1 DEF Balanced
    <2>3. /\ Cardinality(Shown(after, m)) = Cardinality(Shown(before, m)) - 1
          /\ Shown(after, ~m) = Shown(before, ~m)
        BY <1>1, <1>2, <1>4
    <2>4. Cardinality(Shown(after, m)) = Cardinality(Shown(after, ~m)) + 0
        <3>1. Cardinality(Shown(before, ~m)) \in Nat
            BY ShownFinite
        <3> QED BY <3>1, <2>2, <2>3
    <2> QED BY <1>4, <2>4 DEF Balanced
<1>5. CASE prev # m
    <2>1. prev = ~m /\ (~prev) = m
        BY <1>5
    <2>2. Cardinality(Shown(before, m)) = Cardinality(Shown(before, ~m)) + 0
        BY <2>1 DEF Balanced
    <2>3. Shown(after, ~m) = Shown(before, ~m) \ {k} /\ Shown(after, m) = Shown(before, m)
        BY <1>1, <2>1
    <2>4. Cardinality(Shown(after, ~m)) = Cardinality(Shown(before, ~m)) - 1
        BY <1>2, <2>1, <2>3
    <2>5. Cardinality(Shown(after, m)) = Cardinality(Shown(after, ~m)) + 1
        <3>1. Cardinality(Shown(before, ~m)) \in Nat
            BY ShownFinite
        <3> QED BY <3>1, <2>2, <2>3, <2>4
    <2> QED BY <1>5, <2>5 DEF Balanced
<1> QED BY <1>4, <1>5

--------------------------------------------------------------------------------
(* Steps of streams. *)

\* Steps that change streams only and lose nothing the page was told.
LEMMA StreamsOnly ==
    ASSUME Truthful, OneStream', Told => Told',
           UNCHANGED <<rev, mark, open, unsent, gameId, board, view, fetch, click, blind>>
    PROVE  Truthful'
<1>1. Snapshots' /\ Placed'
    BY DEF Truthful, Snapshots, Placed, Truth
<1>2. /\ Hears' = Hears /\ Asks' = Asks /\ Gets' = Gets /\ Has' = Has
    BY DEF Hears, Asks, Gets, Has, Truth
<1>3. InTheKnow'
    BY <1>2 DEF Truthful, InTheKnow
<1> QED BY <1>1, <1>3 DEF Truthful

\* Steps of one handler that do not make its stream the page's.
LEMMA OneStreamKept ==
    ASSUME OneStream, NEW c \in Conn, \A d \in Conn : d # c => conn'[d] = conn[d],
           Attached(c)' => Attached(c),
           conn'[c].pc \in {"request", "held"} => conn'[c].buffer = 0,
           es' = es \/ \A d \in Conn : ~ Attached(d)'
    PROVE  OneStream'
<1>1. \A d \in Conn : Attached(d)' => Attached(d)
    BY DEF Attached
<1>2. \A d \in Conn : conn'[d].pc \in {"request", "held"} => conn'[d].buffer = 0
    BY DEF OneStream
<1> QED BY <1>1, <1>2 DEF OneStream

\* A request for a stream that is refused: the page was not told anything by it.
LEMMA RefusedTruthful ==
    ASSUME IInv, Truthful, NEW c \in Conn, conn[c].pc \in {"request", "held"}, Refused(c),
           UNCHANGED <<rev, mark, open, unsent, gameId, board, view, fetch, click, blind>>
    PROVE  Truthful'
<1>1. conn' = [conn EXCEPT ![c] = Free] /\ es' = IF Attached(c) THEN "refused" ELSE es
    BY DEF Refused
<1>2. conn'[c] = Free /\ \A d \in Conn : d # c => conn'[d] = conn[d]
    BY <1>1 DEF IInv, Streaming
<1>3. Free.pc = "free"
    BY DEF Free
<1>4. ~ Attached(c)' /\ \A d \in Conn : d # c => (Attached(d)' <=> Attached(d))
    BY <1>2, <1>3 DEF Attached
<1>5. Attached(c) => \A d \in Conn : ~ Attached(d)'
    BY <1>4 DEF Truthful, OneStream
<1>6. OneStream'
    BY <1>1, <1>2, <1>3, <1>4, <1>5, OneStreamKept DEF Truthful
<1>7. Told => Told'
    <2>1. conn[c].buffer = 0
        BY DEF Truthful, OneStream
    <2> QED BY <1>2, <1>4, <2>1 DEF Told
<1> QED BY <1>6, <1>7, StreamsOnly

LEMMA RefuseTruthful == ASSUME IInv, Truthful, NEW c \in Conn, Refuse(c) PROVE Truthful'
BY RefusedTruthful DEF Refuse, store

LEMMA TurnAwayTruthful == ASSUME IInv, Truthful, NEW c \in Conn, TurnAway(c) PROVE Truthful'
BY RefusedTruthful DEF TurnAway, store

\* A handler that goes on: it has not been told anything.
LEMMA GoesOnTruthful ==
    ASSUME IInv, Truthful, NEW c \in Conn, conn[c].pc \in {"request", "held"},
           NEW pc \in {"held", "live"}, conn' = [conn EXCEPT ![c].pc = pc],
           UNCHANGED <<rev, mark, open, unsent, gameId, board, view, es, fetch, click, blind>>
    PROVE  Truthful'
<1>1. conn[c] \in Handler
    BY ConnFacts DEF IInv
<1>2. /\ conn'[c] = [conn[c] EXCEPT !.pc = pc]
      /\ \A d \in Conn : d # c => conn'[d] = conn[d]
    BY DEF IInv, Streaming
<1>3. /\ conn'[c].pc = pc /\ conn'[c].attached = conn[c].attached
      /\ conn'[c].buffer = conn[c].buffer
    BY <1>1, <1>2 DEF Handler
<1>4. \A d \in Conn : Attached(d)' <=> Attached(d)
    BY <1>2, <1>3 DEF Attached
<1>5. conn[c].buffer = 0
    BY DEF Truthful, OneStream
<1>6. OneStream'
    BY <1>2, <1>3, <1>4, <1>5, OneStreamKept DEF Truthful
<1>7. Told => Told'
    BY <1>2, <1>4, <1>5 DEF Told
<1> QED BY <1>6, <1>7, StreamsOnly

LEMMA AcquireTruthful == ASSUME IInv, Truthful, NEW c \in Conn, Acquire(c) PROVE Truthful'
<1>1. /\ conn[c].pc = "request"
      /\ UNCHANGED <<rev, mark, open, unsent, gameId, board, view, fetch, click, blind>>
    BY DEF Acquire, store
<1>2. CASE conn' = [conn EXCEPT ![c].pc = "held"] /\ UNCHANGED es
    BY <1>1, <1>2, GoesOnTruthful
<1>3. CASE Refused(c)
    BY <1>1, <1>3, RefusedTruthful
<1> QED BY <1>2, <1>3 DEF Acquire

LEMMA SubscribeTruthful == ASSUME IInv, Truthful, NEW c \in Conn, Subscribe(c) PROVE Truthful'
BY GoesOnTruthful DEF Subscribe, store, page

LEMMA WriteInVainTruthful ==
    ASSUME IInv, Truthful, NEW c \in Conn, WriteInVain(c) PROVE Truthful'
<1>1. /\ conn[c].pc = "live" /\ ~ Attached(c) /\ conn[c].buffer > 0
      /\ conn' = [conn EXCEPT ![c].buffer = @ - 1]
      /\ UNCHANGED <<rev, mark, open, unsent, slots, gameId, board, view, es, fetch, click, blind>>
    BY DEF WriteInVain, store, page
<1>2. \A d \in Conn : Attached(d)' <=> Attached(d)
    BY <1>1, Written
<1>3. conn'[c].pc = "live" /\ \A d \in Conn : d # c => conn'[d] = conn[d]
    <2>1. conn[c] \in Handler
        BY <1>1, ConnFacts DEF IInv
    <2> QED BY <1>1, <2>1 DEF IInv, Streaming, Handler
<1>4. OneStream'
    BY <1>1, <1>2, <1>3, OneStreamKept DEF Truthful
<1>5. Told => Told'
    BY <1>1, <1>2, <1>3 DEF Told
<1> QED BY <1>1, <1>4, <1>5, StreamsOnly

LEMMA GoneTruthful == ASSUME IInv, Truthful, NEW c \in Conn, Gone(c) PROVE Truthful'
<1>1. /\ conn[c].pc = "live" /\ ~ Attached(c) /\ conn' = [conn EXCEPT ![c] = Free]
      /\ UNCHANGED <<rev, mark, open, unsent, gameId, board, view, es, fetch, click, blind>>
    BY DEF Gone, store, page
<1>2. /\ conn'[c] = Free /\ Free.pc = "free" /\ \A d \in Conn : d # c => conn'[d] = conn[d]
    BY <1>1 DEF IInv, Streaming, Free
<1>3. \A d \in Conn : Attached(d)' <=> Attached(d)
    BY <1>1, <1>2 DEF Attached
<1>4. OneStream'
    BY <1>1, <1>2, <1>3, OneStreamKept DEF Truthful
<1>5. Told => Told'
    BY <1>1, <1>2, <1>3 DEF Told
<1> QED BY <1>1, <1>4, <1>5, StreamsOnly

\* A stream is asked for by a page that has none.
LEMMA RequestedOneStream ==
    ASSUME IInv, NEW c \in Conn, NEW g, \A d \in Conn : ~ Attached(d), OneStream,
           conn' = Requested(conn, c, g), es' = "on"
    PROVE  OneStream'
<1>1. /\ conn'[c] = [pc |-> "request", game |-> g, attached |-> TRUE, buffer |-> 0]
      /\ \A d \in Conn : d # c => conn'[d] = conn[d]
    BY DEF Requested, IInv, Streaming
<1>2. \A d \in Conn : Attached(d)' => d = c
    BY <1>1 DEF Attached
<1>3. \A d \in Conn : conn'[d].pc \in {"request", "held"} => conn'[d].buffer = 0
    BY <1>1 DEF OneStream
<1> QED BY <1>2, <1>3 DEF OneStream

LEMMA ReconnectTruthful ==
    ASSUME IInv, Truthful, NEW c \in Conn, Reconnect(c) PROVE Truthful'
<1>1. /\ es = "waiting" /\ es' = "on" /\ conn' = Requested(conn, c, gameId)
      /\ UNCHANGED <<rev, mark, open, unsent, gameId, board, view, fetch, click, blind>>
    BY DEF Reconnect, store
<1>2. \A d \in Conn : ~ Attached(d)
    BY <1>1 DEF Truthful, OneStream
<1>3. OneStream'
    BY <1>1, <1>2, RequestedOneStream DEF Truthful
<1>4. ~ Told
    BY <1>2 DEF Told
<1> QED BY <1>1, <1>3, <1>4, StreamsOnly

\* What breaks with something to tell leaves the page blind.
LEMMA BreakTruthful == ASSUME IInv, Truthful, NEW c \in Conn, Break(c) PROVE Truthful'
<1>1. /\ Attached(c) /\ es' = "waiting" /\ conn' = Detached
      /\ blind' = (view # "other" /\ (blind \/ conn[c].buffer > 0))
      /\ UNCHANGED <<rev, mark, open, unsent, gameId, board, view, fetch, click>>
    BY DEF Break, store, Misled
<1>2. \A d \in Conn : ~ Attached(d)' /\ conn'[d].pc = conn[d].pc
    BY <1>1, DetachedFacts DEF IInv, Attached
<1>3. ASSUME NEW d \in Conn, conn'[d].pc \in {"request", "held"} PROVE conn'[d].buffer = 0
    <2>1. conn[d].pc \in {"request", "held"} /\ conn[d].buffer = 0 /\ conn[d] \in Handler
        BY <1>2, <1>3, ConnFacts DEF Truthful, OneStream, IInv
    <2>2. conn'[d] = conn[d] \/ conn'[d] = [conn[d] EXCEPT !.attached = FALSE]
        BY <1>1 DEF Detached
    <2> QED BY <2>1, <2>2 DEF Handler
<1>4. OneStream'
    BY <1>2, <1>3 DEF OneStream
<1>5. Snapshots' /\ Placed'
    BY <1>1 DEF Truthful, Snapshots, Placed, Truth, IInv, Paged
<1>6. InTheKnow'
    <2>1. SUFFICES ASSUME view # "other", ~ blind'
                   PROVE  Hears' \/ Told' \/ Asks' \/ Gets' \/ Has'
        BY <1>1 DEF InTheKnow
    <2>2. ~ blind /\ ~ (conn[c].buffer > 0)
        BY <1>1, <2>1
    <2>3. ~ Told
        BY <1>1, <2>2 DEF Truthful, OneStream, Told
    <2>4. Hears \/ Asks \/ Gets \/ Has
        BY <2>1, <2>2, <2>3 DEF Truthful, InTheKnow
    <2>5. Hears' = Hears /\ Asks' = Asks /\ Gets' = Gets /\ Has' = Has
        BY <1>1 DEF Hears, Asks, Gets, Has, Truth
    <2> QED BY <2>4, <2>5
<1> QED BY <1>4, <1>5, <1>6 DEF Truthful

--------------------------------------------------------------------------------
(* The store and the hub. *)

\* What a change of game g leaves and what it outdates; published or not, the page
\* of that game is to hear of it, or is blind.
LEMMA Committed ==
    ASSUME IInv, Snapshots, NEW g \in Game, NEW flip \in BOOLEAN, NEW close \in BOOLEAN,
           Commit(g, flip, close), Announced(g) \/ Unannounced(g), fetch' = fetch
    PROVE  /\ Snapshots'
           /\ unsent'[g] > 0 \/ (gameId = g /\ view # "other" => blind')
           /\ view # "other" /\ ~ blind' => ~ blind
           /\ \A h \in Game : h # g => /\ Truth(h)' = Truth(h) /\ unsent'[h] = unsent[h]
                                       /\ rev'[h] = rev[h] /\ mark'[h] = mark[h]
                                       /\ open'[h] = open[h]
<1>1. /\ rev' = [rev EXCEPT ![g] = @ + 1]
      /\ mark' = [mark EXCEPT ![g] = IF flip THEN ~@ ELSE @]
      /\ open' = [open EXCEPT ![g] = ~close]
    BY DEF Commit
<1>2. rev'[g] = rev[g] + 1 /\ rev[g] \in Nat /\ unsent[g] \in Nat
    BY <1>1 DEF IInv, Stored
<1>3. \A h \in Game : h # g => /\ rev'[h] = rev[h] /\ mark'[h] = mark[h]
                               /\ open'[h] = open[h] /\ unsent'[h] = unsent[h]
    BY <1>1 DEF IInv, Stored, Announced, Unannounced
<1>6. /\ unsent'[g] > 0 \/ (gameId = g /\ view # "other" => blind')
      /\ view # "other" /\ ~ blind' => ~ blind
    <2>1. CASE Announced(g)
        BY <1>2, <2>1 DEF Announced, IInv, Stored
    <2>2. CASE Unannounced(g)
        BY <2>2 DEF Unannounced, Misled
    <2> QED BY <2>1, <2>2
<1>4. \A h \in Game : h # g => Truth(h)' = Truth(h)
    BY <1>3 DEF Truth
<1>5. Snapshots'
    <2>1. SUFFICES ASSUME NEW f \in Fetch, fetch[f].pc = "answered"
                   PROVE  /\ fetch[f].snap.rev <= rev'[fetch[f].snap.game]
                          /\ /\ fetch[f].snap.rev = rev'[fetch[f].snap.game]
                             /\ fetch[f].snap.card
                             => fetch[f].snap = Truth(fetch[f].snap.game)'
        BY DEF Snapshots
    <2>2. fetch[f].snap.game \in Game /\ fetch[f].snap.rev \in Nat
        BY <2>1, FetchFacts DEF BoardType
    <2>3. /\ fetch[f].snap.rev <= rev[fetch[f].snap.game]
          /\ fetch[f].snap.rev = rev[fetch[f].snap.game] /\ fetch[f].snap.card =>
               fetch[f].snap = Truth(fetch[f].snap.game)
        BY <2>1 DEF Snapshots
    <2>4. CASE fetch[f].snap.game = g
        BY <2>2, <2>3, <2>4, <1>2
    <2>5. CASE fetch[f].snap.game # g
        <3>1. rev'[fetch[f].snap.game] = rev[fetch[f].snap.game]
            BY <2>2, <2>5, <1>3
        <3>2. Truth(fetch[f].snap.game)' = Truth(fetch[f].snap.game)
            BY <2>1, <2>2, <2>5, <1>3 DEF Truth
        <3> QED BY <2>3, <3>1, <3>2
    <2> QED BY <2>4, <2>5
<1> QED BY <1>3, <1>4, <1>5, <1>6

\* The page is as it was, and has to learn of it if it is its game.
LEMMA CommitKnown ==
    ASSUME IInv, Truthful, NEW g \in Game, NEW flip \in BOOLEAN, NEW close \in BOOLEAN,
           Commit(g, flip, close), Announced(g) \/ Unannounced(g),
           UNCHANGED <<conn, gameId, board, view, fetch>>,
           view # "other" /\ gameId # g /\ Has =>
               Balanced(click', board.mark, mark[gameId])
    PROVE  Snapshots' /\ InTheKnow'
<1>1. /\ Snapshots'
      /\ unsent'[g] > 0 \/ (gameId = g /\ view # "other" => blind')
      /\ view # "other" /\ ~ blind' => ~ blind
      /\ \A h \in Game : h # g => /\ Truth(h)' = Truth(h) /\ unsent'[h] = unsent[h]
                                  /\ rev'[h] = rev[h] /\ mark'[h] = mark[h]
                                  /\ open'[h] = open[h]
    BY Committed DEF Truthful
<1>2. InTheKnow'
    <2>1. SUFFICES ASSUME view # "other", ~ blind'
                   PROVE  Hears' \/ Told' \/ Asks' \/ Gets' \/ Has'
        BY DEF InTheKnow
    <2>2. CASE gameId = g
        BY <1>1, <2>1, <2>2 DEF Hears
    <2>3. CASE gameId # g
        <3>1. gameId \in Game
            BY <2>1 DEF IInv, Linked
        <3>2. /\ unsent'[gameId] = unsent[gameId] /\ rev'[gameId] = rev[gameId]
              /\ mark'[gameId] = mark[gameId] /\ open'[gameId] = open[gameId]
            BY <1>1, <2>3, <3>1
        <3>3. (Hears => Hears') /\ (Told => Told') /\ (Asks => Asks')
            BY <3>2 DEF Hears, Told, Asks, Attached
        <3>4. Gets => Gets'
            BY <3>2 DEF Gets, Truth
        <3>5. Has => Has'
            BY <2>1, <2>3, <3>2 DEF Has
        <3> QED BY <1>1, <2>1, <3>3, <3>4, <3>5 DEF Truthful, InTheKnow
    <2> QED BY <2>2, <2>3
<1> QED BY <1>1, <1>2

LEMMA ChangeTruthful == ASSUME IInv, Truthful, NEW g \in Game, Change(g) PROVE Truthful'
<1>1. /\ \E flip, close \in BOOLEAN : Commit(g, flip, close)
      /\ Announced(g) \/ Unannounced(g)
      /\ UNCHANGED <<conn, gameId, board, view, es, fetch, click>>
    BY DEF Change, page
<1>2. Has => Balanced(click', board.mark, mark[gameId])
    BY <1>1 DEF Has
<1>3. Snapshots' /\ InTheKnow'
    BY <1>1, <1>2, CommitKnown
<1>4. OneStream' /\ Placed'
    BY <1>1 DEF Truthful, OneStream, Attached, Placed
<1> QED BY <1>3, <1>4 DEF Truthful

LEMMA PublishTruthful == ASSUME IInv, Truthful, NEW g \in Game, Publish(g) PROVE Truthful'
<1>1. /\ unsent' = [unsent EXCEPT ![g] = @ - 1]
      /\ conn' = [c \in Conn |-> IF Subscribed(c, g)
                                THEN [conn[c] EXCEPT !.buffer = Buffered(c)] ELSE conn[c]]
      /\ blind' = (view # "other" /\ (blind \/ (gameId = g /\ ~Watched(g))))
      /\ UNCHANGED <<rev, mark, open, gameId, board, view, es, fetch, click>>
    BY DEF Publish, page, Misled
<1>2. ASSUME NEW c \in Conn
      PROVE  /\ conn'[c].pc = conn[c].pc /\ (Attached(c)' <=> Attached(c))
             /\ Subscribed(c, g) => conn'[c].buffer > 0
             /\ ~ Subscribed(c, g) => conn'[c] = conn[c]
    <2>1. CASE Subscribed(c, g)
        <3>1. conn[c].pc # "free" /\ conn'[c] = [conn[c] EXCEPT !.buffer = Buffered(c)]
            BY <1>1, <2>1 DEF Subscribed
        <3>2. conn[c] \in Handler
            BY <3>1, ConnFacts DEF IInv
        <3>3. Buffered(c) \in 0 .. Buffer /\ Buffered(c) > 0
            BY <3>2, BoardAssumption DEF Buffered, Handler
        <3>4. /\ conn'[c].pc = conn[c].pc /\ conn'[c].attached = conn[c].attached
              /\ conn'[c].buffer = Buffered(c)
            BY <3>1, <3>2 DEF Handler
        <3> QED BY <2>1, <3>3, <3>4 DEF Attached
    <2>2. CASE ~ Subscribed(c, g)
        BY <1>1, <2>2 DEF Attached
    <2> QED BY <2>1, <2>2
<1>3. OneStream'
    <2>1. ASSUME NEW c \in Conn, conn'[c].pc \in {"request", "held"} PROVE conn'[c].buffer = 0
        BY <1>2, <2>1 DEF Truthful, OneStream, Subscribed
    <2> QED BY <1>1, <1>2, <2>1 DEF Truthful, OneStream
<1>4. Snapshots' /\ Placed'
    BY <1>1 DEF Truthful, Snapshots, Placed, Truth, IInv, Paged
<1>5. InTheKnow'
    <2>1. SUFFICES ASSUME view # "other", ~ blind'
                   PROVE  Hears' \/ Told' \/ Asks' \/ Gets' \/ Has'
        BY <1>1 DEF InTheKnow
    <2>2. ~ blind /\ (gameId = g => Watched(g))
        BY <1>1, <2>1
    <2>3. CASE gameId = g
        BY <1>2, <2>2, <2>3 DEF Watched, Told
    <2>4. CASE gameId # g
        <3>1. unsent'[gameId] = unsent[gameId]
            BY <1>1, <2>4 DEF IInv, Stored
        <3>2. Hears => Hears'
            BY <1>1, <3>1 DEF Hears
        <3>3. Told => Told'
            BY <1>2 DEF Told
        <3>4. Asks' = Asks /\ Gets' = Gets /\ Has' = Has
            BY <1>1 DEF Asks, Gets, Has, Truth
        <3> QED BY <2>1, <2>2, <3>2, <3>3, <3>4 DEF Truthful, InTheKnow
    <2> QED BY <2>3, <2>4
<1> QED BY <1>3, <1>4, <1>5 DEF Truthful

--------------------------------------------------------------------------------
(* Opening, leaving, being told. *)

\* A new request for the board is neither an answer nor in the place of one.
LEMMA AskedKeeps ==
    ASSUME IInv, NEW f \in Fetch, NEW g, fetch[f] = Idle, fetch' = Asked(fetch, f, g)
    PROVE  /\ fetch'[f] = [pc |-> "sent", game |-> g, current |-> TRUE]
           /\ \A e \in Fetch : e # f => fetch'[e] = fetch[e]
BY DEF Asked, IInv, Asking

LEMMA OpenGameTruthful ==
    ASSUME IInv, Truthful, NEW c \in Conn, NEW f \in Fetch, NEW g \in Game, OpenGame(c, f, g)
    PROVE  Truthful'
<1>1. /\ view = "other" /\ fetch[f] = Idle
      /\ gameId' = g /\ view' = "empty" /\ es' = "on"
      /\ fetch' = Asked(fetch, f, g) /\ conn' = Requested(conn, c, g)
      /\ UNCHANGED <<rev, mark, open, unsent, board, click>>
    BY DEF OpenGame, store
<1>2. /\ fetch'[f] = [pc |-> "sent", game |-> g, current |-> TRUE]
      /\ \A e \in Fetch : e # f => fetch'[e] = fetch[e]
    BY <1>1, AskedKeeps
<1>3. OneStream'
    <2>1. \A d \in Conn : ~ Attached(d)
        BY <1>1 DEF IInv, Linked
    <2> QED BY <1>1, <2>1, RequestedOneStream DEF Truthful
<1>4. Snapshots' /\ Placed'
    BY <1>1, <1>2 DEF Truthful, Snapshots, Placed, Truth
<1>5. Asks'
    BY <1>1, <1>2 DEF Asks
<1> QED BY <1>3, <1>4, <1>5 DEF Truthful, InTheKnow

LEMMA LeaveTruthful == ASSUME IInv, Truthful, Leave PROVE Truthful'
<1>1. /\ view' = "other" /\ conn' = Detached /\ fetch' = Older
      /\ UNCHANGED <<rev, mark, open, unsent, board, click>>
    BY DEF Leave, store
<1>2. \A d \in Conn : ~ Attached(d)' /\ conn'[d].pc = conn[d].pc
    BY <1>1, DetachedFacts DEF IInv, Attached
<1>3. ASSUME NEW d \in Conn, conn'[d].pc \in {"request", "held"} PROVE conn'[d].buffer = 0
    <2>1. conn[d].pc \in {"request", "held"} /\ conn[d].buffer = 0 /\ conn[d] \in Handler
        BY <1>2, <1>3, ConnFacts DEF Truthful, OneStream, IInv
    <2>2. conn'[d] = conn[d] \/ conn'[d] = [conn[d] EXCEPT !.attached = FALSE]
        BY <1>1 DEF Detached
    <2> QED BY <2>1, <2>2 DEF Handler
<1>4. OneStream'
    BY <1>2, <1>3 DEF OneStream
<1>5. Snapshots'
    <2>1. SUFFICES ASSUME NEW f \in Fetch, fetch'[f].pc = "answered"
                   PROVE  fetch[f].pc = "answered" /\ fetch'[f].snap = fetch[f].snap
        BY <1>1 DEF Truthful, Snapshots, Truth
    <2>2. fetch'[f] = IF fetch[f] = Idle THEN Idle ELSE [fetch[f] EXCEPT !.current = FALSE]
        BY <1>1 DEF Older
    <2>3. fetch[f] \in FetchType /\ Idle.pc = "idle"
        BY FetchFacts
    <2> QED BY <2>1, <2>2, <2>3 DEF FetchType
<1>6. Placed' /\ InTheKnow'
    BY <1>1 DEF Truthful, Placed, InTheKnow
<1> QED BY <1>4, <1>5, <1>6 DEF Truthful

LEMMA ReceiveTruthful ==
    ASSUME IInv, Truthful, NEW c \in Conn, NEW f \in Fetch, Receive(c, f) PROVE Truthful'
<1>1. /\ Attached(c) /\ conn[c].pc = "live" /\ conn[c].buffer > 0
      /\ fetch[f] = Idle
      /\ conn' = [conn EXCEPT ![c].buffer = @ - 1]
      /\ fetch' = Asked(fetch, f, gameId)
      /\ UNCHANGED <<rev, mark, open, unsent, slots, gameId, board, view, es, click>>
    BY DEF Receive, store, page
<1>2. /\ fetch'[f] = [pc |-> "sent", game |-> gameId, current |-> TRUE]
      /\ \A e \in Fetch : e # f => fetch'[e] = fetch[e]
    BY <1>1, AskedKeeps
<1>3. OneStream'
    <2>1. \A d \in Conn : Attached(d)' <=> Attached(d)
        BY <1>1, Written
    <2>2. conn'[c].pc = "live" /\ \A d \in Conn : d # c => conn'[d] = conn[d]
        <3>1. conn[c] \in Handler
            BY <1>1, ConnFacts DEF IInv
        <3> QED BY <1>1, <3>1 DEF IInv, Streaming, Handler
    <2> QED BY <1>1, <2>1, <2>2, OneStreamKept DEF Truthful
<1>4. Snapshots' /\ Placed'
    BY <1>1, <1>2 DEF Truthful, Snapshots, Placed, Truth
<1>5. Asks'
    BY <1>1, <1>2 DEF Asks
<1> QED BY <1>3, <1>4, <1>5 DEF Truthful, InTheKnow

--------------------------------------------------------------------------------
(* Answers. *)

\* Reading a board makes it an answer on its way, with or without the card.
LEMMA ReadBoardTruthful ==
    ASSUME IInv, Truthful, NEW f \in Fetch, ReadBoard(f) PROVE Truthful'
<1>1. /\ fetch[f].pc = "sent"
      /\ UNCHANGED <<rev, mark, open, unsent, conn, gameId, board, view, es, click, blind>>
    BY DEF ReadBoard, store, page
<1>2. PICK snap \in BoardType :
              /\ Answers(f, snap)
              /\ snap.game = fetch[f].game /\ snap.rev = rev[fetch[f].game]
              /\ snap.card => snap = Truth(fetch[f].game)
    BY ReadFacts
<1>3. /\ fetch'[f].pc = "answered" /\ fetch'[f].snap = snap
      /\ fetch'[f].current = fetch[f].current
      /\ \A e \in Fetch : e # f => fetch'[e] = fetch[e]
    BY <1>2 DEF IInv, Asking, Answers
<1>4. Snapshots'
    <2>1. rev[fetch[f].game] \in Nat
        BY <1>1, FetchFacts DEF IInv, Stored
    <2>2. SUFFICES ASSUME NEW e \in Fetch, fetch'[e].pc = "answered"
                   PROVE  /\ fetch'[e].snap.rev <= rev[fetch'[e].snap.game]
                          /\ fetch'[e].snap.rev = rev[fetch'[e].snap.game] /\ fetch'[e].snap.card =>
                               fetch'[e].snap = Truth(fetch'[e].snap.game)
        BY <1>1 DEF Snapshots, Truth
    <2>3. CASE e = f
        BY <1>2, <1>3, <2>1, <2>3
    <2>4. CASE e # f
        BY <1>3, <2>2, <2>4 DEF Truthful, Snapshots
    <2> QED BY <2>3, <2>4
<1>5. OneStream' /\ Placed'
    BY <1>1 DEF Truthful, OneStream, Attached, Placed
<1>6. InTheKnow'
    <2>1. Hears' = Hears /\ Told' = Told /\ Has' = Has
        BY <1>1 DEF Hears, Told, Attached, Has
    <2>2. Asks => Asks' \/ Gets'
        <3>1. SUFFICES ASSUME NEW e \in Fetch, fetch[e].pc = "sent", fetch[e].current,
                              fetch[e].game = gameId
                       PROVE  Asks' \/ Gets'
            BY DEF Asks
        <3>2. CASE e = f
            <4>1. snap = Truth(gameId)' \/ ~ snap.card
                BY <1>1, <1>2, <3>1, <3>2 DEF Truth
            <4> QED BY <1>1, <1>3, <3>1, <3>2, <4>1 DEF Gets
        <3>3. CASE e # f
            BY <1>1, <1>3, <3>1, <3>3 DEF Asks
        <3> QED BY <3>2, <3>3
    <2>3. Gets => Gets'
        BY <1>1, <1>3 DEF Gets, Truth
    <2> QED BY <1>1, <2>1, <2>2, <2>3 DEF Truthful, InTheKnow
<1> QED BY <1>4, <1>5, <1>6 DEF Truthful

\* A request that is over takes no other with it.
LEMMA OverKeeps ==
    ASSUME IInv, Snapshots, NEW f \in Fetch, fetch' = [fetch EXCEPT ![f] = Idle],
           UNCHANGED <<rev, mark, open>>
    PROVE  /\ \A e \in Fetch : e # f => fetch'[e] = fetch[e]
           /\ Snapshots'
<1>1. /\ fetch'[f] = Idle /\ \A e \in Fetch : e # f => fetch'[e] = fetch[e]
      /\ Idle.pc # "answered"
    BY DEF IInv, Asking, Idle
<1>2. Snapshots'
    BY <1>1 DEF Snapshots, Truth
<1> QED BY <1>1, <1>2

\* The store's board, drawn, is what the page has to show; another one does no harm
\* while that one is on its way, and leaves the page blind after it.
LEMMA AnswerTruthful == ASSUME IInv, Truthful, NEW f \in Fetch, Answer(f) PROVE Truthful'
<1> DEFINE snap == fetch[f].snap
<1>1. /\ fetch[f].pc = "answered" /\ board' = snap /\ view' = Rendered
      /\ fetch' = [fetch EXCEPT ![f] = Idle]
      /\ click' = [k \in Click |-> IF click[k] = Idle THEN Idle
                                  ELSE [click[k] EXCEPT !.shown = FALSE]]
      /\ UNCHANGED <<rev, mark, open, unsent, conn, gameId, es>>
    BY DEF Answer, store
<1>2. IF view # "other" /\ snap = Truth(gameId) THEN blind' = FALSE
      ELSE blind' = (view # "other" /\
                     (blind \/ ~ snap.card
                       \/ (view = "board" /\ board.game = gameId
                            /\ (snap.game # gameId \/ snap.rev < board.rev))))
    BY DEF Answer, Misled
<1>3. /\ \A e \in Fetch : e # f => fetch'[e] = fetch[e]
      /\ Snapshots'
    BY <1>1, OverKeeps DEF Truthful
<1>4. ASSUME NEW k \in Click, click'[k].pc # "idle" PROVE ~ click'[k].shown
    <2>1. click[k] = Idle \/ click[k] \in Sending
        BY ClickFacts
    <2>2. Idle.pc = "idle"
        BY DEF Idle
    <2>3. click'[k] = [click[k] EXCEPT !.shown = FALSE] /\ click[k] \in Sending
        BY <1>1, <1>4, <2>1, <2>2
    <2> QED BY <2>3 DEF Sending
<1>5. OneStream' /\ Placed'
    BY <1>1, <1>4 DEF Truthful, OneStream, Attached, Placed
<1>6. view' # "other" => view # "other" /\ view' = "board"
    BY <1>1 DEF Rendered
<1>7. snap \in BoardType /\ snap.game \in Game
    BY <1>1, FetchFacts
<1>8. view # "other" /\ snap = Truth(gameId) => Has'
    <2>1. SUFFICES ASSUME view # "other", snap = Truth(gameId) PROVE Has'
        OBVIOUS
    <2>2. gameId \in Game
        BY <2>1 DEF IInv, Linked
    <2>3. /\ board'.game = gameId /\ board'.rev = rev[gameId] /\ board'.open = open[gameId]
          /\ board'.mark = mark[gameId] /\ mark[gameId] \in BOOLEAN /\ board'.card
        BY <1>1, <2>1, <2>2 DEF Truth, IInv, Stored
    <2>4. Balanced(click', mark[gameId], mark[gameId])
        BY <1>4, <2>3, NoneShown
    <2>5. view' = "board"
        BY <1>1, <2>1 DEF Rendered
    <2> QED BY <1>1, <2>3, <2>4, <2>5 DEF Has
<1>9. InTheKnow'
    <2>1. SUFFICES ASSUME view # "other", ~ blind', snap # Truth(gameId)
                   PROVE  Hears' \/ Told' \/ Asks' \/ Gets'
        BY <1>6, <1>8 DEF InTheKnow
    <2>2. /\ ~ blind /\ snap.card
          /\ ~ (view = "board" /\ board.game = gameId
                 /\ (snap.game # gameId \/ snap.rev < board.rev))
        BY <1>2, <2>1
    <2>3. ~ Has
        <3>1. SUFFICES ASSUME Has PROVE FALSE
            OBVIOUS
        <3>2. snap.game = gameId /\ board.rev = rev[gameId] /\ ~ (snap.rev < rev[gameId])
            BY <2>2, <3>1 DEF Has
        <3>3. snap.rev <= rev[gameId] /\ (snap.rev = rev[gameId] => snap = Truth(gameId))
            BY <1>1, <2>2, <3>2 DEF Truthful, Snapshots
        <3>4. snap.rev \in Nat /\ rev[gameId] \in Nat
            BY <1>7, <3>2 DEF BoardType, IInv, Stored
        <3> QED BY <2>1, <3>2, <3>3, <3>4
    <2>4. Hears \/ Told \/ Asks \/ Gets
        BY <2>1, <2>2, <2>3 DEF Truthful, InTheKnow
    <2>5. (Hears => Hears') /\ (Told => Told')
        BY <1>1 DEF Hears, Told, Attached
    <2>6. Asks => Asks'
        BY <1>1, <1>3 DEF Asks
    <2>7. Gets => Gets'
        BY <1>1, <1>3, <2>1, <2>2 DEF Gets, Truth
    <2> QED BY <2>4, <2>5, <2>6, <2>7
<1> QED BY <1>3, <1>5, <1>9 DEF Truthful

LEMMA AnswerFailsTruthful ==
    ASSUME IInv, Truthful, NEW f \in Fetch, AnswerFails(f) PROVE Truthful'
<1>1. /\ fetch' = [fetch EXCEPT ![f] = Idle]
      /\ view' = IF fetch[f].current THEN "error" ELSE view
      /\ blind' = (view # "other" /\ (blind \/ fetch[f].current))
      /\ UNCHANGED <<rev, mark, open, unsent, conn, gameId, board, es, click>>
    BY DEF AnswerFails, store, Misled
<1>2. /\ \A e \in Fetch : e # f => fetch'[e] = fetch[e]
      /\ Snapshots'
    BY <1>1, OverKeeps DEF Truthful
<1>3. OneStream' /\ Placed'
    BY <1>1 DEF Truthful, OneStream, Attached, Placed
<1>4. fetch[f].pc \in {"sent", "answered"} /\ fetch[f] # Idle
    BY FetchFacts DEF AnswerFails
<1>5. view' # "other" => view # "other"
    BY <1>1, <1>4 DEF IInv, Linked
<1>6. InTheKnow'
    <2>1. SUFFICES ASSUME view # "other", ~ blind'
                   PROVE  Hears' \/ Told' \/ Asks' \/ Gets' \/ Has'
        BY <1>5 DEF InTheKnow
    <2>2. ~ blind /\ ~ fetch[f].current /\ view' = view
        BY <1>1, <2>1
    <2>3. (Hears => Hears') /\ (Told => Told')
        BY <1>1 DEF Hears, Told, Attached
    <2>4. (Asks => Asks') /\ (Gets => Gets')
        BY <1>1, <1>2, <2>2 DEF Asks, Gets, Truth
    <2>5. Has => Has'
        BY <1>1, <2>2 DEF Has
    <2> QED BY <2>1, <2>2, <2>3, <2>4, <2>5 DEF Truthful, InTheKnow
<1> QED BY <1>2, <1>3, <1>6 DEF Truthful

--------------------------------------------------------------------------------
(* Clicks. *)

LEMMA ToggleTruthful == ASSUME IInv, Truthful, NEW k \in Click, Toggle(k) PROVE Truthful'
<1> DEFINE r == [pc |-> "sent", game |-> board.game, prev |-> board.mark, shown |-> TRUE]
<1>1. /\ view = "board" /\ click[k] = Idle
      /\ click' = [click EXCEPT ![k] = r] /\ board' = [board EXCEPT !.mark = ~@]
      /\ UNCHANGED <<rev, mark, open, unsent, conn, gameId, view, es, fetch, blind>>
    BY DEF Toggle, store
<1>2. board \in BoardType /\ board.mark \in BOOLEAN
    BY DEF IInv, Paged, BoardType
<1>3. /\ board'.game = board.game /\ board'.rev = board.rev /\ board'.open = board.open
      /\ board'.mark = ~ board.mark /\ board'.card = board.card
    BY <1>1, <1>2 DEF BoardType
<1>4. /\ click'[k] = r /\ \A j \in Click : j # k => click'[j] = click[j]
    BY <1>1 DEF IInv, Asking
<1>5. OneStream' /\ Snapshots'
    BY <1>1, <1>3 DEF Truthful, OneStream, Attached, Snapshots, Truth
<1>6. Placed'
    BY <1>3, <1>4 DEF Truthful, Placed
<1>7. Has => Has'
    <2>1. SUFFICES ASSUME Has PROVE Has'
        OBVIOUS
    <2>2. mark[gameId] \in BOOLEAN
        BY <1>1 DEF IInv, Stored, Linked
    <2>3. Balanced(click, board.mark, mark[gameId])
        BY <2>1 DEF Has
    <2>4. click[k].pc = "idle"
        BY <1>1 DEF Idle
    <2>5. click'[k].pc # "idle" /\ click'[k].shown /\ click'[k].prev = board.mark
        BY <1>4
    <2>6. \A j \in Click : j # k => click'[j] = click[j]
        BY <1>4
    <2>7. Balanced(click', ~ board.mark, mark[gameId])
        <3> HIDE DEF r
        <3> QED BY <1>2, <2>2, <2>3, <2>4, <2>5, <2>6, OneMoreShown
    <2>8. Balanced(click', board'.mark, mark'[gameId'])
        BY <1>1, <1>3, <2>7
    <2> QED BY <1>1, <1>3, <2>1, <2>8 DEF Has
<1>8. InTheKnow'
    <2>1. Hears' = Hears /\ Told' = Told /\ Asks' = Asks /\ Gets' = Gets
        BY <1>1 DEF Hears, Told, Attached, Asks, Gets, Truth
    <2> QED BY <1>1, <1>7, <2>1 DEF Truthful, InTheKnow
<1> QED BY <1>5, <1>6, <1>8 DEF Truthful

\* A click of another game does not show on the page's board, and one that has
\* failed shows as before.
LEMMA ClickAnswered ==
    ASSUME IInv, Truthful, NEW k \in Click, click[k].pc = "sent", board' = board,
           \/ click' = [click EXCEPT ![k] = Idle]
           \/ click' = [click EXCEPT ![k].pc = "failed"]
    PROVE  /\ Placed'
           /\ /\ click' = [click EXCEPT ![k].pc = "failed"] \/ click[k].game # board.game
              => \A b \in BOOLEAN : Shown(click', b) = Shown(click, b)
<1>1. click[k] \in Sending /\ click \in [Click -> ClickType] /\ Idle.pc = "idle"
    BY ClickFacts DEF IInv, Asking
<1>2. \A j \in Click : j # k => click'[j] = click[j]
    BY <1>1
<1>3. CASE click' = [click EXCEPT ![k] = Idle]
    <2>1. click'[k].pc = "idle"
        BY <1>1, <1>3
    <2>2. Placed'
        BY <1>2, <2>1 DEF Truthful, Placed
    <2>3. click[k].game # board.game => ~ click[k].shown
        BY DEF Truthful, Placed
    <2>4. click[k].game # board.game => \A b : Shown(click', b) = Shown(click, b)
        BY <1>2, <2>1, <2>3 DEF Shown
    <2>5. click' = [click EXCEPT ![k].pc = "failed"] => FALSE
        BY <1>1, <2>1 DEF Sending
    <2> QED BY <2>2, <2>4, <2>5
<1>4. CASE click' = [click EXCEPT ![k].pc = "failed"]
    <2>1. /\ click'[k].pc = "failed" /\ click'[k].game = click[k].game
          /\ click'[k].shown = click[k].shown /\ click'[k].prev = click[k].prev
        BY <1>1, <1>4 DEF Sending
    <2>2. Placed'
        BY <1>2, <2>1 DEF Truthful, Placed
    <2>3. \A b : Shown(click', b) = Shown(click, b)
        BY <1>2, <2>1 DEF Shown
    <2> QED BY <2>2, <2>3
<1> QED BY <1>3, <1>4

\* Where no click appears or goes, the balance stays.
LEMMA StillBalanced ==
    ASSUME NEW now \in BOOLEAN, NEW m \in BOOLEAN, Balanced(click, now, m),
           \A b \in BOOLEAN : Shown(click', b) = Shown(click, b)
    PROVE  Balanced(click', now, m)
BY SameShown

\* A click that fails changes nothing yet.
LEMMA FailedTruthful ==
    ASSUME IInv, Truthful, NEW k \in Click, click[k].pc = "sent",
           click' = [click EXCEPT ![k].pc = "failed"],
           UNCHANGED <<rev, mark, open, unsent, conn, gameId, board, view, es, fetch, blind>>
    PROVE  Truthful'
<1>1. Placed' /\ \A b \in BOOLEAN : Shown(click', b) = Shown(click, b)
    BY ClickAnswered
<1>2. OneStream' /\ Snapshots'
    BY DEF Truthful, OneStream, Attached, Snapshots, Truth
<1>3. view # "other" /\ Has => Has'
    <2>1. SUFFICES ASSUME view # "other", Has PROVE Has'
        OBVIOUS
    <2>2. mark[gameId] \in BOOLEAN /\ board.mark \in BOOLEAN
        BY <2>1 DEF IInv, Stored, Linked, Paged, BoardType
    <2>3. Balanced(click, board.mark, mark[gameId])
        BY <2>1 DEF Has
    <2>4. \A b \in BOOLEAN : Shown(click', b) = Shown(click, b)
        BY <1>1
    <2>5. Balanced(click', board.mark, mark[gameId])
        BY <2>2, <2>3, <2>4, StillBalanced
    <2> QED BY <2>1, <2>5 DEF Has
<1>4. InTheKnow'
    <2>1. Hears' = Hears /\ Told' = Told /\ Asks' = Asks /\ Gets' = Gets
        BY DEF Hears, Told, Attached, Asks, Gets, Truth
    <2> QED BY <1>3, <2>1 DEF Truthful, InTheKnow
<1> QED BY <1>1, <1>2, <1>4 DEF Truthful

LEMMA HandleToggleTruthful ==
    ASSUME IInv, Truthful, NEW k \in Click, HandleToggle(k) PROVE Truthful'
<1> DEFINE g == click[k].game
<1>1. /\ click[k].pc = "sent"
      /\ UNCHANGED <<conn, gameId, board, view, es, fetch>>
    BY DEF HandleToggle, page
<1>2. CASE Commit(g, TRUE, FALSE) /\ (Announced(g) \/ Unannounced(g))
    <2>1. g \in Game
        BY <1>1, ClickFacts DEF Sending
    <2>2. \/ click' = [click EXCEPT ![k] = Idle]
          \/ click' = [click EXCEPT ![k].pc = "failed"]
        BY DEF HandleToggle
    <2>3. /\ Placed'
          /\ g # board.game => \A b \in BOOLEAN : Shown(click', b) = Shown(click, b)
        BY <1>1, <2>2, ClickAnswered
    <2>4. ASSUME view # "other", gameId # g, Has
          PROVE  Balanced(click', board.mark, mark[gameId])
        <3>1. mark[gameId] \in BOOLEAN /\ board.mark \in BOOLEAN
            BY <2>4 DEF IInv, Stored, Linked, Paged, BoardType
        <3>2. \A b \in BOOLEAN : Shown(click', b) = Shown(click, b)
            BY <2>3, <2>4 DEF Has
        <3>3. Balanced(click, board.mark, mark[gameId])
            BY <2>4 DEF Has
        <3> QED BY <3>1, <3>2, <3>3, StillBalanced
    <2>5. Snapshots' /\ InTheKnow'
        <3> HIDE DEF g
        <3> QED BY <1>1, <1>2, <2>1, <2>4, CommitKnown
    <2>6. OneStream'
        BY <1>1 DEF Truthful, OneStream, Attached
    <2> QED BY <2>3, <2>5, <2>6 DEF Truthful
<1>3. CASE /\ click' = [click EXCEPT ![k].pc = "failed"]
           /\ UNCHANGED <<rev, mark, open, unsent, blind>>
    BY <1>1, <1>3, FailedTruthful
<1> QED BY <1>2, <1>3 DEF HandleToggle, store

LEMMA ToggleLostTruthful ==
    ASSUME IInv, Truthful, NEW k \in Click, ToggleLost(k) PROVE Truthful'
BY FailedTruthful DEF ToggleLost, store, page

\* A click is taken back where it was put on top, or the page is blind; over an empty
\* view or an error, what is to be learnt is still on its way.
LEMMA RevertTruthful == ASSUME IInv, Truthful, NEW k \in Click, Revert(k) PROVE Truthful'
<1> DEFINE prev == click[k].prev
<1>1. /\ click[k].pc = "failed"
      /\ board' = IF click[k].shown THEN [board EXCEPT !.mark = prev] ELSE board
      /\ view' = Rendered /\ click' = [click EXCEPT ![k] = Idle]
      /\ blind' = (view # "other" /\ (blind \/ (click[k].shown /\ board.mark = prev)))
      /\ UNCHANGED <<rev, mark, open, unsent, conn, gameId, es, fetch>>
    BY DEF Revert, store, bounds, Misled
<1>2. /\ prev \in BOOLEAN /\ click[k].shown \in BOOLEAN /\ board \in BoardType
      /\ board.mark \in BOOLEAN
    BY <1>1, ClickFacts DEF Sending, IInv, Paged, BoardType
<1>3. /\ board'.game = board.game /\ board'.rev = board.rev /\ board'.open = board.open
      /\ board'.mark = (IF click[k].shown THEN prev ELSE board.mark)
      /\ board'.card = board.card
    BY <1>1, <1>2 DEF BoardType
<1>4. /\ click'[k].pc = "idle" /\ \A j \in Click : j # k => click'[j] = click[j]
    BY <1>1 DEF IInv, Asking, Idle
<1>5. OneStream' /\ Snapshots'
    BY <1>1 DEF Truthful, OneStream, Attached, Snapshots, Truth
<1>6. Placed'
    BY <1>3, <1>4 DEF Truthful, Placed
<1>7. view' # "other" /\ ~ blind' => view # "other" /\ view' = "board" /\ ~ blind
    BY <1>1 DEF Rendered
<1>8. InTheKnow'
    <2>1. SUFFICES ASSUME view # "other", view' = "board", ~ blind, ~ blind'
                   PROVE  Hears' \/ Told' \/ Asks' \/ Gets' \/ Has'
        BY <1>7 DEF InTheKnow
    <2>2. Hears' = Hears /\ Told' = Told /\ Asks' = Asks /\ Gets' = Gets
        BY <1>1 DEF Hears, Told, Attached, Asks, Gets, Truth
    <2>3. Has => Balanced(click', board'.mark, mark[gameId])
        <3>1. SUFFICES ASSUME Has PROVE Balanced(click', board'.mark, mark[gameId])
            OBVIOUS
        <3>2. Balanced(click, board.mark, mark[gameId]) /\ mark[gameId] \in BOOLEAN
            BY <2>1, <3>1 DEF Has, IInv, Stored, Linked
        <3>3. CASE click[k].shown
            <4>1. board.mark # prev
                BY <1>1, <2>1, <3>3
            <4>2. board.mark = ~ prev
                BY <1>2, <4>1
            <4>3. Balanced(click, ~ prev, mark[gameId])
                BY <3>2, <4>2
            <4>4. click[k].pc # "idle" /\ click[k].shown /\ click[k].prev = prev
                BY <1>1, <3>3
            <4>5. click'[k].pc = "idle" /\ \A j \in Click : j # k => click'[j] = click[j]
                BY <1>4
            <4>6. prev \in BOOLEAN /\ mark[gameId] \in BOOLEAN
                BY <1>2, <3>2
            <4>7. Balanced(click', prev, mark[gameId])
                <5> HIDE DEF prev
                <5> QED BY <4>3, <4>4, <4>5, <4>6, OneLessShown
            <4>8. board'.mark = prev
                BY <1>3, <3>3
            <4> QED BY <4>7, <4>8
        <3>4. CASE ~ click[k].shown
            <4>1. \A b \in BOOLEAN : Shown(click', b) = Shown(click, b)
                BY <1>4, <3>4 DEF Shown
            <4>2. Balanced(click', board.mark, mark[gameId])
                BY <1>2, <3>2, <4>1, StillBalanced
            <4> QED BY <1>3, <3>4, <4>2
        <3> QED BY <3>3, <3>4
    <2>4. Has => Has'
        BY <1>1, <1>3, <2>1, <2>3 DEF Has
    <2> QED BY <2>1, <2>2, <2>4 DEF Truthful, InTheKnow
<1> QED BY <1>5, <1>6, <1>8 DEF Truthful

--------------------------------------------------------------------------------
(* What holds in every behaviour. *)

LEMMA InitTruthful == Init => Truthful
BY DEF Init, Truthful, OneStream, Attached, Free, Snapshots, Idle, Placed, InTheKnow

\* Every step keeps it.
LEMMA NextTruthful == IInv /\ Truthful /\ [Next]_vars => Truthful'
<1> SUFFICES ASSUME IInv, Truthful, [Next]_vars PROVE Truthful'
    OBVIOUS
<1>1. CASE \E g \in Game : Change(g) \/ Publish(g)
    BY <1>1, ChangeTruthful, PublishTruthful
<1>2. CASE PageAsks
    BY <1>2, OpenGameTruthful, LeaveTruthful, ToggleTruthful DEF PageAsks
<1>3. CASE \E c \in Conn : Streams(c)
    BY <1>3, AcquireTruthful, SubscribeTruthful, WriteInVainTruthful, GoneTruthful,
       ReconnectTruthful, ReceiveTruthful DEF Streams
<1>4. CASE Replies
    BY <1>4, ReadBoardTruthful, AnswerTruthful, HandleToggleTruthful, RevertTruthful DEF Replies
<1>5. CASE Faults
    BY <1>5, RefuseTruthful, TurnAwayTruthful, BreakTruthful, AnswerFailsTruthful,
       ToggleLostTruthful DEF Faults
<1>6. CASE UNCHANGED vars
    <2>1. UNCHANGED <<rev, mark, open, unsent, conn, gameId, board, view, es, fetch, click, blind>>
        BY <1>6 DEF vars, store, page
    <2>2. OneStream' /\ (Told => Told')
        BY <2>1 DEF Truthful, OneStream, Attached, Told
    <2> QED BY <2>1, <2>2, StreamsOnly
<1> QED BY <1>1, <1>2, <1>3, <1>4, <1>5, <1>6 DEF Next

\* The invariant holds in every behaviour.
LEMMA AlwaysTruthful == Spec => [](IInv /\ Truthful)
BY InitIInv, NextIInv, InitTruthful, NextTruthful, PTL DEF Spec

\* Where nothing is on its way, no click shows and the board is the store's.
LEMMA NothingComing ==
    ASSUME IInv, Has, \A k \in Click : click[k] = Idle, view # "other"
    PROVE  board = Truth(gameId)
<1>1. \A b : Shown(click, b) = {}
    BY DEF Shown, Idle
<1>2. Balanced(click, board.mark, mark[gameId])
    BY DEF Has
<1>3. board.mark = mark[gameId]
    <2>1. SUFFICES ASSUME board.mark # mark[gameId] PROVE FALSE
        OBVIOUS
    <2>2. Cardinality({}) = Cardinality({}) + 1 /\ Cardinality({}) = 0
        BY <1>1, <1>2, <2>1, FS_EmptySet DEF Balanced
    <2> QED BY <2>2
<1>4. board \in BoardType
    BY DEF IInv, Paged
<1> QED BY <1>3, <1>4 DEF Has, Truth, BoardType

(* However many players, pages' requests, clicks and faults: the page      *)
(* shows the store's board or is about to ask for it (handleEvents,        *)
(* loadBoard, toggle), unless a change was never published, an event or an *)
(* answer was lost, spoiled or out of place after the last event that      *)
(* reached the page.                                                       *)
THEOREM ShowsTheTruth == Spec => []ShownIsTrueOrComing
<1>1. IInv /\ Truthful => ShownIsTrueOrComing
    <2>1. SUFFICES ASSUME IInv, Truthful, view # "other", ~ blind, ~ Coming
                   PROVE  view = "board" /\ board = Truth(gameId)
        BY DEF ShownIsTrueOrComing
    <2>2. ~ Hears /\ ~ Told
        BY <2>1 DEF Coming, Hears, Told
    <2>3. ~ Asks /\ ~ Gets
        BY <2>1, FetchFacts DEF Coming, Asks, Gets
    <2>4. Has
        BY <2>1, <2>2, <2>3 DEF Truthful, InTheKnow
    <2>5. \A k \in Click : click[k] = Idle
        BY <2>1 DEF Coming
    <2> QED BY <2>1, <2>4, <2>5, NothingComing DEF Has
<1> QED BY <1>1, AlwaysTruthful, PTL
=============================================================================
