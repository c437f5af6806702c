--------------------------- MODULE StatusMessage ---------------------------
(***************************************************************************)
(* How a change of a game reaches the Discord channel.  Whoever changes a  *)
(* game commits first and publishes afterwards, unless a read in between   *)
(* fails; the hub puts the event in the bridge's buffer, or drops it when  *)
(* the buffer is full.  The bridge takes one event at a time, re-renders   *)
(* the game's status message if one is tracked, and announces openings,    *)
(* wins and aborts.  Next to it a command handler re-renders the message   *)
(* of the game it has just opened or aborted, and /bingo post replaces the *)
(* message.  Each of the three reads the database and writes to Discord in *)
(* steps of its own.                                                       *)
(*                                                                         *)
(* What a message shows is the number of changes the game had when it was  *)
(* rendered.  The announcement channel is configured: no game opens        *)
(* without one.  The browser's subscriptions are per game and left out.    *)
(***************************************************************************)
EXTENDS Naturals, Sequences, FiniteSets, SequencesExt

CONSTANTS
  Game, Message, None,
  Buffer,      \* capacity of a global subscription's channel
  MaxRev,      \* bound: changes per game
  MaxUnsent,   \* bound: requests between their commit and their publishing
  MaxFaults    \* bound: failing reads, failing Discord calls and restarts of the process

ASSUME MessageAssumption ==
  /\ None \notin Message /\ None \notin Game
  /\ Buffer \in Nat \ {0} /\ {MaxRev, MaxUnsent, MaxFaults} \subseteq Nat

VARIABLES
  status,    \* game -> "none" or its status in the store
  rev,       \* game -> changes committed so far
  unsent,    \* changes that are committed and not yet published
  queue,     \* the bridge's buffer
  pc,        \* worker -> what it does next
  job,       \* worker -> the event or game it works for
  target,    \* worker -> the message it will write, or None
  seen,      \* worker -> the rev it has read
  tracked,   \* game -> message recorded for it, or None
  shown,     \* message -> the rev it shows, for the messages sent
  said,      \* <<kind, game>> -> times announced (history)
  untold,    \* <<kind, game>> of the announcements that got lost (history)
  behind,    \* games that lost an event or a rendering and had no event since (history)
  faults

store    == <<status, rev>>
workers  == <<pc, job, target, seen>>
messages == <<tracked, shown>>
losses   == <<untold, behind>>
vars == <<store, unsent, queue, workers, messages, said, losses, faults>>

Worker == {"bridge", "handler", "post"}
Kind   == {"opened", "finished", "aborted", "played"}
Event  == [kind : Kind, game : Game]
Change == [kind : Kind, game : Game, rev : 0 .. MaxRev]
Announced == {"opened", "finished", "aborted"}

NoEvent == [kind |-> "none", game |-> None]

TypeOK ==
  /\ status \in [Game -> {"none", "open", "finished", "aborted"}]
  /\ rev \in [Game -> 0 .. MaxRev]
  /\ unsent \subseteq Change /\ Cardinality(unsent) <= MaxUnsent
  /\ queue \in Seq(Event) /\ Len(queue) <= Buffer
  /\ pc \in [Worker -> {"idle", "find", "read", "edit", "say", "send", "track"}]
  /\ job \in [Worker -> Event \cup {NoEvent}]
  /\ target \in [Worker -> Message \cup {None}]
  /\ seen \in [Worker -> 0 .. MaxRev]
  /\ tracked \in [Game -> Message \cup {None}]
  /\ DOMAIN shown \subseteq Message /\ shown \in [DOMAIN shown -> 0 .. MaxRev]
  /\ said \in [Announced \X Game -> Nat]
  /\ untold \subseteq Announced \X Game /\ behind \subseteq Game
  /\ faults \in 0 .. MaxFaults

Init ==
  /\ status = [g \in Game |-> "none"] /\ rev = [g \in Game |-> 0]
  /\ unsent = {} /\ queue = << >>
  /\ pc = [w \in Worker |-> "idle"] /\ job = [w \in Worker |-> NoEvent]
  /\ target = [w \in Worker |-> None] /\ seen = [w \in Worker |-> 0]
  /\ tracked = [g \in Game |-> None] /\ shown = << >>
  /\ said = [a \in Announced \X Game |-> 0]
  /\ untold = {} /\ behind = {} /\ faults = 0
-----------------------------------------------------------------------------
(* Losses. *)

Fault == faults < MaxFaults /\ faults' = faults + 1
Fine  == UNCHANGED faults

\* What is never said of the changes of events.
Unsaid(events) ==
  untold' = untold \cup {<<e.kind, e.game>> : e \in {x \in events : x.kind \in Announced}}

Behind(games) == behind' = behind \cup games

\* The event e of a change never reaches the bridge.
Lost(e) == Unsaid({e}) /\ Behind({e.game})
-----------------------------------------------------------------------------
(* Changes, each committed by the store. *)

Hand(change) ==
  /\ change \notin unsent /\ Cardinality(unsent) < MaxUnsent
  /\ unsent' = unsent \cup {change}

Commit(g, from, to) ==
  /\ status[g] = from
  /\ rev[g] < MaxRev
  /\ status' = [status EXCEPT ![g] = to]
  /\ rev' = [rev EXCEPT ![g] = @ + 1]
  /\ UNCHANGED <<queue, workers, messages, said>>

\* The store's answer lets the service publish the change.
Answered(g, kind) ==
  /\ Hand([kind |-> kind, game |-> g, rev |-> rev[g] + 1])
  /\ UNCHANGED <<losses, faults>>

\* ToggleCell, GetOrDealCard and CallBingo read the card or the game again after
\* their commit, in the context of the request.  When that fails they return an
\* error, and the service leaves before it publishes.
Unanswered(g, kind) ==
  Fault /\ Lost([kind |-> kind, game |-> g]) /\ UNCHANGED unsent

Open(g)   == Commit(g, "none", "open") /\ Answered(g, "opened")
Play(g)   == Commit(g, "open", "open") /\ (Answered(g, "played") \/ Unanswered(g, "played"))
Finish(g) ==
  Commit(g, "open", "finished") /\ (Answered(g, "finished") \/ Unanswered(g, "finished"))
AbortGame(g) == Commit(g, "open", "aborted") /\ Answered(g, "aborted")

\* NewGame with replace aborts g in the transaction that opens another game, which
\* is the only one it publishes.
Replace(g) ==
  /\ Commit(g, "open", "aborted")
  /\ Lost([kind |-> "aborted", game |-> g])
  /\ UNCHANGED <<unsent, faults>>

\* A player asks for the card they have: DealCard publishes CardDealt again.
AskAgain(g) ==
  /\ rev[g] > 1
  /\ Hand([kind |-> "played", game |-> g, rev |-> rev[g]])
  /\ UNCHANGED <<store, queue, workers, messages, said, losses, faults>>

\* Hub.Publish: a full buffer drops the event.
Deliver(e) ==
  IF Len(queue) < Buffer
  THEN queue' = Append(queue, e) /\ UNCHANGED losses
  ELSE UNCHANGED queue /\ Lost(e)

\* A Discord command that opened or aborted the game then renders its message;
\* one such handler is followed at a time.
Publish(change) ==
  /\ change \in unsent
  /\ unsent' = unsent \ {change}
  /\ LET e == [kind |-> change.kind, game |-> change.game]
     IN  /\ Deliver(e)
         /\ \/ UNCHANGED workers
            \/ /\ e.kind \in {"opened", "aborted"}
               /\ pc["handler"] = "idle"
               /\ pc' = [pc EXCEPT !["handler"] = "find"]
               /\ job' = [job EXCEPT !["handler"] = e]
               /\ UNCHANGED <<target, seen>>
  /\ UNCHANGED <<store, messages, said, faults>>
-----------------------------------------------------------------------------
(* The workers. *)

Goto(w, label) == pc' = [pc EXCEPT ![w] = label]

Rest(w) ==
  /\ Goto(w, "idle")
  /\ job' = [job EXCEPT ![w] = NoEvent]
  /\ target' = [target EXCEPT ![w] = None]
  /\ seen' = [seen EXCEPT ![w] = 0]

Announces(w) == w = "bridge" /\ job[w].kind \in Announced

GoSay(w) ==
  /\ Goto(w, "say")
  /\ target' = [target EXCEPT ![w] = None]
  /\ seen' = [seen EXCEPT ![w] = 0]
  /\ UNCHANGED job

\* Mutant: nothing is announced of a game that is rendered without a message.
RenderedOnly(w) == IF Announces(w) /\ target[w] # None THEN GoSay(w) ELSE Rest(w)

\* onEvent announces after rendering; the handler has nothing more to do.
Rendered(w) == IF Announces(w) THEN GoSay(w) ELSE Rest(w)

\* Mutant: the event stays in the buffer.
Peek ==
  /\ pc["bridge"] = "idle" /\ queue # << >>
  /\ job' = [job EXCEPT !["bridge"] = Head(queue)]
  /\ behind' = behind \ {Head(queue).game}
  /\ Goto("bridge", "find")
  /\ UNCHANGED <<store, unsent, queue, target, seen, messages, said, untold, faults>>

Take ==
  /\ pc["bridge"] = "idle" /\ queue # << >>
  /\ job' = [job EXCEPT !["bridge"] = Head(queue)]
  /\ queue' = Tail(queue)
  /\ behind' = behind \ {Head(queue).game}
  /\ Goto("bridge", "find")
  /\ UNCHANGED <<store, unsent, target, seen, messages, said, untold, faults>>

\* Mutant: the message is only rendered for what is also announced.
FindAnnounced(w) ==
  /\ pc[w] = "find"
  /\ LET found == tracked[job[w].game]
     IN  IF found = None \/ job[w].kind \notin Announced
         THEN Rendered(w)
         ELSE /\ target' = [target EXCEPT ![w] = found]
              /\ Goto(w, "read")
              /\ UNCHANGED <<job, seen>>
  /\ UNCHANGED <<store, unsent, queue, messages, said, losses, faults>>

\* GetTrackedMessage
Find(w) ==
  /\ pc[w] = "find"
  /\ LET found == tracked[job[w].game]
     IN  IF found = None
         THEN Rendered(w)
         ELSE /\ target' = [target EXCEPT ![w] = found]
              /\ Goto(w, "read")
              /\ UNCHANGED <<job, seen>>
  /\ UNCHANGED <<store, unsent, queue, messages, said, losses, faults>>

\* GameStatsForGame, taken at the first of its two queries.
Read(w) ==
  /\ pc[w] = "read"
  /\ seen' = [seen EXCEPT ![w] = rev[job[w].game]]
  /\ Goto(w, IF w = "post" THEN "send" ELSE "edit")
  /\ UNCHANGED <<store, unsent, queue, job, target, messages, said, losses, faults>>

\* The bridge will still render game g, into message m if it knows the message.
ComingTo(g, m) ==
  \/ \E change \in unsent : change.game = g
  \/ \E i \in DOMAIN queue : queue[i].game = g
  \/ /\ job["bridge"].game = g
     /\ \/ pc["bridge"] = "find"
        \/ pc["bridge"] = "read" /\ target["bridge"] = m
        \/ pc["bridge"] = "edit" /\ target["bridge"] = m /\ seen["bridge"] = rev[g]

\* Worker w leaves an outdated rendering that nothing is about to repair.
LeavesOutdated(w, m) == seen[w] # rev[job[w].game] /\ ~ ComingTo(job[w].game, m)

Edit(w) ==
  /\ pc[w] = "edit"
  /\ shown' = [shown EXCEPT ![target[w]] = seen[w]]
  /\ IF w = "handler" /\ target[w] = tracked[job[w].game] /\ LeavesOutdated(w, target[w])
     THEN Behind({job[w].game})
     ELSE UNCHANGED behind
  /\ Rendered(w)
  /\ UNCHANGED <<store, unsent, queue, tracked, said, untold, faults>>

\* The database or Discord fails: the message is left as it is.
RefreshFails(w) ==
  /\ pc[w] \in {"find", "read", "edit"}
  /\ Fault
  /\ IF w = "bridge" THEN Behind({job[w].game}) ELSE UNCHANGED behind
  /\ Rendered(w)
  /\ UNCHANGED <<store, unsent, queue, messages, said, untold>>

\* celebrate, announceGameOpen and announceGameAborted: they read what they are to
\* say and send it once; a failure is only logged.
Announce(e) ==
  \/ Fine /\ said' = [said EXCEPT ![<<e.kind, e.game>>] = @ + 1] /\ UNCHANGED untold
  \/ Fault /\ Unsaid({e}) /\ UNCHANGED said

Say ==
  /\ pc["bridge"] = "say"
  /\ Announce(job["bridge"])
  /\ Rest("bridge")
  /\ UNCHANGED <<store, unsent, queue, messages, behind>>

\* handlePost, one at a time: read, send a new message, track it.
Post(g) ==
  /\ pc["post"] = "idle"
  /\ status[g] # "none"
  /\ job' = [job EXCEPT !["post"] = [kind |-> "played", game |-> g]]
  /\ Goto("post", "read")
  /\ UNCHANGED <<store, unsent, queue, target, seen, messages, said, losses, faults>>

Send(m) ==
  /\ pc["post"] = "send"
  /\ m \notin DOMAIN shown
  /\ shown' = [k \in DOMAIN shown \cup {m} |->
                 IF k = m THEN seen["post"] ELSE shown[k]]
  /\ target' = [target EXCEPT !["post"] = m]
  /\ Goto("post", "track")
  /\ UNCHANGED <<store, unsent, queue, job, seen, tracked, said, losses, faults>>

PostFails ==
  /\ pc["post"] \in {"read", "send"}
  /\ Fault
  /\ Rest("post")
  /\ UNCHANGED <<store, unsent, queue, messages, said, losses>>

\* UpsertTrackedMessage; a failure is only logged.
Track ==
  /\ pc["post"] = "track"
  /\ \/ /\ Fine
        /\ tracked' = [tracked EXCEPT ![job["post"].game] = target["post"]]
        /\ IF LeavesOutdated("post", target["post"])
           THEN Behind({job["post"].game})
           ELSE UNCHANGED behind
     \/ Fault /\ UNCHANGED <<tracked, behind>>
  /\ Rest("post")
  /\ UNCHANGED <<store, unsent, queue, shown, said, untold>>

\* The hub, the handlers and the bridge live in memory.
RestartProcess ==
  /\ Fault
  /\ LET coming == unsent \cup ToSet(queue)
         unsaid == IF pc["bridge"] = "idle" THEN {} ELSE {job["bridge"]}
         unrendered == IF pc["bridge"] \in {"idle", "say"} THEN {} ELSE {job["bridge"]}
     IN  /\ Unsaid(coming \cup unsaid)
         /\ Behind({e.game : e \in coming \cup unrendered})
  /\ unsent' = {} /\ queue' = << >>
  /\ pc' = [w \in Worker |-> "idle"] /\ job' = [w \in Worker |-> NoEvent]
  /\ target' = [w \in Worker |-> None] /\ seen' = [w \in Worker |-> 0]
  /\ UNCHANGED <<store, messages, said>>

Requests == \E g \in Game :
  \/ Open(g) \/ Play(g) \/ Finish(g) \/ AbortGame(g) \/ AskAgain(g) \/ Replace(g)

Refresh(w) == Find(w) \/ Read(w) \/ Edit(w) \/ RefreshFails(w)

Bridge == Take \/ Refresh("bridge") \/ Say

Next ==
  \/ Requests
  \/ \E change \in unsent : Publish(change)
  \/ Bridge
  \/ Refresh("handler")
  \/ \E g \in Game : Post(g)
  \/ Read("post") \/ (\E m \in Message : Send(m)) \/ PostFails \/ Track
  \/ RestartProcess

Spec == Init /\ [][Next]_vars

\* Goroutines run on; nothing makes admins or players act.
FairSpec ==
  /\ Spec
  /\ \A change \in Change : WF_vars(Publish(change))
  /\ WF_vars(Bridge)
-----------------------------------------------------------------------------
(* Nothing is announced twice, and what is announced is true of the game   *)
(* and stays so: a channel never sees a game both won and aborted, though  *)
(* events of one game may be published in another order than committed.    *)
AnnouncedOnceAndTruly ==
  \A g \in Game :
    /\ \A kind \in Announced : said[<<kind, g>>] <= 1
    /\ said[<<"opened", g>>] = 1 => status[g] # "none"
    /\ said[<<"finished", g>>] = 1 => status[g] = "finished"
    /\ said[<<"aborted", g>>] = 1 => status[g] = "aborted"

(* A status message that is out of date is about to be re-rendered by the  *)
(* bridge, which reads after the event: events published in another order  *)
(* than committed, duplicates, and edits of the handler next to the bridge *)
(* do no harm.  A message is left behind only by a lost event (a failed    *)
(* read between commit and publishing, a full buffer, a restart, the       *)
(* unpublished end of a replaced game), by a failed rendering of the       *)
(* bridge, and by a post or a handler that writes what it read earlier     *)
(* after the bridge has done its last rendering; and no longer than until  *)
(* the bridge takes the game's next event.                                 *)
StaleMeansComing ==
  \A g \in Game \ behind :
    tracked[g] # None /\ shown[tracked[g]] # rev[g] => ComingTo(g, tracked[g])

(* Every opening, win and abort has been announced or is about to be, with *)
(* or without a status message and whatever becomes of the rendering: only *)
(* the loss of that very event (a failed read between commit and           *)
(* publishing, a full buffer, a restart, the abort by a replacing game) or *)
(* a failure of its announcement leaves it unsaid.                         *)
ToldOrComing ==
  \A g \in Game, kind \in Announced :
    LET e == [kind |-> kind, game |-> g]
    IN  /\ <<kind, g>> \notin untold
        /\ status[g] = kind \/ (kind = "opened" /\ status[g] # "none")
        => \/ said[<<kind, g>>] = 1
           \/ \E change \in unsent : change.kind = kind /\ change.game = g
           \/ e \in ToSet(queue)
           \/ job["bridge"] = e /\ pc["bridge"] # "idle"

(* The message of a game shows its last change in the end and keeps        *)
(* showing it, unless a loss came after the last event of the game that    *)
(* the bridge took: a loss any event of the game follows is made good.     *)
CurrentInTheEnd ==
  \A g \in Game :
    <>[](g \in behind \/ (tracked[g] # None => shown[tracked[g]] = rev[g]))
=============================================================================
