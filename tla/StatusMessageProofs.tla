------------------------ MODULE StatusMessageProofs ------------------------
(***************************************************************************)
(* For any number of games, messages and changes, any buffer and any       *)
(* faults: nothing is announced twice or untruly, nothing is forgotten but *)
(* what got lost, and an outdated message is about to be rendered.  The    *)
(* first two follow each announcement from its commit to the channel: at   *)
(* any time it is in at most one place, and what is there is true of its   *)
(* game.  The third says of each message who may write it, and of what     *)
(* the bridge is about to write that it is current or will be replaced.    *)
(***************************************************************************)
EXTENDS StatusMessage, FiniteSetTheorems, TLAPS

Label == {"idle", "find", "read", "edit", "say", "send", "track"}

\* What a worker holds fits what it does.
Fit(w) ==
  /\ pc[w] \in Label /\ job[w] \in Event \cup {NoEvent}
  /\ target[w] \in Message \cup {None} /\ seen[w] \in 0 .. MaxRev
  /\ pc[w] # "idle" => job[w] \in Event
  /\ pc[w] \in {"edit", "track"} => target[w] \in Message
  /\ pc[w] = "read" => w = "post" \/ target[w] \in Message
  /\ pc[w] = "say" => job[w].kind \in Announced

Fitting ==
  /\ pc \in [Worker -> Label] /\ job \in [Worker -> Event \cup {NoEvent}]
  /\ target \in [Worker -> Message \cup {None}] /\ seen \in [Worker -> 0 .. MaxRev]
  /\ \A w \in Worker : Fit(w)

\* Where the news of kind k about game g is.
Unsent(k, g) == \E change \in unsent : change.kind = k /\ change.game = g
Queued(k, g) == \E i \in DOMAIN queue : queue[i].kind = k /\ queue[i].game = g
InHand(k, g) ==
  pc["bridge"] # "idle" /\ job["bridge"].kind = k /\ job["bridge"].game = g
Told(k, g) == said[<<k, g>>] = 1

True(k, g) == IF k = "opened" THEN status[g] # "none" ELSE status[g] = k

OnePlace(k, g) ==
  /\ \A c, d \in unsent : c.kind = k /\ c.game = g /\ d.kind = k /\ d.game = g => c = d
  /\ \A i, j \in DOMAIN queue :
       /\ queue[i].kind = k /\ queue[i].game = g
       /\ queue[j].kind = k /\ queue[j].game = g
       => i = j
  /\ Unsent(k, g) => ~ Queued(k, g) /\ ~ InHand(k, g)
  /\ Queued(k, g) => ~ InHand(k, g)
  /\ Unsent(k, g) \/ Queued(k, g) \/ InHand(k, g) => said[<<k, g>>] = 0
  /\ said[<<k, g>>] \in {0, 1}
  /\ Unsent(k, g) \/ Queued(k, g) \/ InHand(k, g) \/ Told(k, g) => True(k, g)

Somewhere(k, g) == Unsent(k, g) \/ Queued(k, g) \/ InHand(k, g) \/ Told(k, g)

News ==
  \A k \in Announced, g \in Game :
    /\ OnePlace(k, g)
    /\ <<k, g>> \notin untold /\ True(k, g) => Somewhere(k, g)

Stored ==
  /\ status \in [Game -> {"none", "open", "finished", "aborted"}]
  /\ rev \in [Game -> 0 .. MaxRev]
  /\ unsent \subseteq Change /\ IsFiniteSet(unsent) /\ Cardinality(unsent) <= MaxUnsent
  /\ queue \in Seq(Event) /\ Len(queue) <= Buffer

Sent ==
  /\ tracked \in [Game -> Message \cup {None}]
  /\ DOMAIN shown \subseteq Message /\ shown \in [DOMAIN shown -> 0 .. MaxRev]
  /\ said \in [Announced \X Game -> Nat]
  /\ untold \subseteq Announced \X Game /\ behind \subseteq Game
  /\ faults \in 0 .. MaxFaults

IInv == Stored /\ Fitting /\ Sent /\ News

\* Only worker w moves.
Only(w) ==
  /\ pc' = [pc EXCEPT ![w] = pc'[w]] /\ job' = [job EXCEPT ![w] = job'[w]]
  /\ target' = [target EXCEPT ![w] = target'[w]] /\ seen' = [seen EXCEPT ![w] = seen'[w]]

--------------------------------------------------------------------------------
(* Sequences and workers. *)

\* Appending to a list.
LEMMA Appended ==
  ASSUME NEW S, NEW s \in Seq(S), NEW e \in S
  PROVE  /\ Append(s, e) \in Seq(S) /\ Len(Append(s, e)) = Len(s) + 1
         /\ DOMAIN s = 1 .. Len(s) /\ DOMAIN Append(s, e) = 1 .. Len(s) + 1
         /\ \A i \in DOMAIN s : Append(s, e)[i] = s[i]
         /\ Append(s, e)[Len(s) + 1] = e
OBVIOUS

\* The first of a list and the rest of it.
LEMMA HeadAndTail ==
  ASSUME NEW S, NEW s \in Seq(S), s # << >>
  PROVE  /\ Len(s) \in Nat \ {0} /\ DOMAIN s = 1 .. Len(s)
         /\ Head(s) = s[1] /\ s[1] \in S
         /\ Tail(s) \in Seq(S) /\ Len(Tail(s)) = Len(s) - 1
         /\ DOMAIN Tail(s) = 1 .. Len(s) - 1
         /\ \A i \in DOMAIN Tail(s) : i + 1 \in DOMAIN s /\ Tail(s)[i] = s[i + 1]
OBVIOUS

\* A step of one worker that leaves it fitting leaves all fitting.
LEMMA OneWorker ==
  ASSUME Fitting, NEW w \in Worker, Only(w), Fit(w)'
  PROVE  /\ Fitting'
         /\ \A v \in Worker : v # w => /\ pc'[v] = pc[v] /\ job'[v] = job[v]
                                       /\ target'[v] = target[v] /\ seen'[v] = seen[v]
<1>1. /\ pc \in [Worker -> Label] /\ job \in [Worker -> Event \cup {NoEvent}]
      /\ target \in [Worker -> Message \cup {None}] /\ seen \in [Worker -> 0 .. MaxRev]
  BY DEF Fitting
<1>2. /\ pc'[w] \in Label /\ job'[w] \in Event \cup {NoEvent}
      /\ target'[w] \in Message \cup {None} /\ seen'[w] \in 0 .. MaxRev
  BY DEF Fit
<1>3. /\ pc' \in [Worker -> Label] /\ job' \in [Worker -> Event \cup {NoEvent}]
      /\ target' \in [Worker -> Message \cup {None}] /\ seen' \in [Worker -> 0 .. MaxRev]
  BY <1>1, <1>2 DEF Only
<1>4. \A v \in Worker : v # w => /\ pc'[v] = pc[v] /\ job'[v] = job[v]
                                  /\ target'[v] = target[v] /\ seen'[v] = seen[v]
  BY <1>1 DEF Only
<1>5. ASSUME NEW v \in Worker PROVE Fit(v)'
  <2>1. CASE v = w
    BY <2>1
  <2>2. CASE v # w
    <3>1. Fit(v)
      BY DEF Fitting
    <3> QED BY <1>4, <2>2, <3>1 DEF Fit
  <2> QED BY <2>1, <2>2
<1> QED BY <1>3, <1>4, <1>5 DEF Fitting

\* What an event is.
LEMMA EventFacts ==
  ASSUME NEW e \in Event
  PROVE  e.kind \in Kind /\ e.game \in Game /\ e = [kind |-> e.kind, game |-> e.game]
BY DEF Event

--------------------------------------------------------------------------------
(* Steps that move no news. *)

\* The news stays where it is.
LEMMA NewsStays ==
  ASSUME News, UNCHANGED <<status, unsent, queue, said, untold>>,
         \A k \in Announced, g \in Game : InHand(k, g)' <=> InHand(k, g)
  PROVE  News'
<1> SUFFICES ASSUME NEW k \in Announced, NEW g \in Game
             PROVE  /\ OnePlace(k, g)'
                    /\ <<k, g>> \notin untold' /\ True(k, g)' => Somewhere(k, g)'
  BY DEF News
<1>1. OnePlace(k, g) /\ (<<k, g>> \notin untold /\ True(k, g) => Somewhere(k, g))
  BY DEF News
<1>2. /\ Unsent(k, g)' <=> Unsent(k, g)
      /\ Queued(k, g)' <=> Queued(k, g)
      /\ Told(k, g)' <=> Told(k, g)
      /\ True(k, g)' <=> True(k, g)
  BY DEF Unsent, Queued, Told, True
<1>3. OnePlace(k, g)'
  BY <1>1, <1>2 DEF OnePlace
<1>4. <<k, g>> \notin untold' /\ True(k, g)' => Somewhere(k, g)'
  BY <1>1, <1>2 DEF Somewhere
<1> QED BY <1>3, <1>4

\* Any step of a worker that neither takes nor announces news keeps the invariant.
LEMMA MoveIInv ==
  ASSUME IInv, NEW w \in Worker, Only(w), Fit(w)',
         UNCHANGED <<status, rev, unsent, queue, said, untold>>,
         w = "bridge" =>
           /\ pc[w] # "idle"
           /\ \/ pc'[w] # "idle" /\ job'[w] = job[w]
              \/ pc'[w] = "idle" /\ job[w].kind \notin Announced,
         behind' \subseteq Game, faults' \in 0 .. MaxFaults,
         tracked' \in [Game -> Message \cup {None}],
         DOMAIN shown' \subseteq Message, shown' \in [DOMAIN shown' -> 0 .. MaxRev]
  PROVE  IInv'
<1>1. "bridge" \in Worker
  BY DEF Worker
<1>2. Fitting' /\ \A v \in Worker : v # w => pc'[v] = pc[v] /\ job'[v] = job[v]
  BY OneWorker DEF IInv
<1>3. Stored'
  BY DEF IInv, Stored
<1>4. Sent'
  BY DEF IInv, Sent
<1>5. \A k \in Announced, g \in Game : InHand(k, g)' <=> InHand(k, g)
  BY <1>1, <1>2 DEF InHand
<1>6. News'
  BY <1>5, NewsStays DEF IInv
<1> QED BY <1>2, <1>3, <1>4, <1>6 DEF IInv

\* What the invariant says of a worker that is not idle.
LEMMA BusyFacts ==
  ASSUME IInv, NEW w \in Worker, pc[w] # "idle"
  PROVE  /\ job[w] \in Event /\ job[w].kind \in Kind /\ job[w].game \in Game
         /\ pc \in [Worker -> Label] /\ job \in [Worker -> Event \cup {NoEvent}]
         /\ target \in [Worker -> Message \cup {None}] /\ seen \in [Worker -> 0 .. MaxRev]
         /\ Fit(w)
BY EventFacts DEF IInv, Fitting, Fit

\* A worker that goes to rest.
LEMMA RestFits ==
  ASSUME Fitting, NEW w \in Worker, Rest(w)
  PROVE  Only(w) /\ Fit(w)' /\ pc'[w] = "idle"
<1>1. /\ pc \in [Worker -> Label] /\ job \in [Worker -> Event \cup {NoEvent}]
      /\ target \in [Worker -> Message \cup {None}] /\ seen \in [Worker -> 0 .. MaxRev]
  BY DEF Fitting
<1>2. /\ pc' = [pc EXCEPT ![w] = "idle"] /\ job' = [job EXCEPT ![w] = NoEvent]
      /\ target' = [target EXCEPT ![w] = None] /\ seen' = [seen EXCEPT ![w] = 0]
  BY DEF Rest, Goto
<1>3. pc'[w] = "idle" /\ job'[w] = NoEvent /\ target'[w] = None /\ seen'[w] = 0
  BY <1>1, <1>2
<1>4. MaxRev \in Nat
  BY MessageAssumption
<1>5. Fit(w)'
  BY <1>3, <1>4 DEF Fit, Label
<1> QED BY <1>2, <1>3, <1>5 DEF Only

\* The end of a rendering, done or failed: the bridge announces or rests.
LEMMA RenderedFits ==
  ASSUME IInv, NEW w \in Worker, pc[w] # "idle", Rendered(w)
  PROVE  /\ Only(w) /\ Fit(w)'
         /\ \/ pc'[w] # "idle" /\ job'[w] = job[w]
            \/ pc'[w] = "idle" /\ (w # "bridge" \/ job[w].kind \notin Announced)
<1>1. CASE Announces(w)
  <2>1. GoSay(w)
    BY <1>1 DEF Rendered
  <2>2. /\ pc' = [pc EXCEPT ![w] = "say"] /\ job' = job
        /\ target' = [target EXCEPT ![w] = None] /\ seen' = [seen EXCEPT ![w] = 0]
    BY <2>1 DEF GoSay, Goto
  <2>3. job[w] \in Event /\ job[w].kind \in Announced
    BY <1>1, BusyFacts DEF Announces
  <2>4. pc'[w] = "say" /\ job'[w] = job[w] /\ target'[w] = None /\ seen'[w] = 0
    BY <2>2, BusyFacts
  <2>5. MaxRev \in Nat
    BY MessageAssumption
  <2>6. Fit(w)'
    BY <2>3, <2>4, <2>5 DEF Fit, Label
  <2>7. Only(w)
    <3>1. job = [job EXCEPT ![w] = job[w]]
      BY BusyFacts
    <3> QED BY <2>2, <2>4, <3>1 DEF Only
  <2> QED BY <2>4, <2>6, <2>7
<1>2. CASE ~ Announces(w)
  <2>1. Rest(w)
    BY <1>2 DEF Rendered
  <2>2. Only(w) /\ Fit(w)' /\ pc'[w] = "idle"
    BY <2>1, RestFits DEF IInv
  <2> QED BY <1>2, <2>2 DEF Announces
<1> QED BY <1>1, <1>2

\* Nothing is sent in the steps that keep tracked, shown and faults.
LEMMA SentFacts ==
  ASSUME IInv
  PROVE  /\ tracked \in [Game -> Message \cup {None}]
         /\ DOMAIN shown \subseteq Message /\ shown \in [DOMAIN shown -> 0 .. MaxRev]
         /\ behind \subseteq Game
         /\ faults \in 0 .. MaxFaults /\ rev \in [Game -> 0 .. MaxRev]
BY DEF IInv, Sent, Stored

\* Lemma <Action>IInv, here and below: that action keeps the invariant.
LEMMA FindIInv == ASSUME IInv, NEW w \in Worker, Find(w) PROVE IInv'
<1>1. /\ pc[w] = "find"
      /\ UNCHANGED <<status, rev, unsent, queue, tracked, shown, said, untold, behind, faults>>
  BY DEF Find, store, messages, losses
<1>2. CASE Rendered(w)
  <2>1. /\ Only(w) /\ Fit(w)'
        /\ \/ pc'[w] # "idle" /\ job'[w] = job[w]
           \/ pc'[w] = "idle" /\ (w # "bridge" \/ job[w].kind \notin Announced)
    BY <1>1, <1>2, RenderedFits
  <2> QED BY <1>1, <2>1, SentFacts, MoveIInv
<1>3. ASSUME tracked[job[w].game] # None,
             target' = [target EXCEPT ![w] = tracked[job[w].game]],
             pc' = [pc EXCEPT ![w] = "read"], UNCHANGED <<job, seen>>
      PROVE  IInv'
  <2>1. tracked[job[w].game] \in Message
    BY <1>1, <1>3, SentFacts, BusyFacts
  <2>2. pc'[w] = "read" /\ job'[w] = job[w] /\ target'[w] \in Message /\ seen'[w] = seen[w]
    BY <1>1, <1>3, <2>1, BusyFacts
  <2>3. Fit(w)'
    BY <1>1, <2>2, BusyFacts DEF Fit, Label
  <2>4. Only(w)
    <3>1. job = [job EXCEPT ![w] = job[w]] /\ seen = [seen EXCEPT ![w] = seen[w]]
      BY <1>1, BusyFacts
    <3>2. target'[w] = tracked[job[w].game]
      BY <1>1, <1>3, BusyFacts
    <3> QED BY <1>3, <2>2, <3>1, <3>2 DEF Only
  <2> QED BY <1>1, <2>2, <2>3, <2>4, SentFacts, MoveIInv
<1> QED BY <1>2, <1>3 DEF Find, Goto

LEMMA ReadIInv == ASSUME IInv, NEW w \in Worker, Read(w) PROVE IInv'
<1>1. /\ pc[w] = "read" /\ seen' = [seen EXCEPT ![w] = rev[job[w].game]]
      /\ pc' = [pc EXCEPT ![w] = IF w = "post" THEN "send" ELSE "edit"]
      /\ UNCHANGED <<status, rev, unsent, queue, job, target, tracked, shown, said, untold, behind, faults>>
  BY DEF Read, Goto, store, messages, losses
<1>2. rev[job[w].game] \in 0 .. MaxRev
  BY <1>1, BusyFacts, SentFacts
<1>3. /\ pc'[w] = IF w = "post" THEN "send" ELSE "edit"
      /\ job'[w] = job[w] /\ target'[w] = target[w] /\ seen'[w] = rev[job[w].game]
  BY <1>1, BusyFacts
<1>4. Fit(w)'
  <2>1. CASE w = "post"
    BY <1>1, <1>2, <1>3, <2>1, BusyFacts DEF Fit, Label
  <2>2. CASE w # "post"
    BY <1>1, <1>2, <1>3, <2>2, BusyFacts DEF Fit, Label
  <2> QED BY <2>1, <2>2
<1>5. Only(w)
  <2>1. job = [job EXCEPT ![w] = job[w]] /\ target = [target EXCEPT ![w] = target[w]]
    BY <1>1, BusyFacts
  <2> QED BY <1>1, <1>3, <2>1 DEF Only
<1> QED BY <1>1, <1>3, <1>4, <1>5, SentFacts, MoveIInv

LEMMA EditIInv == ASSUME IInv, NEW w \in Worker, Edit(w) PROVE IInv'
<1>1. /\ pc[w] = "edit" /\ Rendered(w)
      /\ shown' = [shown EXCEPT ![target[w]] = seen[w]]
      /\ UNCHANGED <<status, rev, unsent, queue, tracked, said, untold, faults>>
      /\ behind' = behind \/ behind' = behind \cup {job[w].game}
  BY DEF Edit, store, Behind
<1>2. job[w].game \in Game /\ seen[w] \in 0 .. MaxRev
  BY <1>1, BusyFacts
<1>3. DOMAIN shown' = DOMAIN shown /\ shown' \in [DOMAIN shown' -> 0 .. MaxRev]
  BY <1>1, <1>2, SentFacts
<1>4. /\ Only(w) /\ Fit(w)'
      /\ \/ pc'[w] # "idle" /\ job'[w] = job[w]
         \/ pc'[w] = "idle" /\ (w # "bridge" \/ job[w].kind \notin Announced)
  BY <1>1, RenderedFits
<1>5. behind' \subseteq Game
  BY <1>1, <1>2, SentFacts
<1> QED BY <1>1, <1>3, <1>4, <1>5, SentFacts, MoveIInv

LEMMA RefreshFailsIInv == ASSUME IInv, NEW w \in Worker, RefreshFails(w) PROVE IInv'
<1>1. /\ pc[w] # "idle" /\ Rendered(w)
      /\ UNCHANGED <<status, rev, unsent, queue, tracked, shown, said, untold>>
      /\ behind' = behind \/ behind' = behind \cup {job[w].game}
      /\ faults < MaxFaults /\ faults' = faults + 1
  BY DEF RefreshFails, store, messages, losses, Behind, Fault
<1>2. job[w].game \in Game
  BY <1>1, BusyFacts
<1>3. faults' \in 0 .. MaxFaults
  BY <1>1, SentFacts, MessageAssumption
<1>4. /\ Only(w) /\ Fit(w)'
      /\ \/ pc'[w] # "idle" /\ job'[w] = job[w]
         \/ pc'[w] = "idle" /\ (w # "bridge" \/ job[w].kind \notin Announced)
  BY <1>1, RenderedFits
<1>5. behind' \subseteq Game
  BY <1>1, <1>2, SentFacts
<1> QED BY <1>1, <1>3, <1>4, <1>5, SentFacts, MoveIInv

--------------------------------------------------------------------------------
(* A post. *)

LEMMA PostIInv == ASSUME IInv, NEW g \in Game, Post(g) PROVE IInv'
<1> DEFINE e == [kind |-> "played", game |-> g]
<1>1. /\ pc["post"] = "idle"
      /\ job' = [job EXCEPT !["post"] = e] /\ pc' = [pc EXCEPT !["post"] = "read"]
      /\ UNCHANGED <<status, rev, unsent, queue, target, seen, tracked, shown, said, untold, behind, faults>>
  BY DEF Post, Goto, store, messages, losses
<1>2. "post" \in Worker /\ Fitting /\ Fit("post")
  BY DEF Worker, IInv, Fitting
<1>3. e \in Event /\ e.kind = "played"
  BY DEF Event, Kind
<1> HIDE DEF e
<1>4. /\ pc'["post"] = "read" /\ job'["post"] = e
      /\ target'["post"] = target["post"] /\ seen'["post"] = seen["post"]
  BY <1>1, <1>2 DEF Fitting
<1>5. Fit("post")'
  BY <1>2, <1>3, <1>4 DEF Fit, Label
<1>6. Only("post")
  <2>1. /\ target = [target EXCEPT !["post"] = target["post"]]
        /\ seen = [seen EXCEPT !["post"] = seen["post"]]
    BY <1>2 DEF Fitting
  <2> QED BY <1>1, <1>4, <2>1 DEF Only
<1> QED BY <1>1, <1>2, <1>5, <1>6, SentFacts, MoveIInv

LEMMA SendIInv == ASSUME IInv, NEW m \in Message, Send(m) PROVE IInv'
<1>1. /\ pc["post"] = "send"
      /\ shown' = [k \in DOMAIN shown \cup {m} |-> IF k = m THEN seen["post"] ELSE shown[k]]
      /\ target' = [target EXCEPT !["post"] = m] /\ pc' = [pc EXCEPT !["post"] = "track"]
      /\ UNCHANGED <<status, rev, unsent, queue, job, seen, tracked, said, untold, behind, faults>>
  BY DEF Send, Goto, store, losses
<1>2. "post" \in Worker /\ pc["post"] # "idle"
  BY <1>1 DEF Worker
<1>3. Fit("post") /\ job["post"] \in Event /\ seen["post"] \in 0 .. MaxRev
  BY <1>2, BusyFacts
<1>4. /\ pc'["post"] = "track" /\ job'["post"] = job["post"]
      /\ target'["post"] = m /\ seen'["post"] = seen["post"]
  BY <1>1, <1>2, BusyFacts
<1>5. Fit("post")'
  BY <1>3, <1>4 DEF Fit, Label
<1>6. Only("post")
  <2>1. /\ job = [job EXCEPT !["post"] = job["post"]]
        /\ seen = [seen EXCEPT !["post"] = seen["post"]]
    BY <1>2, BusyFacts
  <2> QED BY <1>1, <1>4, <2>1 DEF Only
<1>7. DOMAIN shown' \subseteq Message /\ shown' \in [DOMAIN shown' -> 0 .. MaxRev]
  <2>1. DOMAIN shown' = DOMAIN shown \cup {m}
    BY <1>1
  <2>2. \A k \in DOMAIN shown' : shown'[k] \in 0 .. MaxRev
    BY <1>1, <1>3, <2>1, SentFacts
  <2>3. shown' = [k \in DOMAIN shown' |-> shown'[k]]
    BY <1>1
  <2> QED BY <2>1, <2>2, <2>3, SentFacts
<1> QED BY <1>1, <1>2, <1>5, <1>6, <1>7, SentFacts, MoveIInv

\* A post that is over.
LEMMA PostRestsIInv ==
  ASSUME IInv, Rest("post"), UNCHANGED <<status, rev, unsent, queue, said, shown, untold>>,
         behind' \subseteq Game, faults' \in 0 .. MaxFaults, tracked' \in [Game -> Message \cup {None}]
  PROVE  IInv'
<1>1. "post" \in Worker
  BY DEF Worker
<1>2. Only("post") /\ Fit("post")'
  BY <1>1, RestFits DEF IInv
<1> QED BY <1>1, <1>2, SentFacts, MoveIInv

LEMMA PostFailsIInv == ASSUME IInv, PostFails PROVE IInv'
<1>1. /\ Rest("post") /\ faults < MaxFaults /\ faults' = faults + 1
      /\ UNCHANGED <<status, rev, unsent, queue, tracked, shown, said, untold, behind>>
  BY DEF PostFails, Fault, store, messages, losses
<1>2. faults' \in 0 .. MaxFaults
  BY <1>1, SentFacts, MessageAssumption
<1> QED BY <1>1, <1>2, SentFacts, PostRestsIInv

LEMMA TrackIInv == ASSUME IInv, Track PROVE IInv'
<1>1. /\ pc["post"] = "track" /\ Rest("post")
      /\ UNCHANGED <<status, rev, unsent, queue, shown, said, untold>>
  BY DEF Track, store
<1>2. "post" \in Worker /\ pc["post"] # "idle"
  BY <1>1 DEF Worker
<1>3. job["post"].game \in Game /\ target["post"] \in Message
  BY <1>1, <1>2, BusyFacts DEF Fit
<1>4. CASE /\ Fine /\ tracked' = [tracked EXCEPT ![job["post"].game] = target["post"]]
           /\ behind' = behind \/ behind' = behind \cup {job["post"].game}
  <2>1. tracked' \in [Game -> Message \cup {None}]
    BY <1>3, <1>4, SentFacts
  <2>2. faults' \in 0 .. MaxFaults
    BY <1>4, SentFacts DEF Fine
  <2>3. behind' \subseteq Game
    BY <1>3, <1>4, SentFacts
  <2> QED BY <1>1, <2>1, <2>2, <2>3, PostRestsIInv
<1>5. CASE Fault /\ UNCHANGED <<tracked, behind>>
  <2>1. faults' \in 0 .. MaxFaults
    BY <1>5, SentFacts, MessageAssumption DEF Fault
  <2>2. tracked' \in [Game -> Message \cup {None}] /\ behind' \subseteq Game
    BY <1>5, SentFacts
  <2> QED BY <1>1, <2>1, <2>2, PostRestsIInv
<1> QED BY <1>4, <1>5 DEF Track, Behind

--------------------------------------------------------------------------------
(* Steps that move news: committed, published, taken, told, lost. *)

\* What the invariant says of a change or event that is somewhere.
LEMMA NewsFacts ==
  ASSUME IInv, NEW k \in Announced, NEW g \in Game
  PROVE  OnePlace(k, g) /\ (<<k, g>> \notin untold /\ True(k, g) => Somewhere(k, g))
BY DEF IInv, News

\* A change is handed to its publisher.
LEMMA HandFacts ==
  ASSUME IInv, NEW change \in Change, Hand(change)
  PROVE  /\ unsent' = unsent \cup {change} /\ change \notin unsent
         /\ unsent' \subseteq Change /\ IsFiniteSet(unsent')
         /\ Cardinality(unsent') <= MaxUnsent
<1>1. /\ unsent' = unsent \cup {change} /\ change \notin unsent
      /\ Cardinality(unsent) < MaxUnsent
  BY DEF Hand
<1>2. unsent \subseteq Change /\ IsFiniteSet(unsent)
  BY DEF IInv, Stored
<1>3. /\ IsFiniteSet(unsent \cup {change})
      /\ Cardinality(unsent \cup {change}) = Cardinality(unsent) + 1
  BY <1>1, <1>2, FS_AddElement
<1>4. Cardinality(unsent) \in Nat /\ MaxUnsent \in Nat
  BY <1>2, FS_CardinalityType, MessageAssumption
<1> QED BY <1>1, <1>2, <1>3, <1>4

\* What is recorded of a lost event.
LEMMA LostFacts ==
  ASSUME IInv, NEW e, e.kind \in Kind, e.game \in Game, Lost(e)
  PROVE  /\ untold' \subseteq Announced \X Game /\ untold \subseteq untold'
         /\ behind' \subseteq Game /\ behind \subseteq behind'
         /\ e.game \in behind'
         /\ e.kind \in Announced => <<e.kind, e.game>> \in untold'
<1>1. /\ untold' = untold \cup {<<x.kind, x.game>> : x \in {y \in {e} : y.kind \in Announced}}
      /\ behind' = behind \cup {e.game}
  BY DEF Lost, Unsaid, Behind
<1>2. untold \subseteq Announced \X Game /\ behind \subseteq Game
  BY DEF IInv, Sent
<1> QED BY <1>1, <1>2

\* The changes: how the status goes on, and what is to be announced of it.
Steps == {<<"none", "open", "opened">>, <<"open", "open", "played">>,
          <<"open", "finished", "finished">>, <<"open", "aborted", "aborted">>}

\* What a change makes true: its own news and nothing else.
LEMMA CommittedTruth ==
  ASSUME IInv, NEW h \in Game, NEW from, NEW to, NEW kind, <<from, to, kind>> \in Steps,
         Commit(h, from, to), NEW k \in Announced, NEW g \in Game
  PROVE  /\ k = kind /\ g = h => ~ True(k, g) /\ True(k, g)'
         /\ ~ (k = kind /\ g = h) => (True(k, g)' <=> True(k, g))
<1>1. status[h] = from /\ status' = [status EXCEPT ![h] = to]
  BY DEF Commit
<1>2. status \in [Game -> {"none", "open", "finished", "aborted"}]
  BY DEF IInv, Stored
<1>3. k \in {"opened", "finished", "aborted"}
  BY DEF Announced
<1>4. CASE h = g
  <2>1. status[g] = from /\ status'[g] = to
    BY <1>1, <1>2, <1>4
  <2>2. CASE from = "none" /\ to = "open" /\ kind = "opened"
    BY <1>3, <1>4, <2>1, <2>2 DEF True
  <2>3. CASE from = "open" /\ to = "open" /\ kind = "played"
    BY <1>3, <1>4, <2>1, <2>3 DEF True
  <2>4. CASE from = "open" /\ to = "finished" /\ kind = "finished"
    BY <1>3, <1>4, <2>1, <2>4 DEF True
  <2>5. CASE from = "open" /\ to = "aborted" /\ kind = "aborted"
    BY <1>3, <1>4, <2>1, <2>5 DEF True
  <2> QED BY <2>2, <2>3, <2>4, <2>5 DEF Steps
<1>5. CASE h # g
  <2>1. status'[g] = status[g]
    BY <1>1, <1>2, <1>5
  <2> QED BY <1>5, <2>1 DEF True
<1> QED BY <1>4, <1>5

\* What a change writes.
LEMMA CommitFacts ==
  ASSUME IInv, NEW h \in Game, NEW from, NEW to, NEW kind, <<from, to, kind>> \in Steps,
         Commit(h, from, to)
  PROVE  /\ status' \in [Game -> {"none", "open", "finished", "aborted"}]
         /\ rev' \in [Game -> 0 .. MaxRev] /\ rev[h] + 1 \in 0 .. MaxRev
         /\ kind \in Kind
         /\ \A g \in Game : g # h => rev'[g] = rev[g]
         /\ UNCHANGED <<queue, pc, job, target, seen, tracked, shown, said>>
<1>1. /\ rev[h] < MaxRev
      /\ status' = [status EXCEPT ![h] = to] /\ rev' = [rev EXCEPT ![h] = @ + 1]
      /\ UNCHANGED <<queue, pc, job, target, seen, tracked, shown, said>>
  BY DEF Commit, workers, messages
<1>2. /\ status \in [Game -> {"none", "open", "finished", "aborted"}]
      /\ rev \in [Game -> 0 .. MaxRev]
  BY DEF IInv, Stored
<1>3. to \in {"open", "finished", "aborted"} /\ kind \in Kind
  BY DEF Steps, Kind
<1>4. rev[h] + 1 \in 0 .. MaxRev
  BY <1>1, <1>2, MessageAssumption
<1>5. rev' \in [Game -> 0 .. MaxRev] /\ \A g \in Game : g # h => rev'[g] = rev[g]
  BY <1>1, <1>2, <1>4
<1>6. status' \in [Game -> {"none", "open", "finished", "aborted"}]
  BY <1>1, <1>2, <1>3
<1> QED BY <1>1, <1>3, <1>4, <1>5, <1>6

\* A change whose publisher is told of it keeps the invariant.
LEMMA AnsweredIInv ==
  ASSUME IInv, NEW h \in Game, NEW from, NEW to, NEW kind, <<from, to, kind>> \in Steps,
         Commit(h, from, to), Answered(h, kind)
  PROVE  IInv'
<1> DEFINE change == [kind |-> kind, game |-> h, rev |-> rev[h] + 1]
<1>1. Hand(change) /\ UNCHANGED <<untold, behind, faults>>
  BY DEF Answered, losses
<1>2. /\ status' \in [Game -> {"none", "open", "finished", "aborted"}]
      /\ rev' \in [Game -> 0 .. MaxRev] /\ rev[h] + 1 \in 0 .. MaxRev /\ kind \in Kind
      /\ UNCHANGED <<queue, pc, job, target, seen, tracked, shown, said>>
  BY CommitFacts
<1>3. change \in Change /\ change.kind = kind /\ change.game = h
  BY <1>2 DEF Change
<1> HIDE DEF change
<1>4. /\ unsent' = unsent \cup {change} /\ unsent' \subseteq Change
      /\ IsFiniteSet(unsent') /\ Cardinality(unsent') <= MaxUnsent
  BY <1>1, <1>3, HandFacts
<1>5. Stored'
  BY <1>2, <1>4 DEF IInv, Stored
<1>6. Fitting' /\ Sent'
  BY <1>1, <1>2 DEF IInv, Fitting, Fit, Sent
<1>7. ASSUME NEW k \in Announced, NEW g \in Game
      PROVE  /\ OnePlace(k, g)'
             /\ <<k, g>> \notin untold' /\ True(k, g)' => Somewhere(k, g)'
  <2>1. OnePlace(k, g) /\ (<<k, g>> \notin untold /\ True(k, g) => Somewhere(k, g))
    BY NewsFacts
  <2>2. /\ Queued(k, g)' <=> Queued(k, g)
        /\ InHand(k, g)' <=> InHand(k, g)
        /\ Told(k, g)' <=> Told(k, g)
    BY <1>2 DEF Queued, InHand, Told
  <2>3. CASE k = kind /\ g = h
    <3>1. ~ True(k, g) /\ True(k, g)'
      BY <2>3, CommittedTruth
    <3>2. ~ Unsent(k, g) /\ ~ Queued(k, g) /\ ~ InHand(k, g) /\ ~ Told(k, g)
      BY <2>1, <3>1 DEF OnePlace
    <3>3. said[<<k, g>>] = 0
      BY <2>1, <3>2 DEF OnePlace, Told
    <3>4. Unsent(k, g)' /\ ~ Queued(k, g)' /\ ~ InHand(k, g)'
      BY <1>3, <1>4, <2>2, <2>3, <3>2 DEF Unsent
    <3>5. \A c, d \in unsent' : c.kind = k /\ c.game = g /\ d.kind = k /\ d.game = g => c = d
      BY <1>4, <3>2 DEF Unsent
    <3>6. OnePlace(k, g)'
      BY <1>2, <2>1, <3>1, <3>3, <3>4, <3>5 DEF OnePlace
    <3> QED BY <3>4, <3>6 DEF Somewhere
  <2>4. CASE ~ (k = kind /\ g = h)
    <3>1. True(k, g)' <=> True(k, g)
      BY <2>4, CommittedTruth
    <3>2. /\ Unsent(k, g)' <=> Unsent(k, g)
          /\ \A c \in unsent' : c.kind = k /\ c.game = g => c \in unsent
      BY <1>3, <1>4, <2>4 DEF Unsent
    <3>3. \A c, d \in unsent' : c.kind = k /\ c.game = g /\ d.kind = k /\ d.game = g => c = d
      BY <2>1, <3>2 DEF OnePlace
    <3>4. OnePlace(k, g)'
      BY <1>2, <2>1, <2>2, <3>1, <3>2, <3>3 DEF OnePlace
    <3> QED BY <1>1, <2>1, <2>2, <3>1, <3>2, <3>4 DEF Somewhere
  <2> QED BY <2>3, <2>4
<1> QED BY <1>5, <1>6, <1>7 DEF IInv, News

\* So does a change nobody publishes: its news is recorded as lost.
LEMMA UnansweredIInv ==
  ASSUME IInv, NEW h \in Game, NEW from, NEW to, NEW kind, <<from, to, kind>> \in Steps,
         Commit(h, from, to), Lost([kind |-> kind, game |-> h]),
         UNCHANGED unsent, faults' \in 0 .. MaxFaults
  PROVE  IInv'
<1> DEFINE e == [kind |-> kind, game |-> h]
<1>1. /\ status' \in [Game -> {"none", "open", "finished", "aborted"}]
      /\ rev' \in [Game -> 0 .. MaxRev] /\ kind \in Kind
      /\ UNCHANGED <<queue, pc, job, target, seen, tracked, shown, said>>
  BY CommitFacts
<1>2. e.kind = kind /\ e.game = h
  OBVIOUS
<1>3. /\ untold' \subseteq Announced \X Game /\ untold \subseteq untold'
      /\ behind' \subseteq Game
      /\ e.kind \in Announced => <<e.kind, e.game>> \in untold'
  BY <1>1, <1>2, LostFacts
<1> HIDE DEF e
<1>4. Stored' /\ Sent'
  BY <1>1, <1>3 DEF IInv, Stored, Sent
<1>5. Fitting'
  BY <1>1 DEF IInv, Fitting, Fit
<1>6. ASSUME NEW k \in Announced, NEW g \in Game
      PROVE  /\ OnePlace(k, g)'
             /\ <<k, g>> \notin untold' /\ True(k, g)' => Somewhere(k, g)'
  <2>1. OnePlace(k, g) /\ (<<k, g>> \notin untold /\ True(k, g) => Somewhere(k, g))
    BY NewsFacts
  <2>2. /\ Unsent(k, g)' <=> Unsent(k, g)
        /\ Queued(k, g)' <=> Queued(k, g)
        /\ InHand(k, g)' <=> InHand(k, g)
        /\ Told(k, g)' <=> Told(k, g)
    BY <1>1 DEF Unsent, Queued, InHand, Told
  <2>3. True(k, g) => True(k, g)'
    BY CommittedTruth
  <2>4. True(k, g)' => True(k, g) \/ <<k, g>> \in untold'
    BY <1>2, <1>3, CommittedTruth
  <2>5. OnePlace(k, g)'
    BY <1>1, <2>1, <2>2, <2>3 DEF OnePlace
  <2> QED BY <1>3, <2>1, <2>2, <2>4, <2>5 DEF Somewhere
<1> QED BY <1>4, <1>5, <1>6 DEF IInv, News

LEMMA PlayIInv ==
  ASSUME IInv, NEW h \in Game, Open(h) \/ Play(h) \/ Finish(h) \/ AbortGame(h) PROVE IInv'
<1>1. ASSUME NEW from, NEW to, NEW kind, <<from, to, kind>> \in Steps,
             Commit(h, from, to), Unanswered(h, kind)
      PROVE  IInv'
  <2>1. faults' \in 0 .. MaxFaults
    BY <1>1, SentFacts, MessageAssumption DEF Unanswered, Fault
  <2> QED BY <1>1, <2>1, UnansweredIInv DEF Unanswered
<1>2. CASE Open(h)
  BY <1>2, AnsweredIInv DEF Open, Steps
<1>3. CASE Play(h)
  BY <1>1, <1>3, AnsweredIInv DEF Play, Steps
<1>4. CASE Finish(h)
  BY <1>1, <1>4, AnsweredIInv DEF Finish, Steps
<1>5. CASE AbortGame(h)
  BY <1>5, AnsweredIInv DEF AbortGame, Steps
<1> QED BY <1>2, <1>3, <1>4, <1>5

LEMMA ReplaceIInv == ASSUME IInv, NEW h \in Game, Replace(h) PROVE IInv'
BY SentFacts, UnansweredIInv DEF Replace, Steps

\* What is published again is no news.
LEMMA AskAgainIInv == ASSUME IInv, NEW h \in Game, AskAgain(h) PROVE IInv'
<1> DEFINE change == [kind |-> "played", game |-> h, rev |-> rev[h]]
<1>1. /\ Hand(change)
      /\ UNCHANGED <<status, rev, queue, pc, job, target, seen, tracked, shown, said,
                     untold, behind, faults>>
  BY DEF AskAgain, store, workers, messages, losses
<1>2. change \in Change /\ change.kind = "played"
  BY DEF IInv, Stored, Change, Kind
<1> HIDE DEF change
<1>3. /\ unsent' = unsent \cup {change} /\ unsent' \subseteq Change
      /\ IsFiniteSet(unsent') /\ Cardinality(unsent') <= MaxUnsent
  BY <1>1, <1>2, HandFacts
<1>4. Stored' /\ Fitting' /\ Sent'
  BY <1>1, <1>3 DEF IInv, Stored, Fitting, Fit, Sent
<1>5. ASSUME NEW k \in Announced, NEW g \in Game
      PROVE  /\ OnePlace(k, g)'
             /\ <<k, g>> \notin untold' /\ True(k, g)' => Somewhere(k, g)'
  <2>1. OnePlace(k, g) /\ (<<k, g>> \notin untold /\ True(k, g) => Somewhere(k, g))
    BY NewsFacts
  <2>2. k # "played"
    BY DEF Announced
  <2>3. /\ Unsent(k, g)' <=> Unsent(k, g)
        /\ \A c \in unsent' : c.kind = k /\ c.game = g => c \in unsent
    BY <1>2, <1>3, <2>2 DEF Unsent
  <2>4. /\ Queued(k, g)' <=> Queued(k, g)
        /\ InHand(k, g)' <=> InHand(k, g)
        /\ Told(k, g)' <=> Told(k, g)
        /\ True(k, g)' <=> True(k, g)
    BY <1>1 DEF Queued, InHand, Told, True
  <2>5. \A c, d \in unsent' : c.kind = k /\ c.game = g /\ d.kind = k /\ d.game = g => c = d
    BY <2>1, <2>3 DEF OnePlace
  <2>6. OnePlace(k, g)'
    BY <1>1, <2>1, <2>3, <2>4, <2>5 DEF OnePlace
  <2> QED BY <1>1, <2>1, <2>3, <2>4, <2>6 DEF Somewhere
<1> QED BY <1>4, <1>5 DEF IInv, News

\* The hub's buffer after a publication.
LEMMA DeliverFacts ==
  ASSUME IInv, NEW e \in Event, Deliver(e)
  PROVE  /\ queue' \in Seq(Event) /\ Len(queue') <= Buffer
         /\ untold' \subseteq Announced \X Game /\ untold \subseteq untold'
         /\ behind' \subseteq Game /\ behind \subseteq behind'
         /\ DOMAIN queue \subseteq DOMAIN queue'
         /\ \A i \in DOMAIN queue : queue'[i] = queue[i]
         /\ \A i \in DOMAIN queue' \ DOMAIN queue : queue'[i] = e
         /\ \A i, j \in DOMAIN queue' \ DOMAIN queue : i = j
         /\ \/ e.game \in behind' /\ (e.kind \in Announced => <<e.kind, e.game>> \in untold')
            \/ \E i \in DOMAIN queue' : queue'[i] = e
<1>1. /\ queue \in Seq(Event) /\ Len(queue) <= Buffer
      /\ untold \subseteq Announced \X Game /\ behind \subseteq Game
      /\ e.game \in Game /\ e.kind \in Kind
  BY EventFacts DEF IInv, Stored, Sent
<1>2. CASE Len(queue) < Buffer
  <2>1. queue' = Append(queue, e) /\ untold' = untold /\ behind' = behind
    BY <1>2 DEF Deliver, losses
  <2>2. /\ queue' \in Seq(Event) /\ Len(queue') = Len(queue) + 1
        /\ DOMAIN queue = 1 .. Len(queue) /\ DOMAIN queue' = 1 .. Len(queue) + 1
        /\ \A i \in DOMAIN queue : queue'[i] = queue[i]
        /\ queue'[Len(queue) + 1] = e
    BY <1>1, <2>1, Appended
  <2>3. Len(queue) \in Nat
    BY <1>1
  <2>4. Len(queue') <= Buffer
    BY <1>2, <2>2, <2>3, MessageAssumption
  <2>5. /\ Len(queue) + 1 \in DOMAIN queue' /\ DOMAIN queue \subseteq DOMAIN queue'
        /\ \A i \in DOMAIN queue' \ DOMAIN queue : i = Len(queue) + 1
    BY <2>2, <2>3
  <2> QED BY <1>1, <2>1, <2>2, <2>4, <2>5
<1>3. CASE ~ (Len(queue) < Buffer)
  <2>1. queue' = queue /\ Lost(e)
    BY <1>3 DEF Deliver
  <2>2. /\ untold' \subseteq Announced \X Game /\ untold \subseteq untold'
        /\ behind' \subseteq Game /\ behind \subseteq behind' /\ e.game \in behind'
        /\ e.kind \in Announced => <<e.kind, e.game>> \in untold'
    BY <1>1, <2>1, LostFacts
  <2> QED BY <1>1, <2>1, <2>2
<1> QED BY <1>2, <1>3

\* Publishing moves a change into the buffer, or loses it.
LEMMA PublishIInv == ASSUME IInv, NEW change \in unsent, Publish(change) PROVE IInv'
<1> DEFINE e == [kind |-> change.kind, game |-> change.game]
<1>1. /\ unsent' = unsent \ {change} /\ Deliver(e)
      /\ UNCHANGED <<status, rev, tracked, shown, said, faults>>
      /\ \/ UNCHANGED <<pc, job, target, seen>>
         \/ /\ pc["handler"] = "idle"
            /\ pc' = [pc EXCEPT !["handler"] = "find"]
            /\ job' = [job EXCEPT !["handler"] = e]
            /\ UNCHANGED <<target, seen>>
  BY DEF Publish, store, messages, losses, workers
<1>2. unsent \subseteq Change /\ IsFiniteSet(unsent) /\ Cardinality(unsent) <= MaxUnsent
  BY DEF IInv, Stored
<1>3. e \in Event /\ e.kind = change.kind /\ e.game = change.game
  BY <1>2 DEF Change, Event
<1> HIDE DEF e
<1>4. /\ queue' \in Seq(Event) /\ Len(queue') <= Buffer
      /\ untold' \subseteq Announced \X Game /\ untold \subseteq untold'
      /\ behind' \subseteq Game
      /\ DOMAIN queue \subseteq DOMAIN queue'
      /\ \A i \in DOMAIN queue : queue'[i] = queue[i]
      /\ \A i \in DOMAIN queue' \ DOMAIN queue : queue'[i] = e
      /\ \A i, j \in DOMAIN queue' \ DOMAIN queue : i = j
      /\ \/ e.kind \in Announced => <<e.kind, e.game>> \in untold'
         \/ \E i \in DOMAIN queue' : queue'[i] = e
  BY <1>1, <1>3, DeliverFacts
<1>5. /\ unsent' \subseteq Change /\ IsFiniteSet(unsent') /\ Cardinality(unsent') <= MaxUnsent
  <2>1. IsFiniteSet(unsent') /\ Cardinality(unsent') <= Cardinality(unsent)
    BY <1>1, <1>2, FS_Subset
  <2>2. Cardinality(unsent) \in Nat /\ Cardinality(unsent') \in Nat /\ MaxUnsent \in Nat
    BY <1>2, <2>1, FS_CardinalityType, MessageAssumption
  <2> QED BY <1>1, <1>2, <2>1, <2>2
<1>6. Stored'
  BY <1>1, <1>4, <1>5 DEF IInv, Stored
<1>7. Sent'
  BY <1>1, <1>4 DEF IInv, Sent
<1>8. Fitting' /\ pc'["bridge"] = pc["bridge"] /\ job'["bridge"] = job["bridge"]
  <2>1. CASE UNCHANGED <<pc, job, target, seen>>
    BY <2>1 DEF IInv, Fitting, Fit
  <2>2. CASE /\ pc' = [pc EXCEPT !["handler"] = "find"]
             /\ job' = [job EXCEPT !["handler"] = e]
             /\ UNCHANGED <<target, seen>>
    <3>1. /\ "handler" \in Worker /\ "bridge" \in Worker
          /\ Fitting /\ Fit("handler")
      BY DEF Worker, IInv, Fitting
    <3>2. /\ pc'["handler"] = "find" /\ job'["handler"] = e
          /\ target'["handler"] = target["handler"] /\ seen'["handler"] = seen["handler"]
      BY <2>2, <3>1 DEF Fitting
    <3>3. Fit("handler")'
      BY <1>3, <3>1, <3>2 DEF Fit, Label
    <3>4. Only("handler")
      <4>1. /\ target = [target EXCEPT !["handler"] = target["handler"]]
            /\ seen = [seen EXCEPT !["handler"] = seen["handler"]]
        BY <3>1 DEF Fitting
      <4> QED BY <2>2, <3>2, <4>1 DEF Only
    <3> QED BY <3>1, <3>3, <3>4, OneWorker
  <2> QED BY <1>1, <2>1, <2>2
<1>9. ASSUME NEW k \in Announced, NEW g \in Game
      PROVE  /\ OnePlace(k, g)'
             /\ <<k, g>> \notin untold' /\ True(k, g)' => Somewhere(k, g)'
  <2>1. OnePlace(k, g) /\ (<<k, g>> \notin untold /\ True(k, g) => Somewhere(k, g))
    BY NewsFacts
  <2>2. /\ InHand(k, g)' <=> InHand(k, g)
        /\ Told(k, g)' <=> Told(k, g)
        /\ True(k, g)' <=> True(k, g)
    BY <1>1, <1>8 DEF InHand, Told, True
  <2>3. \A c, d \in unsent' : c.kind = k /\ c.game = g /\ d.kind = k /\ d.game = g => c = d
    BY <1>1, <2>1 DEF OnePlace
  <2>4. CASE change.kind = k /\ change.game = g
    <3>1. Unsent(k, g) /\ ~ Unsent(k, g)'
      BY <1>1, <2>1, <2>4 DEF Unsent, OnePlace
    <3>2. ~ Queued(k, g) /\ ~ InHand(k, g) /\ said[<<k, g>>] = 0 /\ True(k, g)
      BY <2>1, <3>1 DEF OnePlace
    <3>3. \A i \in DOMAIN queue' : queue'[i].kind = k /\ queue'[i].game = g => i \notin DOMAIN queue
      BY <1>4, <3>2 DEF Queued
    <3>4. OnePlace(k, g)'
      BY <1>1, <1>4, <2>2, <2>3, <3>1, <3>2, <3>3 DEF OnePlace
    <3>5. <<k, g>> \in untold' \/ Queued(k, g)'
      BY <1>3, <1>4, <2>4 DEF Queued
    <3> QED BY <3>4, <3>5 DEF Somewhere
  <2>5. CASE ~ (change.kind = k /\ change.game = g)
    <3>1. Unsent(k, g)' <=> Unsent(k, g)
      BY <1>1, <2>5 DEF Unsent
    <3>2. \A i \in DOMAIN queue' : queue'[i].kind = k /\ queue'[i].game = g => i \in DOMAIN queue
      BY <1>3, <1>4, <2>5
    <3>3. Queued(k, g)' <=> Queued(k, g)
      BY <1>4, <3>2 DEF Queued
    <3>4. \A i, j \in DOMAIN queue' :
            /\ queue'[i].kind = k /\ queue'[i].game = g
            /\ queue'[j].kind = k /\ queue'[j].game = g
            => i = j
      BY <1>4, <2>1, <3>2 DEF OnePlace
    <3>5. OnePlace(k, g)'
      BY <1>1, <2>1, <2>2, <2>3, <3>1, <3>3, <3>4 DEF OnePlace
    <3> QED BY <1>4, <2>1, <2>2, <3>1, <3>3, <3>5 DEF Somewhere
  <2> QED BY <2>4, <2>5
<1> QED BY <1>6, <1>7, <1>8, <1>9 DEF IInv, News

\* The bridge takes the first event of its buffer.
LEMMA TakeIInv == ASSUME IInv, Take PROVE IInv'
<1> DEFINE e == Head(queue)
<1>1. /\ pc["bridge"] = "idle" /\ queue # << >>
      /\ job' = [job EXCEPT !["bridge"] = e] /\ queue' = Tail(queue)
      /\ pc' = [pc EXCEPT !["bridge"] = "find"]
      /\ UNCHANGED <<status, rev, unsent, target, seen, tracked, shown, said, untold, faults>>
      /\ behind' \subseteq behind
  BY DEF Take, Goto, store, messages, losses
<1>2. /\ Len(queue) \in Nat \ {0} /\ DOMAIN queue = 1 .. Len(queue)
      /\ e = queue[1] /\ e \in Event
      /\ queue' \in Seq(Event) /\ Len(queue') = Len(queue) - 1
      /\ DOMAIN queue' = 1 .. Len(queue) - 1
      /\ \A i \in DOMAIN queue' : i + 1 \in DOMAIN queue /\ queue'[i] = queue[i + 1]
  BY <1>1, HeadAndTail DEF IInv, Stored
<1>3. Len(queue') <= Buffer
  BY <1>2, MessageAssumption DEF IInv, Stored
<1> HIDE DEF e
<1>4. Stored' /\ Sent'
  BY <1>1, <1>2, <1>3 DEF IInv, Stored, Sent
<1>5. "bridge" \in Worker /\ Fitting /\ Fit("bridge")
  BY DEF Worker, IInv, Fitting
<1>6. /\ pc'["bridge"] = "find" /\ job'["bridge"] = e
      /\ target'["bridge"] = target["bridge"] /\ seen'["bridge"] = seen["bridge"]
  BY <1>1, <1>5 DEF Fitting
<1>7. Fitting'
  <2>1. Fit("bridge")'
    BY <1>2, <1>5, <1>6 DEF Fit, Label
  <2>2. Only("bridge")
    <3>1. /\ target = [target EXCEPT !["bridge"] = target["bridge"]]
          /\ seen = [seen EXCEPT !["bridge"] = seen["bridge"]]
      BY <1>5 DEF Fitting
    <3> QED BY <1>1, <1>6, <3>1 DEF Only
  <2> QED BY <1>5, <2>1, <2>2, OneWorker
<1>8. ASSUME NEW k \in Announced, NEW g \in Game
      PROVE  /\ OnePlace(k, g)'
             /\ <<k, g>> \notin untold' /\ True(k, g)' => Somewhere(k, g)'
  <2>1. OnePlace(k, g) /\ (<<k, g>> \notin untold /\ True(k, g) => Somewhere(k, g))
    BY NewsFacts
  <2>2. /\ Unsent(k, g)' <=> Unsent(k, g)
        /\ Told(k, g)' <=> Told(k, g)
        /\ True(k, g)' <=> True(k, g)
    BY <1>1 DEF Unsent, Told, True
  <2>3. ~ InHand(k, g)
    BY <1>1 DEF InHand
  <2>4. InHand(k, g)' <=> e.kind = k /\ e.game = g
    BY <1>6 DEF InHand
  <2>5. \A i \in DOMAIN queue' : i \in Int /\ i + 1 # 1
    BY <1>2
  <2>6. \A i, j \in DOMAIN queue' :
          /\ queue'[i].kind = k /\ queue'[i].game = g
          /\ queue'[j].kind = k /\ queue'[j].game = g
          => i = j
    <3> SUFFICES ASSUME NEW i \in DOMAIN queue', NEW j \in DOMAIN queue',
                        queue'[i].kind = k, queue'[i].game = g,
                        queue'[j].kind = k, queue'[j].game = g
                 PROVE  i = j
      OBVIOUS
    <3>1. i + 1 = j + 1
      BY <1>2, <2>1 DEF OnePlace
    <3> QED BY <2>5, <3>1
  <2>7. CASE e.kind = k /\ e.game = g
    <3>1. Queued(k, g)
      BY <1>2, <2>7 DEF Queued
    <3>2. ~ Queued(k, g)'
      <4> SUFFICES ASSUME NEW i \in DOMAIN queue', queue'[i].kind = k, queue'[i].game = g
                   PROVE  FALSE
        BY DEF Queued
      <4>1. i + 1 \in DOMAIN queue /\ queue'[i] = queue[i + 1] /\ 1 \in DOMAIN queue
        BY <1>2
      <4>2. i + 1 = 1
        BY <1>2, <2>1, <2>7, <4>1 DEF OnePlace
      <4> QED BY <2>5, <4>2
    <3>3. ~ Unsent(k, g) /\ said[<<k, g>>] = 0 /\ True(k, g)
      BY <2>1, <3>1 DEF OnePlace
    <3>4. OnePlace(k, g)'
      BY <1>1, <2>1, <2>2, <2>6, <3>2, <3>3 DEF OnePlace
    <3> QED BY <2>4, <2>7, <3>4 DEF Somewhere
  <2>8. CASE ~ (e.kind = k /\ e.game = g)
    <3>1. Queued(k, g)' => Queued(k, g)
      BY <1>2 DEF Queued
    <3>2. Queued(k, g) => Queued(k, g)'
      <4> SUFFICES ASSUME NEW i \in DOMAIN queue, queue[i].kind = k, queue[i].game = g
                   PROVE  Queued(k, g)'
        BY DEF Queued
      <4>1. i \in Nat /\ i # 1 /\ i - 1 \in DOMAIN queue'
        BY <1>2, <2>8
      <4>2. queue'[i - 1] = queue[i]
        BY <1>2, <4>1
      <4> QED BY <4>1, <4>2 DEF Queued
    <3>3. OnePlace(k, g)'
      BY <1>1, <2>1, <2>2, <2>3, <2>4, <2>6, <2>8, <3>1 DEF OnePlace
    <3> QED BY <1>1, <2>1, <2>2, <2>3, <3>2, <3>3 DEF Somewhere
  <2> QED BY <2>7, <2>8
<1> QED BY <1>4, <1>7, <1>8 DEF IInv, News

\* The bridge announces what it has in hand, or Discord fails.
LEMMA SayIInv == ASSUME IInv, Say PROVE IInv'
<1> DEFINE kind == job["bridge"].kind
           game == job["bridge"].game
<1>1. /\ pc["bridge"] = "say" /\ Rest("bridge")
      /\ UNCHANGED <<status, rev, unsent, queue, tracked, shown, behind>>
      /\ \/ said' = [said EXCEPT ![<<kind, game>>] = @ + 1] /\ UNCHANGED <<faults, untold>>
         \/ Fault /\ Unsaid({job["bridge"]}) /\ said' = said
  BY DEF Say, Announce, Fine, store, messages, losses
<1>2. "bridge" \in Worker /\ pc["bridge"] # "idle"
  BY <1>1 DEF Worker
<1>3. kind \in Announced /\ game \in Game
  BY <1>1, <1>2, BusyFacts DEF Fit
<1>11. \/ said' = [said EXCEPT ![<<kind, game>>] = @ + 1] /\ UNCHANGED <<faults, untold>>
       \/ /\ faults < MaxFaults /\ faults' = faults + 1
          /\ untold' = untold \cup {<<kind, game>>} /\ said' = said
  BY <1>1, <1>3 DEF Fault, Unsaid
<1>4. Fitting' /\ pc'["bridge"] = "idle"
  BY <1>1, <1>2, RestFits, OneWorker DEF IInv
<1>5. InHand(kind, game)
  BY <1>2 DEF InHand
<1>6. \A k, g : InHand(k, g) <=> k = kind /\ g = game
  BY <1>2 DEF InHand
<1> HIDE DEF kind, game
<1>7. said \in [Announced \X Game -> Nat] /\ <<kind, game>> \in Announced \X Game
  BY <1>3 DEF IInv, Sent
<1>8. Stored'
  BY <1>1 DEF IInv, Stored
<1>9. Sent'
  <2>1. said' \in [Announced \X Game -> Nat]
    BY <1>7, <1>11
  <2>2. untold' \subseteq Announced \X Game /\ faults' \in 0 .. MaxFaults
    BY <1>7, <1>11, MessageAssumption DEF IInv, Sent
  <2> QED BY <1>1, <2>1, <2>2 DEF IInv, Sent
<1>10. ASSUME NEW k \in Announced, NEW g \in Game
       PROVE  /\ OnePlace(k, g)'
              /\ <<k, g>> \notin untold' /\ True(k, g)' => Somewhere(k, g)'
  <2>1. OnePlace(k, g) /\ (<<k, g>> \notin untold /\ True(k, g) => Somewhere(k, g))
    BY NewsFacts
  <2>2. /\ Unsent(k, g)' <=> Unsent(k, g)
        /\ Queued(k, g)' <=> Queued(k, g)
        /\ True(k, g)' <=> True(k, g)
    BY <1>1 DEF Unsent, Queued, True
  <2>3. ~ InHand(k, g)'
    BY <1>4 DEF InHand
  <2>4. CASE k = kind /\ g = game
    <3>1. said[<<k, g>>] = 0 /\ ~ Unsent(k, g) /\ ~ Queued(k, g) /\ True(k, g)
      BY <1>5, <2>1, <2>4 DEF OnePlace
    <3>2. \/ said'[<<k, g>>] = 1
          \/ said'[<<k, g>>] = 0 /\ <<k, g>> \in untold'
      BY <1>7, <1>11, <2>4, <3>1
    <3>3. OnePlace(k, g)'
      BY <1>1, <2>1, <2>2, <2>3, <3>1, <3>2 DEF OnePlace
    <3> QED BY <3>2, <3>3 DEF Somewhere, Told
  <2>5. CASE ~ (k = kind /\ g = game)
    <3>1. ~ InHand(k, g)
      BY <1>6, <2>5
    <3>2. said'[<<k, g>>] = said[<<k, g>>]
      <4>1. <<k, g>> # <<kind, game>> /\ <<k, g>> \in Announced \X Game
        BY <2>5
      <4> QED BY <1>7, <1>11, <4>1
    <3>3. OnePlace(k, g)'
      BY <1>1, <2>1, <2>2, <2>3, <3>1, <3>2 DEF OnePlace, Told
    <3> QED BY <1>11, <2>1, <2>2, <3>1, <3>2, <3>3 DEF Somewhere, Told
  <2> QED BY <2>4, <2>5
<1> QED BY <1>4, <1>8, <1>9, <1>10 DEF IInv, News

\* The process is restarted: what was nowhere but in its memory is lost.
LEMMA RestartIInv == ASSUME IInv, RestartProcess PROVE IInv'
<1>1. /\ faults < MaxFaults /\ faults' = faults + 1
      /\ Unsaid(unsent \cup ToSet(queue) \cup
                (IF pc["bridge"] = "idle" THEN {} ELSE {job["bridge"]}))
      /\ Behind({e.game : e \in unsent \cup ToSet(queue) \cup
                (IF pc["bridge"] \in {"idle", "say"} THEN {} ELSE {job["bridge"]})})
      /\ unsent' = {} /\ queue' = << >>
      /\ pc' = [w \in Worker |-> "idle"] /\ job' = [w \in Worker |-> NoEvent]
      /\ target' = [w \in Worker |-> None] /\ seen' = [w \in Worker |-> 0]
      /\ UNCHANGED <<status, rev, tracked, shown, said>>
  BY DEF RestartProcess, Fault, store, messages, losses
<1>2. unsent \subseteq Change /\ queue \in Seq(Event)
  BY DEF IInv, Stored
<1>3. Stored'
  <2>1. IsFiniteSet({}) /\ Cardinality({}) = 0
    BY FS_EmptySet
  <2> QED BY <1>1, <2>1, MessageAssumption DEF IInv, Stored
<1>4. Fitting'
  BY <1>1, MessageAssumption DEF Fitting, Fit, Label
<1>5. Sent'
  <2>1. \A e \in unsent \cup ToSet(queue) : e.kind \in Kind /\ e.game \in Game
    <3>1. \A e \in unsent : e.kind \in Kind /\ e.game \in Game
      BY <1>2 DEF Change
    <3>2. \A i \in DOMAIN queue : queue[i].kind \in Kind /\ queue[i].game \in Game
      BY <1>2, EventFacts
    <3>3. \A e \in ToSet(queue) : e.kind \in Kind /\ e.game \in Game
      BY <3>2 DEF ToSet
    <3> QED BY <3>1, <3>3
  <2>2. pc["bridge"] # "idle" => job["bridge"].kind \in Kind /\ job["bridge"].game \in Game
    <3>1. "bridge" \in Worker
      BY DEF Worker
    <3> QED BY <3>1, BusyFacts
  <2>3. faults' \in 0 .. MaxFaults
    BY <1>1, MessageAssumption DEF IInv, Sent
  <2>4. untold' \subseteq Announced \X Game
    BY <1>1, <2>1, <2>2 DEF IInv, Sent, Unsaid
  <2>5. behind' \subseteq Game
    BY <1>1, <2>1, <2>2 DEF IInv, Sent, Behind
  <2> QED BY <1>1, <2>3, <2>4, <2>5 DEF IInv, Sent
<1>6. ASSUME NEW k \in Announced, NEW g \in Game
      PROVE  /\ OnePlace(k, g)'
             /\ <<k, g>> \notin untold' /\ True(k, g)' => Somewhere(k, g)'
  <2>1. OnePlace(k, g) /\ (<<k, g>> \notin untold /\ True(k, g) => Somewhere(k, g))
    BY NewsFacts
  <2>2. /\ Told(k, g)' <=> Told(k, g)
        /\ True(k, g)' <=> True(k, g)
    BY <1>1 DEF Told, True
  <2>3. ~ Unsent(k, g)' /\ ~ Queued(k, g)' /\ ~ InHand(k, g)'
    <3>1. "bridge" \in Worker
      BY DEF Worker
    <3> QED BY <1>1, <3>1 DEF Unsent, Queued, InHand
  <2>4. OnePlace(k, g)'
    BY <1>1, <2>1, <2>2, <2>3 DEF OnePlace
  <2>5. Unsent(k, g) => <<k, g>> \in untold'
    BY <1>1 DEF Unsent, Unsaid
  <2>6. Queued(k, g) => <<k, g>> \in untold'
    <3> SUFFICES ASSUME NEW i \in DOMAIN queue, queue[i].kind = k, queue[i].game = g
                 PROVE  <<k, g>> \in untold'
      BY DEF Queued
    <3>1. queue[i] \in ToSet(queue)
      BY DEF ToSet
    <3> QED BY <1>1, <3>1 DEF Unsaid
  <2>7. InHand(k, g) => <<k, g>> \in untold'
    BY <1>1 DEF InHand, Unsaid
  <2>8. untold \subseteq untold'
    BY <1>1 DEF Unsaid
  <2> QED BY <2>1, <2>2, <2>4, <2>5, <2>6, <2>7, <2>8 DEF Somewhere
<1> QED BY <1>3, <1>4, <1>5, <1>6 DEF IInv, News

--------------------------------------------------------------------------------
(* What holds in every behaviour. *)

LEMMA InitIInv == Init => IInv
<1> SUFFICES ASSUME Init PROVE IInv
  OBVIOUS
<1>1. Stored
  <2>1. IsFiniteSet({}) /\ Cardinality({}) = 0
    BY FS_EmptySet
  <2> QED BY <2>1, MessageAssumption DEF Init, Stored
<1>2. Fitting
  BY MessageAssumption DEF Init, Fitting, Fit, Label
<1>3. Sent
  <2>1. shown = << >> /\ DOMAIN shown = {}
    BY DEF Init
  <2>2. shown \in [DOMAIN shown -> 0 .. MaxRev]
    BY <2>1
  <2> QED BY <2>1, <2>2, MessageAssumption DEF Init, Sent
<1>4. ASSUME NEW k \in Announced, NEW g \in Game
      PROVE  OnePlace(k, g) /\ (<<k, g>> \notin untold /\ True(k, g) => Somewhere(k, g))
  <2>1. ~ Unsent(k, g) /\ ~ Queued(k, g) /\ ~ InHand(k, g) /\ said[<<k, g>>] = 0
    BY DEF Init, Unsent, Queued, InHand, Worker
  <2>2. ~ True(k, g)
    BY DEF Init, True, Announced
  <2> QED BY <2>1, <2>2 DEF Init, OnePlace, Told
<1> QED BY <1>1, <1>2, <1>3, <1>4 DEF IInv, News

\* Every step keeps the invariant.
LEMMA NextIInv == IInv /\ [Next]_vars => IInv'
<1> SUFFICES ASSUME IInv, [Next]_vars PROVE IInv'
  OBVIOUS
<1>1. CASE Requests
  BY <1>1, PlayIInv, AskAgainIInv, ReplaceIInv DEF Requests
<1>2. CASE \E change \in unsent : Publish(change)
  BY <1>2, PublishIInv
<1>3. CASE Bridge \/ Refresh("handler")
  <2>1. "bridge" \in Worker /\ "handler" \in Worker
    BY DEF Worker
  <2> QED BY <1>3, <2>1, TakeIInv, SayIInv, FindIInv, ReadIInv, EditIInv, RefreshFailsIInv
             DEF Bridge, Refresh
<1>4. CASE \/ (\E g \in Game : Post(g)) \/ Read("post")
           \/ (\E m \in Message : Send(m)) \/ PostFails \/ Track
  <2>1. "post" \in Worker
    BY DEF Worker
  <2> QED BY <1>4, <2>1, PostIInv, ReadIInv, SendIInv, PostFailsIInv, TrackIInv
<1>5. CASE RestartProcess
  BY <1>5, RestartIInv
<1>6. CASE UNCHANGED vars
  <2>1. UNCHANGED <<status, rev, unsent, queue, pc, job, target, seen, tracked, shown, said,
                    untold, behind, faults>>
    BY <1>6 DEF vars, store, workers, messages, losses
  <2>2. Stored' /\ Fitting' /\ Sent'
    BY <2>1 DEF IInv, Stored, Fitting, Fit, Sent
  <2>3. News'
    BY <2>1, NewsStays DEF IInv, InHand
  <2> QED BY <2>2, <2>3 DEF IInv
<1> QED BY <1>1, <1>2, <1>3, <1>4, <1>5, <1>6 DEF Next

\* The invariant holds in every behaviour.
LEMMA AlwaysIInv == Spec => []IInv
BY InitIInv, NextIInv, PTL DEF Spec

(* The buffer never holds more than its capacity, and every worker always  *)
(* works for an event of a game and writes to a message.                   *)
THEOREM TypeCorrect == Spec => []TypeOK
<1>1. IInv => TypeOK
  BY DEF IInv, Stored, Fitting, Sent, TypeOK, Label
<1> QED BY <1>1, AlwaysIInv, PTL

(* However events are published out of order, dropped, rendered and lost,  *)
(* the bridge (onEvent) announces nothing twice and nothing untrue.        *)
THEOREM NothingToldTwice == Spec => []AnnouncedOnceAndTruly
<1>1. ASSUME IInv PROVE AnnouncedOnceAndTruly
  <2> SUFFICES ASSUME NEW g \in Game
               PROVE  /\ \A kind \in Announced : said[<<kind, g>>] <= 1
                      /\ said[<<"opened", g>>] = 1 => status[g] # "none"
                      /\ said[<<"finished", g>>] = 1 => status[g] = "finished"
                      /\ said[<<"aborted", g>>] = 1 => status[g] = "aborted"
    BY DEF AnnouncedOnceAndTruly
  <2>1. \A k \in Announced : said[<<k, g>>] \in {0, 1} /\ (Told(k, g) => True(k, g))
    BY <1>1, NewsFacts DEF OnePlace
  <2> QED BY <2>1 DEF Announced, Told, True
<1> QED BY <1>1, AlwaysIInv, PTL

(* Every opening, win and abort has been told or is still on its way, for  *)
(* any number of games and any buffer, unless that very event got lost or  *)
(* its announcement failed.                                                *)
THEOREM NothingForgotten == Spec => []ToldOrComing
<1>1. ASSUME IInv PROVE ToldOrComing
  <2> SUFFICES ASSUME NEW g \in Game, NEW k \in Announced, <<k, g>> \notin untold,
                      status[g] = k \/ (k = "opened" /\ status[g] # "none")
               PROVE  \/ said[<<k, g>>] = 1
                      \/ \E change \in unsent : change.kind = k /\ change.game = g
                      \/ [kind |-> k, game |-> g] \in ToSet(queue)
                      \/ job["bridge"] = [kind |-> k, game |-> g] /\ pc["bridge"] # "idle"
    BY DEF ToldOrComing
  <2>1. Somewhere(k, g)
    <3>1. True(k, g)
      BY DEF True, Announced
    <3> QED BY <1>1, <3>1, NewsFacts
  <2>2. Queued(k, g) => [kind |-> k, game |-> g] \in ToSet(queue)
    <3> SUFFICES ASSUME NEW i \in DOMAIN queue, queue[i].kind = k, queue[i].game = g
                 PROVE  [kind |-> k, game |-> g] \in ToSet(queue)
      BY DEF Queued
    <3>1. queue[i] \in Event
      BY <1>1 DEF IInv, Stored
    <3>2. queue[i] = [kind |-> k, game |-> g]
      BY <3>1, EventFacts
    <3> QED BY <3>2 DEF ToSet
  <2>3. InHand(k, g) => job["bridge"] = [kind |-> k, game |-> g] /\ pc["bridge"] # "idle"
    <3>1. "bridge" \in Worker
      BY DEF Worker
    <3>2. pc["bridge"] # "idle" => job["bridge"] \in Event
      BY <1>1, <3>1, BusyFacts
    <3> QED BY <3>2, EventFacts DEF InHand
  <2> QED BY <2>1, <2>2, <2>3 DEF Somewhere, Told, Unsent
<1> QED BY <1>1, AlwaysIInv, PTL

--------------------------------------------------------------------------------
(* Status messages. *)

Renderer == {"bridge", "handler"}
Renders(w) == pc[w] \in {"read", "edit"}

\* A message is of one game, whoever writes it.
OwnMessages ==
  /\ \A g \in Game : tracked[g] # None => tracked[g] \in DOMAIN shown
  /\ \A g, h \in Game : tracked[g] = tracked[h] /\ tracked[g] # None => g = h
  /\ \A w \in Renderer : Renders(w) =>
       /\ target[w] \in DOMAIN shown
       /\ \A h \in Game : tracked[h] = target[w] => h = job[w].game

\* A message that is sent and not yet tracked is known to the post alone.
Posted ==
  pc["post"] = "track" =>
    /\ target["post"] \in DOMAIN shown /\ shown[target["post"]] = seen["post"]
    /\ \A h \in Game : tracked[h] # target["post"]
    /\ \A w \in Renderer : Renders(w) => target[w] # target["post"]

\* There is news of the game the bridge has not taken yet.
Pending(g) ==
  \/ \E change \in unsent : change.game = g
  \/ \E i \in DOMAIN queue : queue[i].game = g

\* What the bridge is about to write is the game as it is, or it will be back.
BridgeIsFresh ==
  pc["bridge"] = "edit" /\ job["bridge"].game \notin behind =>
    seen["bridge"] = rev[job["bridge"].game] \/ Pending(job["bridge"].game)

Settled == OwnMessages /\ Posted /\ BridgeIsFresh /\ StaleMeansComing

\* Steps after which the renderers write what they would have written, or nothing.
LEMMA OwnershipKept ==
  ASSUME OwnMessages, Posted, UNCHANGED tracked, DOMAIN shown' = DOMAIN shown,
         \A w \in Renderer : Renders(w)' =>
           Renders(w) /\ target'[w] = target[w] /\ job'[w] = job[w],
         pc'["post"] = "track" =>
           /\ pc["post"] = "track"
           /\ target'["post"] = target["post"] /\ seen'["post"] = seen["post"]
           /\ shown'[target["post"]] = shown[target["post"]]
  PROVE  OwnMessages' /\ Posted'
<1>1. OwnMessages'
  BY DEF OwnMessages
<1>2. Posted'
  BY DEF Posted
<1> QED BY <1>1, <1>2

\* Where the bridge stands still, what is coming is still coming.
LEMMA StillComing ==
  ASSUME UNCHANGED <<rev, unsent, queue>>,
         pc'["bridge"] = pc["bridge"], job'["bridge"] = job["bridge"],
         target'["bridge"] = target["bridge"], seen'["bridge"] = seen["bridge"]
  PROVE  /\ \A g, m : ComingTo(g, m)' <=> ComingTo(g, m)
         /\ behind \subseteq behind' /\ BridgeIsFresh => BridgeIsFresh'
<1>1. \A g, m : ComingTo(g, m)' <=> ComingTo(g, m)
  BY DEF ComingTo
<1>2. \A g : Pending(g)' <=> Pending(g)
  BY DEF Pending
<1>3. behind \subseteq behind' /\ BridgeIsFresh => BridgeIsFresh'
  BY <1>2 DEF BridgeIsFresh
<1> QED BY <1>1, <1>3

\* What is pending is coming; a bridge that writes nothing brings nothing else.
LEMMA PendingComes ==
  ASSUME NEW g, NEW m
  PROVE  /\ Pending(g) => ComingTo(g, m)
         /\ Pending(g)' => ComingTo(g, m)'
         /\ ComingTo(g, m) /\ ~ Pending(g) =>
              job["bridge"].game = g /\ pc["bridge"] \in {"find", "read", "edit"}
BY DEF Pending, ComingTo

\* The end of a rendering.
LEMMA RenderedEnds ==
  ASSUME IInv, NEW w \in Worker, pc[w] # "idle", Rendered(w)
  PROVE  pc'[w] \in {"say", "idle"}
<1>1. CASE Announces(w)
  BY <1>1, BusyFacts DEF Rendered, GoSay, Goto
<1>2. CASE ~ Announces(w)
  BY <1>2, RestFits DEF Rendered, IInv
<1> QED BY <1>1, <1>2

\* How an out-of-date message is shown to be about to be rendered.
LEMMA StaleFrom ==
  ASSUME \A g \in Game \ behind' : \A m :
           m = tracked'[g] /\ m # None /\ shown'[m] # rev'[g] => ComingTo(g, m)'
  PROVE  StaleMeansComing'
BY DEF StaleMeansComing, ComingTo

\* The roles.
LEMMA Roles ==
  /\ Renderer \subseteq Worker /\ {"bridge", "handler", "post"} = Worker
  /\ \A w \in Renderer : w = "bridge" \/ w = "handler"
  /\ "post" \notin Renderer
BY DEF Renderer, Worker

\* A step of one worker moves no other.
LEMMA OnlyMoves ==
  ASSUME Fitting, NEW w \in Worker, Only(w)
  PROVE  \A v \in Worker : v # w => /\ pc'[v] = pc[v] /\ job'[v] = job[v]
                                     /\ target'[v] = target[v] /\ seen'[v] = seen[v]
BY DEF Fitting, Only

\* Steps of the two other workers.
LEMMA BesideTheBridge ==
  ASSUME IInv, Settled, NEW w \in {"handler", "post"}, Only(w),
         UNCHANGED <<rev, unsent, queue>>, behind \subseteq behind',
         OwnMessages', Posted',
         \A g \in Game \ behind' :
           \/ tracked'[g] = None
           \/ tracked'[g] = tracked[g] /\ shown'[tracked[g]] = shown[tracked[g]]
           \/ shown'[tracked'[g]] = rev[g]
           \/ ComingTo(g, tracked'[g])
  PROVE  Settled'
<1>1. w \in Worker /\ "bridge" \in Worker /\ w # "bridge"
  BY DEF Worker
<1>2. /\ pc'["bridge"] = pc["bridge"] /\ job'["bridge"] = job["bridge"]
      /\ target'["bridge"] = target["bridge"] /\ seen'["bridge"] = seen["bridge"]
  BY <1>1, OnlyMoves DEF IInv
<1>3. (\A g, m : ComingTo(g, m)' <=> ComingTo(g, m)) /\ BridgeIsFresh'
  BY <1>2, StillComing DEF Settled
<1>4. ASSUME NEW g \in Game, g \notin behind', NEW m, m = tracked'[g], m # None,
             shown'[m] # rev'[g]
      PROVE  ComingTo(g, m)'
  <2>1. ComingTo(g, m) \/ (tracked[g] = m /\ shown[m] # rev[g])
    BY <1>4 DEF ComingTo
  <2>2. ComingTo(g, m)
    BY <1>4, <2>1 DEF Settled, StaleMeansComing
  <2> QED BY <1>3, <2>2
<1>5. StaleMeansComing'
  BY <1>4, StaleFrom
<1> QED BY <1>3, <1>5 DEF Settled

\* Lemma <Action>Settled, here and below: that action keeps what is said of messages.
LEMMA FindSettled == ASSUME IInv, Settled, NEW w \in Renderer, Find(w) PROVE Settled'
<1>1. /\ pc[w] = "find"
      /\ UNCHANGED <<rev, unsent, queue, tracked, shown, behind>>
  BY DEF Find, store, messages, losses
<1>2. w \in Worker /\ "post" \in Worker /\ w # "post" /\ job[w].game \in Game
  BY <1>1, Roles, BusyFacts
<1>3. CASE tracked[job[w].game] = None /\ Rendered(w)
  <2>1. Only(w) /\ pc'[w] \in {"say", "idle"}
    BY <1>1, <1>2, <1>3, RenderedFits, RenderedEnds
  <2>2. \A v \in Worker : v # w => /\ pc'[v] = pc[v] /\ job'[v] = job[v]
                                    /\ target'[v] = target[v] /\ seen'[v] = seen[v]
    BY <1>2, <2>1, OnlyMoves DEF IInv
  <2>3. OwnMessages' /\ Posted'
    BY <1>1, <1>2, <2>1, <2>2, Roles, OwnershipKept DEF Settled, Renders
  <2>4. CASE w = "handler"
    BY <1>1, <2>1, <2>3, <2>4, BesideTheBridge
  <2>5. CASE w = "bridge"
    <3>1. ASSUME NEW g \in Game, g \notin behind', NEW m, m = tracked'[g], m # None,
                 shown'[m] # rev'[g]
          PROVE  ComingTo(g, m)'
      <4>1. ComingTo(g, m)
        BY <1>1, <3>1 DEF Settled, StaleMeansComing
      <4>2. job["bridge"].game # g
        BY <1>1, <1>3, <2>5, <3>1
      <4>3. Pending(g)'
        BY <1>1, <4>1, <4>2, PendingComes DEF Pending
      <4> QED BY <4>3, PendingComes
    <3>2. StaleMeansComing'
      BY <3>1, StaleFrom
    <3>3. BridgeIsFresh'
      BY <2>1, <2>5 DEF BridgeIsFresh
    <3> QED BY <2>3, <3>2, <3>3 DEF Settled
  <2> QED BY <2>4, <2>5, Roles
<1>4. CASE /\ tracked[job[w].game] # None
           /\ target' = [target EXCEPT ![w] = tracked[job[w].game]]
           /\ pc' = [pc EXCEPT ![w] = "read"] /\ UNCHANGED <<job, seen>>
  <2>1. /\ pc'[w] = "read" /\ target'[w] = tracked[job[w].game]
        /\ \A v \in Worker : v # w => pc'[v] = pc[v] /\ target'[v] = target[v]
    BY <1>1, <1>2, <1>4, BusyFacts
  <2>2. Only(w)
    <3>1. job = [job EXCEPT ![w] = job[w]] /\ seen = [seen EXCEPT ![w] = seen[w]]
      BY <1>1, <1>2, BusyFacts
    <3> QED BY <1>4, <2>1, <3>1 DEF Only
  <2>3. OwnMessages'
    <3>1. ASSUME NEW v \in Renderer, Renders(v)'
          PROVE  /\ target'[v] \in DOMAIN shown
                 /\ \A h \in Game : tracked[h] = target'[v] => h = job[v].game
      <4>1. CASE v = w
        BY <1>2, <1>4, <2>1, <4>1 DEF Settled, OwnMessages
      <4>2. CASE v # w
        BY <2>1, <3>1, <4>2, Roles DEF Settled, OwnMessages, Renders
      <4> QED BY <4>1, <4>2
    <3> QED BY <1>1, <1>4, <3>1 DEF Settled, OwnMessages
  <2>4. Posted'
    <3>1. SUFFICES ASSUME pc["post"] = "track", NEW v \in Renderer, Renders(v)'
                   PROVE  target'[v] # target["post"]
      BY <1>1, <1>2, <1>4, <2>1 DEF Settled, Posted
    <3>2. CASE v = w
      BY <1>2, <2>1, <3>1, <3>2 DEF Settled, Posted
    <3>3. CASE v # w
      BY <2>1, <3>1, <3>3, Roles DEF Settled, Posted, Renders
    <3> QED BY <3>2, <3>3
  <2>5. CASE w = "handler"
    BY <1>1, <2>2, <2>3, <2>4, <2>5, BesideTheBridge
  <2>6. CASE w = "bridge"
    <3>1. ASSUME NEW g \in Game, g \notin behind', NEW m, m = tracked'[g], m # None,
                 shown'[m] # rev'[g]
          PROVE  ComingTo(g, m)'
      <4>1. ComingTo(g, m)
        BY <1>1, <3>1 DEF Settled, StaleMeansComing
      <4>2. CASE job["bridge"].game = g
        BY <1>1, <1>4, <2>1, <2>6, <3>1, <4>2 DEF ComingTo
      <4>3. CASE job["bridge"].game # g
        <5>1. Pending(g)'
          BY <1>1, <4>1, <4>3, PendingComes DEF Pending
        <5> QED BY <5>1, PendingComes
      <4> QED BY <4>2, <4>3
    <3>2. StaleMeansComing'
      BY <3>1, StaleFrom
    <3>3. BridgeIsFresh'
      BY <2>1, <2>6 DEF BridgeIsFresh
    <3> QED BY <2>3, <2>4, <3>2, <3>3 DEF Settled
  <2> QED BY <2>5, <2>6, Roles
<1> QED BY <1>3, <1>4 DEF Find, Goto

LEMMA ReadSettled == ASSUME IInv, Settled, NEW w \in Worker, Read(w) PROVE Settled'
<1>1. /\ pc[w] = "read" /\ seen' = [seen EXCEPT ![w] = rev[job[w].game]]
      /\ pc' = [pc EXCEPT ![w] = IF w = "post" THEN "send" ELSE "edit"]
      /\ UNCHANGED <<rev, unsent, queue, job, target, tracked, shown, behind>>
  BY DEF Read, Goto, store, messages, losses
<1>2. /\ pc'[w] = (IF w = "post" THEN "send" ELSE "edit") /\ seen'[w] = rev[job[w].game]
      /\ \A v \in Worker : v # w => pc'[v] = pc[v] /\ seen'[v] = seen[v]
  BY <1>1, BusyFacts
<1>3. Only(w)
  <2>1. job = [job EXCEPT ![w] = job[w]] /\ target = [target EXCEPT ![w] = target[w]]
    BY <1>1, BusyFacts
  <2> QED BY <1>1, <1>2, <2>1 DEF Only
<1>4. OwnMessages' /\ Posted'
  <2>1. \A v \in Renderer : Renders(v)' => Renders(v)
    BY <1>1, <1>2, Roles DEF Renders
  <2>2. pc'["post"] = "track" => pc["post"] = "track" /\ seen'["post"] = seen["post"]
    BY <1>2, Roles
  <2> QED BY <1>1, <2>1, <2>2, OwnershipKept DEF Settled
<1>5. CASE w # "bridge"
  BY <1>1, <1>3, <1>4, <1>5, Roles, BesideTheBridge
<1>6. CASE w = "bridge"
  <2>1. ASSUME NEW g \in Game, g \notin behind', NEW m, m = tracked'[g], m # None,
               shown'[m] # rev'[g]
        PROVE  ComingTo(g, m)'
    <3>1. ComingTo(g, m)
      BY <1>1, <2>1 DEF Settled, StaleMeansComing
    <3> QED BY <1>1, <1>2, <1>6, <3>1 DEF ComingTo
  <2>2. StaleMeansComing'
    BY <2>1, StaleFrom
  <2>3. BridgeIsFresh'
    BY <1>1, <1>2, <1>6 DEF BridgeIsFresh
  <2> QED BY <1>4, <2>2, <2>3 DEF Settled
<1> QED BY <1>5, <1>6

\* The end of a rendering by the bridge: all it leaves out of date is still pending.
LEMMA BridgeDone ==
  ASSUME IInv, Settled, pc'["bridge"] \in {"say", "idle"},
         UNCHANGED <<rev, unsent, queue, tracked>>, behind \subseteq behind',
         OwnMessages', Posted',
         \A g \in Game \ behind' :
           tracked[g] = None \/ shown'[tracked[g]] = rev[g] \/ Pending(g)
  PROVE  Settled'
<1>1. ASSUME NEW g \in Game, g \notin behind', NEW m, m = tracked'[g], m # None,
             shown'[m] # rev'[g]
      PROVE  ComingTo(g, m)'
  <2>1. Pending(g)'
    BY <1>1 DEF Pending
  <2> QED BY <2>1, PendingComes
<1>2. StaleMeansComing'
  BY <1>1, StaleFrom
<1>3. BridgeIsFresh'
  BY DEF BridgeIsFresh
<1> QED BY <1>2, <1>3 DEF Settled

LEMMA EditSettled == ASSUME IInv, Settled, NEW w \in Renderer, Edit(w) PROVE Settled'
<1>1. /\ pc[w] = "edit" /\ Rendered(w)
      /\ shown' = [shown EXCEPT ![target[w]] = seen[w]]
      /\ UNCHANGED <<rev, unsent, queue, tracked>> /\ behind \subseteq behind'
  BY DEF Edit, store, Behind
<1>2. w \in Worker /\ "post" \in Worker /\ w # "post" /\ job[w].game \in Game
  BY <1>1, Roles, BusyFacts
<1>3. Only(w) /\ pc'[w] \in {"say", "idle"}
  BY <1>1, <1>2, RenderedFits, RenderedEnds
<1>4. \A v \in Worker : v # w => /\ pc'[v] = pc[v] /\ job'[v] = job[v]
                                  /\ target'[v] = target[v] /\ seen'[v] = seen[v]
  BY <1>2, <1>3, OnlyMoves DEF IInv
<1>5. /\ target[w] \in DOMAIN shown /\ DOMAIN shown' = DOMAIN shown
      /\ shown'[target[w]] = seen[w]
      /\ \A m \in DOMAIN shown : m # target[w] => shown'[m] = shown[m]
      /\ \A h \in Game : tracked[h] = target[w] => h = job[w].game
  BY <1>1 DEF Settled, OwnMessages, Renders
<1>6. OwnMessages' /\ Posted'
  <2>1. \A v \in Renderer : Renders(v)' =>
          Renders(v) /\ target'[v] = target[v] /\ job'[v] = job[v]
    BY <1>3, <1>4, Roles DEF Renders
  <2>2. pc["post"] = "track" => shown'[target["post"]] = shown[target["post"]]
    BY <1>1, <1>5 DEF Settled, Posted, Renders
  <2> QED BY <1>1, <1>2, <1>4, <1>5, <2>1, <2>2, OwnershipKept DEF Settled
<1>7. CASE w = "handler"
  <2>1. ASSUME NEW g \in Game, g \notin behind', tracked[g] # None
        PROVE  \/ shown'[tracked[g]] = shown[tracked[g]]
               \/ shown'[tracked[g]] = rev[g]
               \/ ComingTo(g, tracked[g])
    <3>1. CASE tracked[g] # target[w]
      BY <1>5, <2>1, <3>1 DEF Settled, OwnMessages
    <3>2. CASE tracked[g] = target[w]
      <4>1. g = job[w].game
        BY <1>5, <3>2
      <4>2. ~ LeavesOutdated(w, target[w])
        BY <1>7, <2>1, <3>2, <4>1 DEF Edit, Behind
      <4> QED BY <1>5, <3>2, <4>1, <4>2 DEF LeavesOutdated
    <3> QED BY <3>1, <3>2
  <2> QED BY <1>1, <1>3, <1>6, <1>7, <2>1, BesideTheBridge
<1>8. CASE w = "bridge"
  <2>1. ASSUME NEW g \in Game, g \notin behind', tracked[g] # None,
               shown'[tracked[g]] # rev[g]
        PROVE  Pending(g)
    <3>1. CASE tracked[g] = target[w]
      <4>1. g = job["bridge"].game /\ seen["bridge"] # rev[g] /\ g \notin behind
        BY <1>1, <1>5, <1>8, <2>1, <3>1
      <4> QED BY <1>1, <1>8, <4>1 DEF Settled, BridgeIsFresh
    <3>2. CASE tracked[g] # target[w]
      <4>1. shown[tracked[g]] # rev[g] /\ g \notin behind
        BY <1>1, <1>5, <2>1, <3>2 DEF Settled, OwnMessages
      <4>2. ComingTo(g, tracked[g])
        BY <2>1, <4>1 DEF Settled, StaleMeansComing
      <4> QED BY <1>1, <1>8, <3>2, <4>2 DEF ComingTo, Pending
    <3> QED BY <3>1, <3>2
  <2> QED BY <1>1, <1>3, <1>6, <1>8, <2>1, BridgeDone
<1> QED BY <1>7, <1>8, Roles

LEMMA RefreshFailsSettled ==
  ASSUME IInv, Settled, NEW w \in Renderer, RefreshFails(w) PROVE Settled'
<1>1. /\ pc[w] \in {"find", "read", "edit"} /\ Rendered(w)
      /\ UNCHANGED <<rev, unsent, queue, tracked, shown>>
      /\ w = "bridge" => behind' = behind \cup {job[w].game}
      /\ behind \subseteq behind'
  BY DEF RefreshFails, Behind, store, messages, losses
<1>2. w \in Worker /\ "post" \in Worker /\ w # "post"
  BY Roles
<1>3. Only(w) /\ pc'[w] \in {"say", "idle"}
  BY <1>1, <1>2, RenderedFits, RenderedEnds
<1>4. \A v \in Worker : v # w => /\ pc'[v] = pc[v] /\ job'[v] = job[v]
                                  /\ target'[v] = target[v] /\ seen'[v] = seen[v]
  BY <1>2, <1>3, OnlyMoves DEF IInv
<1>5. OwnMessages' /\ Posted'
  BY <1>1, <1>2, <1>3, <1>4, Roles, OwnershipKept DEF Settled, Renders
<1>6. CASE w = "handler"
  BY <1>1, <1>3, <1>5, <1>6, BesideTheBridge
<1>7. CASE w = "bridge"
  <2>1. ASSUME NEW g \in Game, g \notin behind', tracked[g] # None,
               shown[tracked[g]] # rev[g]
        PROVE  Pending(g)
    <3>1. ComingTo(g, tracked[g])
      BY <1>1, <2>1 DEF Settled, StaleMeansComing
    <3> QED BY <1>1, <1>7, <2>1, <3>1, PendingComes
  <2> QED BY <1>1, <1>3, <1>5, <1>7, <2>1, BridgeDone
<1> QED BY <1>6, <1>7, Roles

LEMMA SaySettled == ASSUME IInv, Settled, Say PROVE Settled'
<1>1. /\ pc["bridge"] = "say" /\ Rest("bridge") /\ behind \subseteq behind'
      /\ UNCHANGED <<rev, unsent, queue, tracked, shown>>
  BY DEF Say, store, messages
<1>2. "bridge" \in Worker /\ "post" \in Worker
  BY Roles
<1>3. Only("bridge") /\ pc'["bridge"] = "idle"
  BY <1>1, <1>2, RestFits DEF IInv
<1>4. \A v \in Worker : v # "bridge" =>
        /\ pc'[v] = pc[v] /\ job'[v] = job[v]
        /\ target'[v] = target[v] /\ seen'[v] = seen[v]
  BY <1>2, <1>3, OnlyMoves DEF IInv
<1>5. OwnMessages' /\ Posted'
  BY <1>1, <1>2, <1>3, <1>4, Roles, OwnershipKept DEF Settled, Renders
<1>6. ASSUME NEW g \in Game, g \notin behind', tracked[g] # None, shown[tracked[g]] # rev[g]
      PROVE  Pending(g)
  <2>1. ComingTo(g, tracked[g])
    BY <1>1, <1>6 DEF Settled, StaleMeansComing
  <2> QED BY <1>1, <2>1, PendingComes
<1> QED BY <1>1, <1>3, <1>5, <1>6, BridgeDone

\* Steps of the store: whatever changes is pending, or one of the behind.
LEMMA ChangedIsPending ==
  ASSUME IInv, Settled, unsent \subseteq unsent', behind \subseteq behind',
         UNCHANGED <<queue, pc, job, target, seen, tracked, shown>>,
         \A g \in Game : \/ rev'[g] = rev[g] \/ g \in behind'
                         \/ \E change \in unsent' : change.game = g
  PROVE  Settled'
<1>1. OwnMessages' /\ Posted'
  BY OwnershipKept DEF Settled, Renders
<1>2. \A g : Pending(g) => Pending(g)'
  BY DEF Pending
<1>3. ASSUME NEW g \in Game, g \notin behind', rev'[g] # rev[g] PROVE Pending(g)'
  BY <1>3 DEF Pending
<1>4. ASSUME NEW g \in Game, g \notin behind', NEW m, m = tracked'[g], m # None,
             shown'[m] # rev'[g]
      PROVE  ComingTo(g, m)'
  <2>1. CASE rev'[g] # rev[g]
    BY <1>3, <1>4, <2>1, PendingComes
  <2>2. CASE rev'[g] = rev[g]
    <3>1. ComingTo(g, m)
      BY <1>4, <2>2 DEF Settled, StaleMeansComing
    <3> QED BY <2>2, <3>1 DEF ComingTo
  <2> QED BY <2>1, <2>2
<1>5. StaleMeansComing'
  BY <1>4, StaleFrom
<1>6. BridgeIsFresh'
  <2>1. SUFFICES ASSUME pc["bridge"] = "edit",
                        NEW g, g = job["bridge"].game, g \notin behind'
                 PROVE  seen["bridge"] = rev'[g] \/ Pending(g)'
    BY DEF BridgeIsFresh, Pending
  <2>2. g \in Game
    BY <2>1, Roles, BusyFacts
  <2>3. seen["bridge"] = rev[g] \/ Pending(g)
    BY <2>1 DEF Settled, BridgeIsFresh
  <2> QED BY <1>2, <1>3, <2>1, <2>2, <2>3
<1> QED BY <1>1, <1>5, <1>6 DEF Settled

LEMMA AnsweredSettled ==
  ASSUME IInv, Settled, NEW g \in Game, NEW from, NEW to, NEW kind, <<from, to, kind>> \in Steps,
         Commit(g, from, to), Answered(g, kind)
  PROVE  Settled'
<1> DEFINE change == [kind |-> kind, game |-> g, rev |-> rev[g] + 1]
<1>1. /\ unsent' = unsent \cup {change} /\ behind' = behind
      /\ UNCHANGED <<queue, pc, job, target, seen, tracked, shown>>
  BY DEF Commit, Answered, Hand, workers, messages, losses
<1>2. change.game = g
  OBVIOUS
<1> HIDE DEF change
<1>3. \A h \in Game : h # g => rev'[h] = rev[h]
  BY CommitFacts
<1> QED BY <1>1, <1>2, <1>3, ChangedIsPending

LEMMA UnansweredSettled ==
  ASSUME IInv, Settled, NEW g \in Game, NEW from, NEW to, NEW kind, <<from, to, kind>> \in Steps,
         Commit(g, from, to), Lost([kind |-> kind, game |-> g]), UNCHANGED unsent
  PROVE  Settled'
<1>1. /\ behind' = behind \cup {g}
      /\ UNCHANGED <<queue, pc, job, target, seen, tracked, shown>>
  BY DEF Commit, Lost, Behind, workers, messages
<1>2. \A h \in Game : h # g => rev'[h] = rev[h]
  BY CommitFacts
<1> QED BY <1>1, <1>2, ChangedIsPending

LEMMA PlaySettled ==
  ASSUME IInv, Settled, NEW g \in Game,
         Open(g) \/ Play(g) \/ Finish(g) \/ AbortGame(g) \/ Replace(g)
  PROVE  Settled'
<1>1. CASE Open(g) \/ AbortGame(g)
  BY <1>1, AnsweredSettled DEF Open, AbortGame, Steps
<1>2. CASE Play(g)
  BY <1>2, AnsweredSettled, UnansweredSettled DEF Play, Unanswered, Steps
<1>3. CASE Finish(g)
  BY <1>3, AnsweredSettled, UnansweredSettled DEF Finish, Unanswered, Steps
<1>4. CASE Replace(g)
  BY <1>4, UnansweredSettled DEF Replace, Steps
<1> QED BY <1>1, <1>2, <1>3, <1>4

LEMMA AskAgainSettled == ASSUME IInv, Settled, NEW g \in Game, AskAgain(g) PROVE Settled'
<1>1. /\ unsent \subseteq unsent'
      /\ UNCHANGED <<rev, queue, pc, job, target, seen, tracked, shown, behind>>
  BY DEF AskAgain, Hand, store, workers, messages, losses
<1> QED BY <1>1, ChangedIsPending

LEMMA TakeSettled == ASSUME IInv, Settled, Take PROVE Settled'
<1> DEFINE e == Head(queue)
<1>1. /\ pc["bridge"] = "idle" /\ queue # << >>
      /\ job' = [job EXCEPT !["bridge"] = e] /\ queue' = Tail(queue)
      /\ pc' = [pc EXCEPT !["bridge"] = "find"]
      /\ UNCHANGED <<rev, unsent, target, seen, tracked, shown>>
      /\ behind' = behind \ {e.game}
  BY DEF Take, Goto, store, messages, losses
<1>2. /\ Len(queue) \in Nat \ {0} /\ DOMAIN queue = 1 .. Len(queue) /\ e = queue[1]
      /\ DOMAIN queue' = 1 .. Len(queue) - 1
      /\ \A i \in DOMAIN queue' : queue'[i] = queue[i + 1]
  BY <1>1, HeadAndTail DEF IInv, Stored
<1> HIDE DEF e
<1>3. /\ pc'["bridge"] = "find" /\ job'["bridge"] = e
      /\ \A v \in Worker : v # "bridge" => pc'[v] = pc[v] /\ job'[v] = job[v]
  BY <1>1, Roles DEF IInv, Fitting
<1>4. OwnMessages' /\ Posted'
  BY <1>1, <1>3, Roles, OwnershipKept DEF Settled, Renders
<1>5. ASSUME NEW g \in Game, g \notin behind', NEW m, m = tracked'[g], m # None,
             shown'[m] # rev'[g]
      PROVE  ComingTo(g, m)'
  <2>1. CASE e.game = g
    BY <1>3, <2>1 DEF ComingTo
  <2>2. ASSUME e.game # g PROVE Pending(g)
    <3>1. ComingTo(g, m)
      BY <1>1, <1>5, <2>2 DEF Settled, StaleMeansComing
    <3> QED BY <1>1, <3>1, PendingComes
  <2>3. CASE \E change \in unsent : change.game = g
    BY <1>1, <2>3 DEF ComingTo
  <2>4. CASE e.game # g /\ \E i \in DOMAIN queue : queue[i].game = g
    <3>1. PICK i \in DOMAIN queue : queue[i].game = g
      BY <2>4
    <3>2. i # 1
      BY <1>2, <2>4, <3>1
    <3>3. i - 1 \in DOMAIN queue' /\ queue'[i - 1].game = g
      BY <1>2, <3>1, <3>2
    <3> QED BY <3>3 DEF ComingTo
  <2> QED BY <2>1, <2>2, <2>3, <2>4 DEF Pending
<1>6. StaleMeansComing'
  BY <1>5, StaleFrom
<1>7. BridgeIsFresh'
  BY <1>3 DEF BridgeIsFresh
<1> QED BY <1>4, <1>6, <1>7 DEF Settled

\* Publishing loses what it publishes, or leaves it pending.
LEMMA PublishSettled ==
  ASSUME IInv, Settled, NEW change \in unsent, Publish(change) PROVE Settled'
<1> DEFINE e == [kind |-> change.kind, game |-> change.game]
<1>1. /\ unsent' = unsent \ {change} /\ Deliver(e)
      /\ UNCHANGED <<rev, tracked, shown>>
      /\ \/ UNCHANGED <<pc, job, target, seen>>
         \/ /\ pc["handler"] = "idle"
            /\ pc' = [pc EXCEPT !["handler"] = "find"]
            /\ job' = [job EXCEPT !["handler"] = e]
            /\ UNCHANGED <<target, seen>>
  BY DEF Publish, store, messages, losses, workers
<1>2. e \in Event /\ e.game = change.game
  BY DEF IInv, Stored, Change, Event
<1> HIDE DEF e
<1>3. /\ behind \subseteq behind' /\ DOMAIN queue \subseteq DOMAIN queue'
      /\ \A i \in DOMAIN queue : queue'[i] = queue[i]
      /\ e.game \in behind' \/ \E i \in DOMAIN queue' : queue'[i] = e
  BY <1>1, <1>2, DeliverFacts
<1>4. /\ UNCHANGED <<target, seen>>
      /\ \A v \in Worker : v # "handler" => pc'[v] = pc[v] /\ job'[v] = job[v]
      /\ \/ pc'["handler"] = "find"
         \/ pc'["handler"] = pc["handler"] /\ job'["handler"] = job["handler"]
  BY <1>1, Roles DEF IInv, Fitting
<1>5. OwnMessages' /\ Posted'
  BY <1>1, <1>4, Roles, OwnershipKept DEF Settled, Renders
<1>6. ASSUME NEW g, g \notin behind', Pending(g) PROVE Pending(g)'
  <2>1. CASE change.game = g
    <3>1. \E i \in DOMAIN queue' : queue'[i].game = g
      BY <1>2, <1>3, <1>6, <2>1
    <3> QED BY <3>1 DEF Pending
  <2>2. CASE change.game # g
    BY <1>1, <1>3, <1>6, <2>2 DEF Pending
  <2> QED BY <2>1, <2>2
<1>7. ASSUME NEW g \in Game, g \notin behind', NEW m, m = tracked'[g], m # None,
             shown'[m] # rev'[g]
      PROVE  ComingTo(g, m)'
  <2>1. ComingTo(g, m)
    BY <1>1, <1>3, <1>7 DEF Settled, StaleMeansComing
  <2>2. CASE Pending(g)
    BY <1>6, <1>7, <2>2, PendingComes
  <2>3. CASE ~ Pending(g)
    BY <1>1, <1>4, <2>1, <2>3, Roles DEF ComingTo, Pending
  <2> QED BY <2>2, <2>3
<1>8. StaleMeansComing'
  BY <1>7, StaleFrom
<1>9. BridgeIsFresh'
  <2>1. /\ pc'["bridge"] = pc["bridge"] /\ job'["bridge"] = job["bridge"]
        /\ seen'["bridge"] = seen["bridge"]
    BY <1>4, Roles
  <2>2. SUFFICES ASSUME pc["bridge"] = "edit",
                        NEW g, g = job["bridge"].game, g \notin behind'
                 PROVE  seen["bridge"] = rev[g] \/ Pending(g)'
    BY <1>1, <2>1 DEF BridgeIsFresh, Pending
  <2>3. seen["bridge"] = rev[g] \/ Pending(g)
    BY <1>3, <2>2 DEF Settled, BridgeIsFresh
  <2> QED BY <1>6, <2>2, <2>3
<1> QED BY <1>5, <1>8, <1>9 DEF Settled

LEMMA PostSettled == ASSUME IInv, Settled, NEW g \in Game, Post(g) PROVE Settled'
<1>1. /\ pc["post"] = "idle" /\ pc' = [pc EXCEPT !["post"] = "read"]
      /\ job' = [job EXCEPT !["post"] = [kind |-> "played", game |-> g]]
      /\ UNCHANGED <<rev, unsent, queue, target, seen, tracked, shown, behind>>
  BY DEF Post, Goto, store, messages, losses
<1>2. /\ pc'["post"] = "read"
      /\ \A v \in Worker : v # "post" => pc'[v] = pc[v] /\ job'[v] = job[v]
  BY <1>1, Roles DEF IInv, Fitting
<1>3. Only("post")
  <2>1. /\ job' = [job EXCEPT !["post"] = job'["post"]]
        /\ target = [target EXCEPT !["post"] = target["post"]]
        /\ seen = [seen EXCEPT !["post"] = seen["post"]]
    BY <1>1, Roles DEF IInv, Fitting
  <2> QED BY <1>1, <1>2, <2>1 DEF Only
<1>4. OwnMessages' /\ Posted'
  BY <1>1, <1>2, Roles, OwnershipKept DEF Settled, Renders
<1> QED BY <1>1, <1>3, <1>4, BesideTheBridge

LEMMA SendSettled == ASSUME IInv, Settled, NEW m \in Message, Send(m) PROVE Settled'
<1>1. /\ pc["post"] = "send" /\ m \notin DOMAIN shown
      /\ shown' = [k \in DOMAIN shown \cup {m} |-> IF k = m THEN seen["post"] ELSE shown[k]]
      /\ target' = [target EXCEPT !["post"] = m] /\ pc' = [pc EXCEPT !["post"] = "track"]
      /\ UNCHANGED <<rev, unsent, queue, job, seen, tracked, behind>>
  BY DEF Send, Goto, store, losses
<1>2. /\ pc'["post"] = "track" /\ target'["post"] = m
      /\ \A v \in Worker : v # "post" => pc'[v] = pc[v] /\ target'[v] = target[v]
  BY <1>1, Roles DEF IInv, Fitting
<1>3. Only("post")
  <2>1. /\ job = [job EXCEPT !["post"] = job["post"]]
        /\ seen = [seen EXCEPT !["post"] = seen["post"]]
    BY Roles DEF IInv, Fitting
  <2> QED BY <1>1, <1>2, <2>1 DEF Only
<1>4. /\ DOMAIN shown' = DOMAIN shown \cup {m} /\ shown'[m] = seen["post"]
      /\ \A k \in DOMAIN shown : shown'[k] = shown[k]
  BY <1>1
<1>5. \A h \in Game : tracked[h] = None \/ tracked[h] \in DOMAIN shown
  BY DEF Settled, OwnMessages
<1>6. \A v \in Renderer : Renders(v)' => Renders(v) /\ target'[v] = target[v]
  BY <1>2, Roles DEF Renders
<1>7. OwnMessages'
  BY <1>1, <1>4, <1>5, <1>6 DEF Settled, OwnMessages
<1>8. \A v \in Renderer : Renders(v)' => target'[v] # m
  BY <1>1, <1>6 DEF Settled, OwnMessages
<1>9. Posted'
  BY <1>1, <1>2, <1>4, <1>5, <1>8, MessageAssumption DEF Posted
<1> QED BY <1>1, <1>3, <1>4, <1>5, <1>7, <1>9, BesideTheBridge

LEMMA PostFailsSettled == ASSUME IInv, Settled, PostFails PROVE Settled'
<1>1. Rest("post") /\ UNCHANGED <<rev, unsent, queue, tracked, shown, behind>>
  BY DEF PostFails, store, messages, losses
<1>2. Only("post") /\ pc'["post"] = "idle"
  BY <1>1, RestFits, Roles DEF IInv
<1>3. OwnMessages' /\ Posted'
  <2>1. \A v \in Worker : v # "post" => /\ pc'[v] = pc[v] /\ job'[v] = job[v]
                                         /\ target'[v] = target[v]
    BY <1>2, OnlyMoves, Roles DEF IInv
  <2> QED BY <1>1, <1>2, <2>1, Roles, OwnershipKept DEF Settled, Renders
<1> QED BY <1>1, <1>2, <1>3, BesideTheBridge

LEMMA TrackSettled == ASSUME IInv, Settled, Track PROVE Settled'
<1>1. /\ pc["post"] = "track" /\ Rest("post")
      /\ UNCHANGED <<rev, unsent, queue, shown>>
  BY DEF Track, store
<1>2. Only("post") /\ pc'["post"] = "idle"
  BY <1>1, RestFits, Roles DEF IInv
<1>3. \A v \in Worker : v # "post" => /\ pc'[v] = pc[v] /\ job'[v] = job[v]
                                       /\ target'[v] = target[v]
  BY <1>2, OnlyMoves, Roles DEF IInv
<1>4. \A v \in Renderer : Renders(v)' =>
        Renders(v) /\ target'[v] = target[v] /\ job'[v] = job[v]
  BY <1>3, Roles DEF Renders
<1>5. Posted'
  BY <1>2 DEF Posted
<1>6. CASE UNCHANGED <<tracked, behind>>
  <2>1. OwnMessages'
    BY <1>1, <1>2, <1>4, <1>6, OwnershipKept DEF Settled
  <2> QED BY <1>1, <1>2, <1>5, <1>6, <2>1, BesideTheBridge
<1>7. CASE /\ tracked' = [tracked EXCEPT ![job["post"].game] = target["post"]]
           /\ behind \subseteq behind'
           /\ LeavesOutdated("post", target["post"]) => job["post"].game \in behind'
  <2>1. /\ target["post"] \in DOMAIN shown /\ shown[target["post"]] = seen["post"]
        /\ \A h \in Game : tracked[h] # target["post"]
        /\ \A w \in Renderer : Renders(w) => target[w] # target["post"]
    BY <1>1 DEF Settled, Posted
  <2>2. /\ job["post"].game \in Game /\ tracked'[job["post"].game] = target["post"]
        /\ \A h \in Game : h # job["post"].game => tracked'[h] = tracked[h]
    BY <1>1, <1>7, Roles, BusyFacts, SentFacts
  <2>3. OwnMessages'
    <3>1. \A g \in Game : tracked'[g] # None => tracked'[g] \in DOMAIN shown
      BY <2>1, <2>2 DEF Settled, OwnMessages
    <3>2. \A g, h \in Game : tracked'[g] = tracked'[h] /\ tracked'[g] # None => g = h
      BY <2>1, <2>2 DEF Settled, OwnMessages
    <3>3. ASSUME NEW w \in Renderer, Renders(w)'
          PROVE  /\ target'[w] \in DOMAIN shown
                 /\ \A h \in Game : tracked'[h] = target'[w] => h = job'[w].game
      BY <1>4, <2>1, <2>2, <3>3 DEF Settled, OwnMessages
    <3> QED BY <1>1, <3>1, <3>2, <3>3 DEF OwnMessages
  <2>4. ASSUME NEW g \in Game, g \notin behind', g = job["post"].game
        PROVE  shown'[tracked'[g]] = rev[g] \/ ComingTo(g, tracked'[g])
    BY <1>1, <1>7, <2>1, <2>2, <2>4 DEF LeavesOutdated
  <2> QED BY <1>1, <1>2, <1>5, <1>7, <2>2, <2>3, <2>4, BesideTheBridge
<1> QED BY <1>6, <1>7 DEF Track, Behind

LEMMA RestartSettled == ASSUME IInv, Settled, RestartProcess PROVE Settled'
<1>1. /\ behind' = behind \cup
                     {e.game : e \in unsent \cup ToSet(queue) \cup
                        (IF pc["bridge"] \in {"idle", "say"} THEN {} ELSE {job["bridge"]})}
      /\ pc' = [w \in Worker |-> "idle"]
      /\ UNCHANGED <<rev, tracked, shown>>
  BY DEF RestartProcess, Behind, store, messages, losses
<1>2. \A w \in Worker : pc'[w] = "idle"
  BY <1>1
<1>3. OwnMessages' /\ Posted'
  BY <1>1, <1>2, Roles, OwnershipKept DEF Settled, Renders
<1>4. ASSUME NEW g \in Game, g \notin behind', NEW m, m = tracked'[g], m # None,
             shown'[m] # rev'[g]
      PROVE  FALSE
  <2>1. ComingTo(g, m)
    BY <1>1, <1>4 DEF Settled, StaleMeansComing
  <2>2. ~ Pending(g)
    BY <1>1, <1>4 DEF Pending, ToSet
  <2>3. job["bridge"].game = g /\ pc["bridge"] \notin {"idle", "say"}
    BY <2>1, <2>2, PendingComes
  <2> QED BY <1>1, <1>4, <2>3, Roles
<1>5. StaleMeansComing'
  BY <1>4, StaleFrom
<1>6. BridgeIsFresh'
  BY <1>2, Roles DEF BridgeIsFresh
<1> QED BY <1>3, <1>5, <1>6 DEF Settled

\* No message, no rendering.
LEMMA InitSettled == Init => Settled
<1> SUFFICES ASSUME Init PROVE Settled
  OBVIOUS
<1>1. \A g \in Game : tracked[g] = None
  BY DEF Init
<1>2. \A w \in Worker : pc[w] = "idle"
  BY DEF Init
<1>3. OwnMessages
  BY <1>1, <1>2, Roles DEF OwnMessages, Renders
<1>4. Posted /\ BridgeIsFresh
  BY <1>2, Roles DEF Posted, BridgeIsFresh
<1>5. StaleMeansComing
  BY <1>1 DEF StaleMeansComing
<1> QED BY <1>3, <1>4, <1>5 DEF Settled

\* Every step keeps what is said of messages.
LEMMA NextSettled == IInv /\ Settled /\ [Next]_vars => Settled'
<1> SUFFICES ASSUME IInv, Settled, [Next]_vars PROVE Settled'
  OBVIOUS
<1>1. CASE Requests
  BY <1>1, PlaySettled, AskAgainSettled DEF Requests
<1>2. CASE \E change \in unsent : Publish(change)
  BY <1>2, PublishSettled
<1>3. CASE Bridge \/ Refresh("handler")
  <2>1. "bridge" \in Renderer /\ "handler" \in Renderer
    BY DEF Renderer
  <2> QED BY <1>3, <2>1, Roles, TakeSettled, SaySettled, FindSettled, ReadSettled,
             EditSettled, RefreshFailsSettled DEF Bridge, Refresh
<1>4. CASE \/ \E g \in Game : Post(g)
           \/ Read("post") \/ (\E m \in Message : Send(m)) \/ PostFails \/ Track
  BY <1>4, Roles, PostSettled, ReadSettled, SendSettled, PostFailsSettled, TrackSettled
<1>5. CASE RestartProcess
  BY <1>5, RestartSettled
<1>6. CASE UNCHANGED vars
  BY <1>6 DEF vars, store, workers, messages, losses, Settled, OwnMessages, Posted, Renders,
              BridgeIsFresh, Pending, StaleMeansComing, ComingTo
<1> QED BY <1>1, <1>2, <1>3, <1>4, <1>5, <1>6 DEF Next

(* A status message that does not show the last change of its game is      *)
(* about to be re-rendered by the bridge, which reads after the event,     *)
(* whatever the order in which the bridge, a command handler and a post    *)
(* read the database and write to Discord; a loss leaves it behind no      *)
(* longer than until the bridge takes the game's next event.               *)
THEOREM StaleIsRepaired == Spec => []StaleMeansComing
<1>1. Init => IInv /\ Settled
  BY InitIInv, InitSettled
<1>2. (IInv /\ Settled) /\ [Next]_vars => (IInv /\ Settled)'
  BY NextIInv, NextSettled
<1>3. IInv /\ Settled => StaleMeansComing
  BY DEF Settled
<1> QED BY <1>1, <1>2, <1>3, PTL DEF Spec
=============================================================================
