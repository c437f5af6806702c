----------------------------- MODULE BingoRound ----------------------------
(***************************************************************************)
(* What the store promises of a game, without pools, cards or cells: a     *)
(* round is opened once, players come and go from being ready to call      *)
(* while it is open, and it closes once, aborted or won by a player who is *)
(* ready at that moment.  After that nothing about it changes.             *)
(***************************************************************************)
CONSTANTS Round, Player, Nobody

VARIABLES
  phase,    \* round -> "none", "open", "finished" or "aborted"
  ready,    \* round -> players whose card shows a completed line
  winner    \* round -> who won it

rounds == <<phase, ready, winner>>

Init ==
  /\ phase  = [r \in Round |-> "none"]
  /\ ready  = [r \in Round |-> {}]
  /\ winner = [r \in Round |-> Nobody]

Same(r) == phase'[r] = phase[r] /\ ready'[r] = ready[r] /\ winner'[r] = winner[r]

Open(r) ==
  /\ phase[r] = "none" /\ phase'[r] = "open"
  /\ ready'[r] = ready[r] /\ winner'[r] = winner[r]

\* A mark set or cleared makes one player ready, or not ready any more.
Play(r) ==
  /\ phase[r] = "open" /\ phase'[r] = "open"
  /\ \E p \in Player :
       ready'[r] = ready[r] \cup {p} \/ ready'[r] = ready[r] \ {p}
  /\ winner'[r] = winner[r]

Finish(r) ==
  /\ phase[r] = "open" /\ phase'[r] = "finished"
  /\ winner'[r] \in ready[r]
  /\ ready'[r] = ready[r]

Abort(r) ==
  /\ phase[r] = "open" /\ phase'[r] = "aborted"
  /\ ready'[r] = ready[r] /\ winner'[r] = winner[r]

\* Rounds do not disturb each other: opening one may abort another (replace),
\* but play and calls touch one round at a time.
Next ==
  \/ \A r \in Round : Open(r) \/ Abort(r) \/ Same(r)
  \/ \E r \in Round : /\ Play(r) \/ Finish(r)
                      /\ \A q \in Round \ {r} : Same(q)

Spec == Init /\ [][Next]_rounds
=============================================================================
