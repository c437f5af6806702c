# A TLA+ model of gw2-raid-bingo

gw2-raid-bingo is one Go process: a Discord bot and a web server over one SQLite
database. Admins of a Discord server (a *guild*) fill *pools* with squares and
open *games* over sets of pools; players are dealt a 5 x 5 card with a free
centre, mark cells in Discord or in the browser, and the first to call a
completed line wins. This directory holds the specifications of its core, the
TLC configurations that check them and the proofs TLAPS checks.

    tlc -config GameStorePlay.cfg MCGameStore.tla     # any run of section 4
    tlapm GameStoreProofs.tla                         # any module named ...Proofs

`PROJECT.json` is the index: components, runs, mutants, the source lines behind
every definition (`map`), the findings, the hazards and the theorems.

## 1. Inventory of the system

| component | state | operations | hard behaviour | what makes it correct |
|---|---|---|---|---|
| Bingo rules (`internal/bingo`) | none | completed lines, has bingo, best progress, deal a layout | indices and the free centre at the boundary; `app.js` has its own copy | all summaries agree, browser = server |
| Pool store (`store/pools.go`) | `pools`, `entries` | create, delete, add, edit, soft-delete, clear, list | row ids are reused after a delete; clear is two statements; quotas counted before inserting | entries follow their pool and its guild, quotas hold |
| Game store (`store/games.go`) | `games`, `cards`, `card_cells` | new game (with replace), abort, deal, toggle, call bingo, lists | concurrent calls from bot, web and scheduler; one database connection; the deal's look-up outside its transaction | one open game per pool set, one card per player, a winner holds a line, history is read-only |
| Schedule store (`store/scheduled.go`) | `scheduled_games` | schedule, list, cancel, claim due, mark skipped, put back | cancels against claims | final outcomes stay |
| Schedule runner (`service/scheduled.go`, `discord/schedule.go`) | the claimed list in memory | claim, open, skip, retry | a crash or stop between claim and opening, failing statements, retries | at most one game per schedule, never early, due ones are claimed |
| Schedule times (`internal/when`) | none; the time of an offered select | parse durations and dates, validate | 64-bit products and sums; a select used long after it was shown | horizon respected, a duration is the one typed |
| Service rules (`service`) | none | authorization, store call, publish | check before act; publish after commit, and only if the read in between succeeds | what is published is true |
| Event hub (`internal/events`) | subscriber buffers (64 for the bridge, 16 per page) | subscribe, close, publish | full buffers drop events | losses are repaired by a later read |
| Event bridge and status messages (`discord/status.go`, `celebrate.go`, `store/messages.go`) | tracked message per game | refresh, announce, post | several writers of one message; Discord fails or is slow; restart | messages settle on the last change, announcements once |
| Live board in the browser (`web/static/app.js`) | the page's copy of the board | open, fetch, subscribe, optimistic toggle | reordered answers, lost events, a click that fails late | the page converges to the store |
| Role cache and authorization (`discord/resolver.go`, `authz`, `setup.go`) | two caches with TTLs | resolve, invalidate, decide | a look-up racing an invalidation or a revocation | old standings stop counting within the TTLs |
| Guild settings (`store/guilds.go`) | `guilds`, `admin_roles` | ensure with default pools, set roles and channel | ensured on every interaction | deleted default pools stay deleted |
| Guild data, seed and import (`store/seed.go`, `service/data.go`, `discord/data_cmds.go`) | what is left of a file | seed, import, export | many statements; a crash, a deadline or an edit between any two | complete when undisturbed, never repeated |
| Discord interactions (`discord/*.go`) | none | commands, buttons, selects; 30 s context each | deadline while waiting for the database | every interaction is answered |
| Web API (`web`) | stream slots per user | REST calls, SSE | disconnects; requests in flight together | slots are returned |
| Web sessions (`store/sessions.go`, `web/auth.go`) | `sessions` | login, look up, log out, purge | expiry | - |
| Database opening and migrations | the schema | open, migrate | - | - |
| Process (`cmd`) | - | start, stop, crash | what was in memory is lost | - |
| Configuration; formatting and command tables | none | pure output | - | - |

Interactions: bot and web handlers call the *service*, the service calls the
*store* and, after the commit, publishes on the *hub*; the hub feeds the bot's
bridge (one goroutine, buffer of 64) and the pages' streams. The bridge reads
the store again and writes to Discord. The scheduler goroutine claims rows from
the store and calls the service like an admin. Shared state is the database -
opened with `SetMaxOpenConns(1)`, so a transaction excludes every other
statement and is one atomic step; a method of several statements is several
steps, and a method that asks for a second connection while it holds the first
waits for itself.

## 2. Plan

Order of work, most important behaviour first:

1. *(done)* `Board`, `GameStore`, `BingoRound` - what a game is; `DealRequests` -
   the connection under it; `Scheduler`; `StatusMessage`.
2. *(done)* `Access`: look-ups racing `/setup`'s invalidation and changes in Discord.
3. *(done)* `GuildData`: seeding, import and export as many statements, with a
   crash between any two and admins who edit meanwhile.
4. *(done)* `LiveBoard`: streams, board fetches out of order, optimistic toggles,
   the stream slots of a user.
5. *(done)* `When`: durations in machine words against unbounded integers.
6. *(done)* Proofs about each of them, up to every invariant and every action
   property a passing run checks.
7. Composition: `GameStore` under `Scheduler` (its `open` and `fillable` become
   the store's tables) and under `StatusMessage` (its `rev` becomes the game's
   history).

What is left is the composition (item 7), with the theorem that each part of it
still implements what it promises alone, so that the invariants proved of the
parts carry over.

## 3. Modules

| module | models | code |
|---|---|---|
| `Board` | lines, free centre, progress, bingo; the browser's check | `bingo/lines.go`, `card.go`, `app.js` |
| `BoardWalk` | one card toggled cell by cell (`Walk`) | `games.go` ToggleCell |
| `GameStore` | the tables and every transaction of pools, entries, games, cards | `store/pools.go`, `store/games.go` |
| `BingoRound` | abstract: what a game promises | - |
| `DealRequests` | concurrent `GetOrDealCard` calls on one connection | `games.go` 304-378 |
| `Scheduler` | scheduled games, the loop, the process around it | `scheduled.go` (store, service), `discord/schedule.go`, `main.go` |
| `When` | the time of a schedule, from the command to the row | `internal/when`, `discord/schedule.go` |
| `StatusMessage` | commit, publish, buffer, bridge, tracked message, announcements | `events.go`, `status.go`, `handlers.go`, `components.go`, `messages.go` |
| `Access` | both caches, slow look-ups, `/setup`, the three checks | `resolver.go`, `authz`, `service.go`, `setup.go`, `guilds.go` |
| `GuildData` | default pools, seed file, import, export, single edits | `seed.go`, `guilds.go`, `pools.go`, `service/data.go`, `data_cmds.go`, `main.go` |
| `LiveBoard` | one page, its stream, its requests, the slots | `app.js`, `sse.go`, `api.go`, `server.go`, `events.go` |
| `MCGameStore`, `MCAccess`, `MCGuildData` | symmetry sets and files for TLC | - |
| `GameStoreProofs`, `DealRequestsProofs`, `SchedulerProofs`, `WhenProofs`, `StatusMessageProofs`, `AccessProofs`, `LiveBoardProofs`, `GuildDataProofs` | TLAPS proofs about the module of that name; `GameStoreProofs` also about `Board` and `BoardWalk` | - |

Operators labelled "Mutant:" are not part of a model. Each is a plausible bug;
put in the place of the definition it accompanies, it makes one of the
properties fail, which shows that the property depends on that code.

**GameStore.** Variables `pools`, `entries`, `games`, `cards` are the tables, as
functions from row ids to rows; `clearing` holds the calls of `ClearPoolEntries`
that have checked the pool's owner and not yet run their `UPDATE`. Actions have
the names of the Go methods. Only active entries are kept (`active = 0` rows are
never read for play); `nr` stands for the entry's row id, so that equal texts
remain two rows. `poolSet` stands for both `pool_ids` and its canonical
`pool_set_key`. The layout of a card is left out: the model records which texts
it holds, which pools they came from, and which cells are marked. `IsNextRowId`
is SQLite's rule for an `INTEGER PRIMARY KEY` without `AUTOINCREMENT`. Calls
refused with an error change nothing and are not steps.

**DealRequests.** One game; each request is a goroutine between two uses of the
connection. A transaction that ends by itself is one step; the one that does not
(`DealConflicts`: the code reads through the pool while its own transaction is
open) keeps `conn`. A deal is refused when the game is closed or its pools,
which others edit meanwhile (`fillable`), have too few squares left. `Timeout`
is the end of the request's context.

**Scheduler.** `rows` is the table, `claimed` the list the loop holds between
`ClaimDueScheduled` and the last of its openings, `step` the statement it is at;
any statement may fail, and all fail once the context is cancelled. `open` and
`fillable` are what a schedule's outcome depends on in the rest of the store and
change at any moment. Time is counted in retry backoffs. One guild.

**When.** `offer` is the select `/bingo schedule` shows, whose custom id carries
the fire time; `row` is what the select writes, used at once, late, twice or
never. Durations are words of `2 * HalfWord` values: `Wrap` is Go's arithmetic on
them, `Sub` is `time.Time.Sub`, which saturates instead. A text is what the
parser makes of it: a count of days, the rest, or a date. The second the unix
time drops is kept as a division.

**StatusMessage.** `unsent` is the window between commit and `Publish`, `queue`
the bridge's channel, and `pc`/`job`/`target`/`seen` the locals of the three
writers: the bridge, a command handler that renders after opening or aborting,
and `/bingo post`. What a message shows is the number of changes (`rev`) it was
rendered after. The two queries of a rendering count as of the first, the older.
A toggle, a deal or a call may lose its event before it is published
(`Unanswered`): the store reads the card or the game again after its commit, in
the context of the request, and the service publishes only if that succeeds. The
end of a replaced game is never published (`Replace`).

Two history variables say what was lost, at the step that loses it. `untold`
holds the announcements whose event or sending was lost: nothing repeats them.
`behind` holds the games that lost an event or a rendering and of which the
bridge has taken no event since: `Take` removes the game, as the rendering that
follows makes any earlier loss good. A handler's edit or a post counts as a loss
only where it leaves an outdated message with nothing on the way to repair it.
So the invariants cover all that comes after a loss, too.

**Access.** `guild` and `roles` are what Discord would answer now; `guildCache`
and `memberCache` are the resolver's; `configured` is `admin_roles`; `req`
holds, for each call of the service, the local variables of `Resolve` at the
point it waits. Looking for the member (`Begin`) and for the guild (`FindGuild`,
with a clock of its own) are two accesses to two caches. Each access to a cache
is one step because it is made under its lock. A look-up writes what it was told
whatever happened meanwhile, with an expiry counted from its start. `ownedAt`,
`heldAt` and `grantedAt` are history: when something that Discord no longer says
was last true. Strangers have no role; `Everyone` is the role every member holds
without its being listed.

**GuildData.** One guild. `pools` maps ids to a slug and the squares in order;
`known` is the settings row `EnsureGuild` inserts together with the default
pools. `process` is down, seeding (nobody is served) or up; `seeding` and
`imports[i]` are the loop variables of `ApplySeed` and `importInto`: the keys of
the file left to do, the pool in hand, its rows left to add. Go's maps have no
order, so any next key may come, shared pools after instance ones. The default
pools a guild does not have get the next free ids one after another
(`DefaultRowId`). `CleanSlug` is `cleanSlug`: `GetPool` compares a name as it is
spelled, `CreatePool` cleans it. `export` is the list of pools and what has been
read of it. History: `seeded` (the file the current start has applied), `torn`
(slugs whose filling was cut short), `touched` (slugs another writer has
changed), `gone` (slugs of deleted pools nobody has named since), `since` (the
data as a command found them, while nobody else has written). What bulk
operations leave behind is stated by places: a row that is a text ends up behind
the squares that were there, at the place `Kept` counts (`Filled` for seeding,
`Grown` for an import with its cap). The two buckets of a file may name the same
pool; its instance rows come first (`RowsFor`). Of the rows that are refused,
seeding skips blank ones; an over-long one ends the start's seeding
(`SeedFails`), while an import skips both. A file in which one bucket names a
pool twice in different spellings has no order of its own, and completeness is
claimed only for the others (`Unambiguous`).

**LiveBoard.** The store of a game is the number of its changes, the player's
mark in one cell, and whether it is open; `unsent` as above. `conn` holds the
handlers of `handleEvents` with their buffers, `attached` as long as the page
listens; `slots` is `sseCount`, taken before the game's id and the writer are
checked (`Acquire`) and given back where that fails (`TurnAway`). `gameId`,
`board`, `view` and `es` are the page's `state`, what it shows and its
`EventSource`, which reconnects when a connection breaks and gives up when it is
refused. `fetch` and `click` are requests on their way, answered in any order. A
board answer lacks the player's card when `GetUserCard` fails (`ReadBoard`; the
answer is 200 all the same), and a change, the player's click included, may be
committed and never published (`Unannounced`). Four simplifications: writing an
event and the page's reaction to it are one step (`Receive`); the answer to a
successful toggle changes nothing on the page and is left out; leaving the game
also forgets its id, which no other view reads; the answers of the other views'
requests are left out.

`blind` is history: something the page needed was really lost or arrived out of
place, recorded at the step that does it. Every event that reaches the page
clears it, and so does an answer with the store's present board: what is claimed
of the page holds again from the first event after a loss. The losses are a change
that is never published; an event published while the page has no subscribed
stream, or lost with a stream that breaks; an answer that fails, lacks the card,
or is of another game or older than the board it replaces; and the revert of a
click where the cell has been clicked again. An event dropped because the buffer
of a live stream is full, answers that overtake each other and end with the newest,
and clicks under way are none.

## 4. Runs

Passing runs:

| run | question | bounds and why they are enough |
|---|---|---|
| `BoardWalk` | do the summaries agree, does the browser's copy of the check agree, what is the free centre worth, what does one click do | the real 5 x 5 board, up to 5 marks: any line can be completed, the free ones with one to spare |
| `GameStorePlay` | play: a winner holds a line, one open game per set, one card per player, frozen history, refinement of `BingoRound` | 1 guild, 2 players, 2 games, 4 cards: two games over one set (replace), two players per game, calls against toggles. `Size = 2` is a stand-in board (3 squares, lines of two cells) so that a line takes one mark; indices 2 and 4 are the centre and out of range |
| `GameStorePools` | do ids given out again leak squares across guilds | 2 guilds, 2 pool ids, 2 games, 1 card: delete and re-create under an open game and under a half-done clear |
| `DealRequests` | races for a card, the stuck connection, an answer for all | 3 requests of 2 players: two race for one card, the third waits behind them |
| `Scheduler` | one game per schedule, never early, final outcomes; is a due schedule claimed in the end | 3 schedules, 2 of them pending at a time, batch of 2, 1 failing statement, 1 stop or crash: a claimed list with a remainder, a failure in its middle, a retry that is claimed again |
| `When` | do times that wrap, saturate or are used late stay within the horizon; is a duration the one typed | words of 32 values, `Day = 3`, `Second = 2`, `Horizon = 6`: the product wraps to any value, the sum to a negative one, dates lie beyond a duration's reach, a day is no multiple of the word and a unix second drops half of its time |
| `StatusMessage` | announcements are true, once, and not skipped; stale means a refresh is coming; messages settle | 1 game, 2 messages (a post replaces a message under a running edit), 2 changes in flight published in any order, buffer 1 (for 64; drops happen), 1 failure or restart (a read that fails between commit and publishing among them); `CurrentInTheEnd` under the fairness of section 5 |
| `Access` | how old may the grounds be on which a check says yes | 1 user, 1 role beside the implied one, 2 calls at a time (a slow look-up against a check or `/setup`), TTLs of 2 (guild) and 1 (member), 4 instants: an owner or a role's Administrator lost at 0 is forgotten before 3, when both caches together can no longer vouch for it; 1 change in Discord; the sweep runs at every write (`SweepAbove = 0` for 4096) |
| `GuildData` | does seeding repeat or tear, do quotas hold, do deleted pools stay away, are imports and exports complete | 1 default pool, 3 seed files (one fills it twice and spells the other slug oddly, one has too many rows, one an over-long row), 2 import files (over-long row, odd spelling), 2 commands that may overlap, 1 edit, 1 crash, 2 pools, 3 squares per pool: every cap is reached |
| `LiveBoard` | is what the page shows true or about to be replaced; are slots returned; does the page catch up | 2 games (change of game under a request), 2 handlers for 1 slot (a lingering one makes the next refused), 2 fetches (overtaking), 1 click at a time and in all, 1 change by others, published or not, 1 fault (a failing request, an answer without the card, a broken connection, a slot given back at once) |

`TypeOK` is checked in the runs of `GameStore`, `Access` and `GuildData` and
proved for all modules with a proof module (section 6; for `When` inside its
invariant).

`CHECK_DEADLOCK FALSE` stands where the system may stop: stores, handlers and
pages move only when called, and the bounds on rows, time and changes end a
behaviour. Symmetry is used for guilds, users and squares in the runs of
`GameStore`, for requests in `Access` and imports in `GuildData`, none of which
checks liveness; in `LiveBoard` a new request takes the first free place instead.

Violated on purpose - the code against a sentence of its own comments;
`PROJECT.json` quotes each under `findings`:

| run | property | what happens |
|---|---|---|
| `DealRequestsRace` | `RaceLoserGetsTheCard` | the loser of a deal race waits for the connection it holds, everything else behind it, until its context ends |
| `SchedulerDropped` | `NeverDropped` | cancel the context between claim and opening: the requeue fails too, the schedule is lost |

Disagreements between the code and its words that have no run of their own. The
models contain these behaviours, and where a property would fail for them it says
so (`untold`, `behind`, `blind`, "if its days fit"):

- games.go:330 expects a deleted pool of an open game to contribute nothing; once
  its id is given to another pool of the guild, that pool's squares are dealt.
- `/bingo post` (docs/02-discord-bot.md:15, "updates as the game changes"): a
  change between rendering and tracking is shown only with the next one.
- docs/01-architecture.md:43, "every state change is published once": the abort of
  a replaced game is not. Nor is a toggle, a deal or a call whose card or game
  cannot be read again after the commit (games.go:426-429, 377, 476-479): the
  service publishes only when the store returned no error (service.go:150-154,
  177-181, 187-191). A win lost that way is never announced, the status message
  and the pages show the change with the game's next event.
- app.js:373-375 says that the event a write produces reconciles the page; a
  write whose card cannot be read again produces none.
- A board whose card cannot be read is answered without one (api.go:166-171), and
  the page tells a player who has joined that they have not.
- An opening published into the bridge's full buffer (events.go:128) is not
  announced, against status.go:156.
- sse.go:11-13, events.go:113 and docs/03-website.md:37-38 say that pages fetch
  the board on reconnect; `app.js` fetches on events only, so what was lost with
  a stream shows at the next event.
- when_test.go:76 expects a duration beyond the horizon to be refused; days are
  multiplied in 64 bits, so that `213504d` is accepted as some 25 minutes.
- card.go:45 promises that overlapping pools do not place a square twice; rows are
  told apart by id (card.go:90), so equal texts can appear twice.
- The cap of scheduled.go:17 is checked on creation only and can be exceeded by
  the retries of one claim.
- A select of a schedule is not validated again when used: a past time fires at the
  next tick.
- A seed file that spells a slug otherwise than `cleanSlug` fails at every start
  but the first, at that pool, and leaves out what comes after it; the process
  starts all the same.
- Rows an import refuses because its context has ended are reported as skipped,
  like blank ones.
- A clear button carries an id that may be another pool's by the time it is pressed.

## 5. Fairness

- `DealRequests`: weak fairness of each request's steps (goroutines run on) and
  of `Timeout`: the bot gives every interaction a context of 30 s, a web
  client's context ends when it goes away. Without the latter, the loser of a
  race would hold the database for ever.
- `Scheduler`: weak fairness of the claim (the ticker), of the loop's work, of
  exiting after a stop, of the restart (the deployment runs the process as a
  service that is restarted) and of time. Nothing is assumed of admins.
- `StatusMessage`: weak fairness of publishing (it does not block) and of the
  bridge's goroutine. Nothing is assumed of players, admins or handlers, and
  Discord calls may fail.
- `LiveBoard`: weak fairness of publishing, of each handler with its connection
  and of each request and its answer. Nobody has to open, leave, click or play,
  and nothing has to fail. `StreamsEnd` is `[]<>` and `CatchesUp` is `<>[]`: a
  page that is always moved on is never settled, which the bounds on what others
  and the player do exclude.
- `GameStore`, `Board`, `When`, `Access` and `GuildData` have no liveness: nothing
  has to happen there unless someone acts.

## 6. Proofs

Eight modules prove, for every value of the constants, what the runs check on
small instances. The only assumptions are the named `ASSUME`s of the modules:
ranges of the constants, values that differ from one another, finite sets
where something is counted (`User` in `DealRequests`, `Conn` and `Click` in
`LiveBoard`, the keys of a file in `GuildData`), and default pools that differ
from one another (`GuildData`).
TLC evaluates each of them.

| module | theorem | statement |
|---|---|---|
| `GameStoreProofs` | `TypeCorrect` | `Spec => []TypeOK` |
| | `WinnerAlwaysHoldsALine` | `Spec => []WinnerHoldsALine` |
| | `OneOpenGamePerSetAlways` | `Spec => []OneOpenGamePerSet` |
| | `OneCardPerPlayerAlways` | `Spec => []OneCardPerPlayer` |
| | `GuildsAreIsolated` | `Spec => []GuildIsolation` |
| | `HistoryIsReadOnly` | `Spec => ClosedGamesAreFrozen` |
| | `StoreImplementsRounds` | `Spec => KeepsThePromise` |
| | `EveryCardAddsUp` | on every card of `Spec`, a call is allowed exactly if a line is complete, exactly if the best line is full, and takes `Size - 1` marks |
| | `SummariesAlwaysAgree` | `Walk => []SummariesAgree` |
| | `FreeCentreIsOneCell` | `Walk => []FreeCentreSavesOneCell` |
| | `BrowserAgrees` | `Size = 5 => (Walk => []ClientMirrorsServer)` |
| | `OneClickMovesOneStep` | `Walk => OneClickOneStep` |
| `DealRequestsProofs` | `TypeCorrect` | `Spec => []TypeOK` |
| | `AlwaysTheSameCard` | `Spec => []SameCardEveryTime` |
| | `OnlyLosersKeepIt` | `Spec => []OnlyLosersKeepTheConnection` |
| | `FreeWithoutARace` | `Spec => [](OneRequestEach => conn = NoOne)` |
| `SchedulerProofs` | `TypeCorrect` | `Spec => []TypeOK` |
| | `OneGameEach` | `Spec => []OneGamePerSchedule` |
| | `ClaimedStayFired` | `Spec => []ClaimedRowsAreFired` |
| | `NothingOpensEarly` | `Spec => NeverEarly` |
| | `OutcomesStay` | `Spec => OutcomesAreFinal` |
| | `CapHoldsButForOneBatch` | `Spec => []CapExceededByOneBatch` |
| `WhenProofs` | `AlwaysWithinHorizon` | `Spec => []WithinHorizon` |
| | `DurationsMeanWhatTheySay` | `Spec => []MeansWhatItSays` |
| `StatusMessageProofs` | `TypeCorrect` | `Spec => []TypeOK` |
| | `NothingToldTwice` | `Spec => []AnnouncedOnceAndTruly` |
| | `NothingForgotten` | `Spec => []ToldOrComing` |
| | `StaleIsRepaired` | `Spec => []StaleMeansComing` |
| `AccessProofs` | `TypeCorrect` | `Spec => []TypeOK` |
| | `CacheAlwaysRecent` | `Spec => []CacheIsRecent` |
| | `NobodyOnOldGrounds` | `Spec => AllowedOnRecentGrounds` |
| `LiveBoardProofs` | `TypeCorrect` | `Spec => []TypeOK` |
| | `NoSlotIsLost` | `Spec => []SlotsAreStreams` |
| | `ShowsTheTruth` | `Spec => []ShownIsTrueOrComing` |
| `GuildDataProofs` | `TypeCorrect` | `Spec => []TypeOK` |
| | `QuotasAreKept` | `Spec => []QuotasHold` |
| | `NothingDeletedReturns` | `Spec => []DeletedPoolsStayDeleted` |
| | `NothingIsSeededTwice` | `Spec => []SeedNeverRepeats` |
| | `SeedingIsWhole` | `Spec => []SeededPoolsAreWhole` |
| | `ImportingIsComplete` | `Spec => []ImportsAreComplete` |
| | `ExportingIsFaithful` | `Spec => []ExportsRestore` |

**GameStore.** `TypeOK` alone is not inductive: dealing copies `pools[e.pool]`
for the entries drawn, which has a type only if those pools exist;
`Typed == TypeOK /\ EntriesFollowTheirPool` is. On top of it the inductive
invariant

    IInv == Typed /\ OneCardPerPlayer /\ WinnerHoldsALine
              /\ OneOpenGamePerSet /\ CardsStayHome

has one lemma per conjunct: a win records a card of that very game because cards
stay in their game and guild (`OneCardPerPlayer`), and it keeps its line because
only open games' cards are toggled. `GuildIsolation` survives the reuse of pool
ids because usable entries are filtered by guild and the foreign key takes
entries along with their pool. The action property and the refinement use `IInv`
in the state before each step; the refinement maps a store step to a step of
`BingoRound` (an opening may abort a second round in the same step) or to a
stutter.

**Board.** The theorems hold for boards of any size, but for the browser's check,
whose twelve lines are written out and belong to the board of the code. The
cells of a line are evenly spaced, so a line has `Size` cells; a cell is in one row
and one column (quotient and remainder of its index), and the diagonals meet
nowhere but in the centre. Marking a cell therefore adds one to any line it is
on and completes three at most: only the centre is on both diagonals, and it
counts before it is marked. The same counting gives `EveryCardAddsUp` for the
cards of `GameStore`, whose marks are cells by its type invariant.

**DealRequests.** `IInv == TypeOK /\ OnlyLosersKeepTheConnection /\
DealtBeforeReread /\ SameCardEveryTime`. Cards are only ever added, so an answer
stays true; a request that reads the card again has dealt it, so it finds one.
`FreeWithoutARace` needs one more invariant, `Alone`: where every player has one
request, nobody has a card before their own request has dealt it, so that no deal
meets a card and none keeps the connection.

**Scheduler.** `IInv == TypeOK /\ ClaimedRowsAreFired /\ ClaimedRowsWait /\
OneGamePerSchedule`. `ClaimedRowsWait` is the strengthening: a row in the
claimed list has opened nothing yet and its time has come, so that opening it is
its first game and not early. That a row is claimed at most once at a time is
part of `ClaimedRowsAreFired`, and survives because only pending rows are claimed
and only rows taken off the list go back to pending.

`CapHoldsButForOneBatch` bounds how far retries exceed the cap on pending
schedules: a creation leaves at most `MaxPending` rows pending beside a claimed
list of at most `Limit`, and claiming and putting back only move rows between
the two, so that together they never exceed `MaxPending + Limit`. No run checks
it: with the three rows of `Scheduler.cfg` it cannot fail, and a table large
enough for a wrong retry to show does not fit the run's time.

**When.** `IInv == TypeOK /\ WithinHorizon /\ MeansWhatItSays /\ OfferSeconds`.
The arithmetic lemmas say what `Wrap` does: a sum of two words that overflows
upwards is negative, so the check for a positive duration refuses it; a distance
that saturates exceeds the horizon, so `validateFuture` refuses it.

**StatusMessage.** `IInv == Stored /\ Fitting /\ Sent /\ News`. `News` follows
each announcement from its commit to the channel: it is in at most one of four
places - committed and unpublished, in the buffer, in the bridge's hands, told -
at most once there, and true of its game wherever it is; unless it is `untold`, it
is in one of them. Each action moves it to the next place or loses it.

On top of it `Settled == OwnMessages /\ Posted /\ BridgeIsFresh /\
StaleMeansComing`: a message belongs to one game, whoever has it in hand; a
message sent and not yet tracked is known to the post alone; what the bridge is
about to write is the game as it is, or the game is pending once more. Without
`BridgeIsFresh` the bridge's own write could turn a message stale with nothing
left to repair it. A step that commits a change makes the game pending or leaves
it behind; `Take` ends what was left behind, since the rendering it begins is
`ComingTo` the message; a step that takes news off the way writes what it read or
records the loss.

**Access.** `IInv == TypeOK /\ Ordered /\ CachesHold /\ CallsHold`. What a cache
entry or a call in progress holds was true in Discord at some time since it
began: "last held at or after t" is a fact that later changes only strengthen
(`LastHeld` never decreases), so slow writes over newer entries do no harm, and
an entry that still counts began less than a TTL ago. A guild looked up late
counts from its own look-up (`asked`, never before the call's start). A member's
standing built on a cached guild is as old as both TTLs together.

**LiveBoard.** `IInv == Stored /\ Streaming /\ Paged /\ Asking /\ Linked /\
Bounded`. `Streaming` counts: the slot counter is the cardinality of the live
handlers, and every action adds one to both, takes one from both or leaves both.
`Linked` says that requests are about games, which the types alone do not.

On top of it `Truthful == OneStream /\ Snapshots /\ Placed /\ InTheKnow`
follows the last change of the page's game: unless the page is blind to it, the
change is unpublished (`Hears`), in the buffer of the page's stream (`Told`), about
to be asked for (`Asks`), in an answer on its way (`Gets`, where an answer without
the card counts, too: drawing it blinds the page), or drawn (`Has`), with the
clicks of the player on top of it. Each action hands it
on to the next place. For that, the page has one stream at most (`OneStream`),
and an answer is a board its game has had, the present one where no change has
come since (`Snapshots`). Clicks that show alternate the mark, so they are
counted by what they go back to: `Balanced` says that taking back all of them, in
any order in which each still undoes something, ends at the store's mark; without
clicks it says that the board's mark is the store's.

**GuildData.** `IInv == PoolsInv /\ Control /\ Seeds` is inductive. `PoolsInv`: ids
are given once and a slug names one pool, the caps hold, what was deleted and
not named since is absent; the default pools come only with the settings row,
before which nothing was deleted. `Control`: no command is in progress while
the process is down or seeding. `Seeds`: a pool only seeding has written to
is, for one key of one seed file, a prefix of the rows without the blank ones;
seeding fills only a pool it has found empty, which is why a pool that holds
something is never begun again.

`Commands` is kept by every step of a state in which `IInv` holds. It follows
each import and the export from the data they found (`since`). Every row of the
file is at every moment inserted, skipped, in hand, or under a key left to do;
these four add up to the file. While nobody else writes, the pools are the data
found, plus the rows the command does not await any more (`Shaped`, `Accounted`,
`Going`); what an export has still to read is listed with its squares as they are
(`Listed`). The first write of anybody else ends the claim. A file has finitely
many keys, so "left to do" reaches nothing, and what is not awaited is then the
whole file.

Every invariant and every action property of the passing runs is stated by one
of these theorems. Only model-checked, and out of this prover's reach: liveness
(`EveryRequestIsAnswered`, `DueIsClaimed`, `CurrentInTheEnd`, `StreamsEnd`,
`CatchesUp`), which needs fairness and `ENABLED`. Only proved:
`CapExceededByOneBatch`, `FreeWithoutARace` and `EveryCardAddsUp`. The two runs
that show a violation are counterexamples and need no proof.

## 7. Not modelled, and why

- Web sessions: every operation is one statement on a row with a random key, and
  the look-up filters by expiry itself, so the purge changes nothing anyone
  reads. The login exchange lives in cookies and at Discord.
- Text: validation, formatting, images, command tables, configuration - pure
  functions without state.
- The order of a card's cells and the random source: no property depends on them
  except that a hand is drawn without replacement.
- Timestamps other than a schedule's and the caches'.
- Migrations: they run once, before anything else.
- The announcement channel and the participant role: one-statement overwrites,
  read back only to send a message or mention a role.
- A Discord send whose answer is lost although the message was posted.
- The web API's handlers that check membership and call the service, the Discord
  handlers that call it and reply, the data pages of the browser: they add no
  state of their own.
- In the browser, the "Deal me a card" button and the reload after a call for
  bingo: each sends one request and asks for the board, as an event does.
