-------------------------------- MODULE GuildData --------------------------------
(***************************************************************************)
(* The squares of one guild, filled in bulk: the default pools of a guild   *)
(* seen for the first time, the seed file applied on every start, imports   *)
(* and exports through Discord, and admins who edit meanwhile.              *)
(*                                                                          *)
(* A bulk operation is one transaction per pool made and per row added, so  *)
(* it can be cut short, or meet another one, between any two of them.  A    *)
(* process is either starting (seeding, nobody is served) or up.            *)
(*                                                                          *)
(* Files are functions from keys - a bucket and the name of a pool - to     *)
(* rows.  Only active squares are kept, in the order of their ids.          *)
(***************************************************************************)
EXTENDS Integers, SequencesExt

CONSTANTS
    Slug,               \* slugs a pool can have
    Name,               \* names of pools in files: slugs, or spelled otherwise
    CleanSlug,          \* cleanSlug, as a function from Name to Slug
    DefaultPools,       \* the slugs of DefaultPools(), in order
    Text,               \* texts of squares
    Blank,              \* a row without text
    Overlong,           \* a row cleanText refuses for its length or encoding
    SeedFile,           \* files SEED_FILE may hold, from one start to the next
    ImportFile,         \* files an admin may import
    Import,             \* import commands in progress
    Exporter,           \* the export command
    MaxPools, MaxEntriesPerPool,
    MaxPoolId,          \* bound: pool ids used
    MaxCommands,        \* bound: imports and exports begun
    MaxEdits,           \* bound: single edits
    MaxCrashes          \* bound: ends of the process

Bucket == {"instance", "shared"}
Key == [bucket : Bucket, name : Name]
RowText == Text \cup {Blank, Overlong}
Rows == Seq(RowText)

ASSUME DataAssumption ==
    /\ Slug \subseteq Name /\ CleanSlug \in [Name -> Slug]
    /\ \A s \in Slug : CleanSlug[s] = s
    /\ DefaultPools \in Seq(Slug)
    /\ \A i, j \in DOMAIN DefaultPools : DefaultPools[i] = DefaultPools[j] => i = j
    /\ {Blank, Overlong} \cap Text = {} /\ Blank # Overlong /\ Exporter \notin Import
    /\ \A file \in ImportFile \cup SeedFile :
         /\ DOMAIN file \subseteq Key /\ IsFiniteSet(DOMAIN file)
         /\ \A k \in DOMAIN file : file[k] \in Rows
    /\ {MaxPools, MaxEntriesPerPool, MaxPoolId, MaxCommands, MaxEdits, MaxCrashes} \subseteq Nat

VARIABLES
    known,      \* the guild's settings row exists
    pools,      \* id -> [slug, squares]
    process,    \* "down", "seeding" or "up"
    seeding,    \* what is left of the seed file
    imports,    \* the commands in progress and their replies
    export,     \* likewise
    seeded,     \* history: the file this start has applied to its end, if any
    torn,       \* history: slugs whose seeding was cut short
    touched,    \* history: slugs of pools something else than seeding has changed
    gone,       \* history: slugs of pools admins deleted and nobody named since
    since,      \* history: the data when a command began, while only it changes them
    begun, edits, crashes   \* counted against the bounds

history == <<seeded, torn, touched, gone, since>>
counters == <<begun, edits, crashes>>
vars == <<known, pools, process, seeding, imports, export, history, counters>>

--------------------------------------------------------------------------------
\* Pools and rows.

NextRowId(table) == Max(DOMAIN table \cup {0}) + 1
Insert(table, row) ==
    [id \in DOMAIN table \cup {NextRowId(table)} |->
        IF id \in DOMAIN table THEN table[id] ELSE row]
NewPool(slug) == [slug |-> slug, squares |-> << >>]
SlugsOf(table) == {table[p].slug : p \in DOMAIN table}

\* GetPool: the name is compared as it is spelled.
GetPool(name) == {p \in DOMAIN pools : pools[p].slug = name}

\* CreatePool's checks, on the cleaned name.
CanCreate(name) ==
    /\ Cardinality(DOMAIN pools) < MaxPools
    /\ CleanSlug[name] \notin SlugsOf(pools)

\* Mutant: blank rows are texts too.
AnyText(row) == TRUE

\* cleanText
CleanText(row) == row \notin {Blank, Overlong}

\* Mutant: the cap lets one more in.
RoomForOneMore(p) == p \in DOMAIN pools /\ Len(pools[p].squares) <= MaxEntriesPerPool

\* AddEntry's checks.
Room(p) == p \in DOMAIN pools /\ Len(pools[p].squares) < MaxEntriesPerPool

Add(p, text) == pools' = [pools EXCEPT ![p].squares = Append(@, text)]

\* What these keys of a file hold for a slug, in the order in which it is added.
RowsUnder(file, keys) == IF keys = {} THEN << >> ELSE file[CHOOSE k \in keys : TRUE]
RowsFor(file, keys, slug) ==
    LET of(bucket) == {k \in keys : k.bucket = bucket /\ CleanSlug[k.name] = slug}
    IN  RowsUnder(file, of("instance")) \o RowsUnder(file, of("shared"))

\* The order in which a file is worked through: the maps of Go have none, but
\* the instance bucket comes first.
NextKeys(todo) ==
    {k \in todo : k.bucket = "shared" => \A other \in todo : other.bucket = "shared"}

Contents == {pools[p] : p \in DOMAIN pools}

--------------------------------------------------------------------------------
Idle == [pc |-> "idle"]
NoExport == [pc |-> "idle", left |-> {}, out |-> {}]
NoSeeding == [file |-> << >>, todo |-> {}, pool |-> 0, rest |-> << >>]
Disturbed == [undisturbed |-> FALSE]
Undisturbed(data) == [undisturbed |-> TRUE, data |-> data]

Init ==
    /\ known = FALSE
    /\ pools = << >>
    /\ process = "down"
    /\ seeding = NoSeeding
    /\ imports = [i \in Import |-> Idle]
    /\ export = NoExport
    /\ seeded = {} /\ torn = {} /\ touched = {} /\ gone = {}
    /\ since = [c \in Import \cup {Exporter} |-> Disturbed]
    /\ begun = 0 /\ edits = 0 /\ crashes = 0

\* Someone changes the pools of these slugs under the feet of all the others.
Touch(slugs, who) ==
    /\ touched' = touched \cup slugs
    /\ since' = [c \in DOMAIN since |-> IF c \in who THEN since[c] ELSE Disturbed]

--------------------------------------------------------------------------------
(* EnsureGuild and the start of the process. *)

\* The places in the list of the default pools the guild does not have ...
Missing == {j \in DOMAIN DefaultPools : DefaultPools[j] \notin SlugsOf(pools)}

\* ... which are inserted one after another.
DefaultRowId(j) == NextRowId(pools) + Cardinality({i \in Missing : i < j})

WithDefaults ==
    [id \in DOMAIN pools \cup {DefaultRowId(j) : j \in Missing} |->
        IF id \in DOMAIN pools THEN pools[id]
        ELSE NewPool(DefaultPools[CHOOSE j \in Missing : DefaultRowId(j) = id])]

\* Mutant: every call restores the default pools.
EnsuredAlways == WithDefaults

\* The default pools come with the settings row, in one transaction, past the cap.
Ensured == IF known THEN pools ELSE WithDefaults

\* onInteraction calls EnsureGuild before anything else.
EnsureGuild ==
    /\ process = "up"
    /\ DOMAIN Ensured \subseteq 1 .. MaxPoolId
    /\ known' = TRUE /\ pools' = Ensured
    /\ UNCHANGED <<process, seeding, imports, export, history, counters>>

\* run: without a seed file that loads the process is up at once ...
StartUnseeded ==
    /\ process = "down"
    /\ process' = "up"
    /\ UNCHANGED <<known, pools, seeding, imports, export, history, counters>>

\* ... with one ApplySeed comes first.
StartSeeding(file) ==
    /\ process = "down"
    /\ DOMAIN Ensured \subseteq 1 .. MaxPoolId
    /\ process' = "seeding"
    /\ known' = TRUE /\ pools' = Ensured
    /\ seeding' = [NoSeeding EXCEPT !.file = file, !.todo = DOMAIN file]
    /\ UNCHANGED <<imports, export, history, counters>>

Upon(k, p, rest) == [seeding EXCEPT !.todo = @ \ {k}, !.pool = p, !.rest = rest]

\* Mutant: seedPoolIfEmpty adds to what is there.
SeedPoolAgain(k, p) == Upon(k, p, seeding.file[k])

\* Mutant: a pool that has squares ends the seeding.
SeedPoolAndStop(k, p) ==
    IF pools[p].squares = << >> THEN Upon(k, p, seeding.file[k])
    ELSE [seeding EXCEPT !.todo = {}]

\* seedPoolIfEmpty: only a pool without active squares gets the rows.
SeedPoolIfEmpty(k, p) ==
    Upon(k, p, IF pools[p].squares = << >> THEN seeding.file[k] ELSE << >>)

\* ApplySeed takes up the next pool.
SeedPool(k) ==
    /\ process = "seeding" /\ seeding.rest = << >>
    /\ \/ \E p \in GetPool(k.name) :
            /\ seeding' = SeedPoolIfEmpty(k, p)
            /\ UNCHANGED <<pools, process, gone>>
       \/ /\ GetPool(k.name) = {} /\ CanCreate(k.name) /\ NextRowId(pools) <= MaxPoolId
          /\ pools' = Insert(pools, NewPool(CleanSlug[k.name]))
          /\ seeding' = Upon(k, NextRowId(pools), seeding.file[k])
          /\ gone' = gone \ {CleanSlug[k.name]}
          /\ UNCHANGED process
       \/ /\ GetPool(k.name) = {} /\ ~CanCreate(k.name)
          /\ process' = "up" /\ seeding' = NoSeeding   \* "apply failed", and on
          /\ UNCHANGED <<pools, gone>>
    /\ UNCHANGED <<known, imports, export, seeded, torn, touched, since, counters>>

\* Rows are added one by one; the blank ones are skipped.
SeedRow ==
    /\ process = "seeding" /\ seeding.rest # << >>
    /\ LET row == Head(seeding.rest)
       IN  \/ row = Blank /\ UNCHANGED pools
           \/ row # Blank /\ CleanText(row) /\ Room(seeding.pool) /\ Add(seeding.pool, row)
    /\ seeding' = [seeding EXCEPT !.rest = Tail(@)]
    /\ UNCHANGED <<known, process, imports, export, history, counters>>

\* The pool being filled, if it has got some of its squares.
Torn == {pools[p].slug : p \in {q \in DOMAIN pools : /\ q = seeding.pool
                                                    /\ seeding.rest # << >>
                                                    /\ pools[q].squares # << >>}}

\* Any other row that does not go in is the end of ApplySeed.
SeedFails ==
    /\ process = "seeding" /\ seeding.rest # << >>
    /\ Head(seeding.rest) # Blank
    /\ ~(CleanText(Head(seeding.rest)) /\ Room(seeding.pool))
    /\ process' = "up" /\ seeding' = NoSeeding
    /\ torn' = torn \cup Torn
    /\ UNCHANGED <<known, pools, imports, export, seeded, touched, gone, since, counters>>

SeedDone ==
    /\ process = "seeding" /\ seeding.todo = {} /\ seeding.rest = << >>
    /\ process' = "up" /\ seeding' = NoSeeding /\ seeded' = {seeding.file}
    /\ UNCHANGED <<known, pools, imports, export, torn, touched, gone, since, counters>>

\* The process is killed, or told to stop: what it was doing is not finished.
Crash ==
    /\ process # "down" /\ crashes < MaxCrashes
    /\ crashes' = crashes + 1
    /\ process' = "down" /\ seeded' = {} /\ seeding' = NoSeeding
    /\ torn' = torn \cup Torn
    /\ imports' = [i \in Import |-> Idle] /\ export' = NoExport
    /\ since' = [c \in DOMAIN since |-> Disturbed]
    /\ UNCHANGED <<known, pools, touched, gone, begun, edits>>

--------------------------------------------------------------------------------
(* ImportData and importInto. *)

\* handleDataImport: the file is read before the service is asked.
Begin(i, file) ==
    /\ process = "up" /\ known /\ begun < MaxCommands
    /\ imports[i].pc \in {"idle", "done", "failed"}
    /\ begun' = begun + 1
    /\ imports' = [imports EXCEPT ![i] =
            [pc |-> "pools", file |-> file, todo |-> DOMAIN file, making |-> {}, pool |-> 0,
             rest |-> << >>, inserted |-> 0, made |-> 0, skipped |-> 0, cancelled |-> FALSE]]
    /\ since' = [since EXCEPT ![i] = Undisturbed(Contents)]
    /\ UNCHANGED <<known, pools, process, seeding, export, seeded, torn, touched, gone,
                   edits, crashes>>

\* The context of an interaction ends after 30 seconds.
Cancel(i) ==
    /\ imports[i].pc \in {"pools", "create"} /\ ~imports[i].cancelled
    /\ imports' = [imports EXCEPT ![i].cancelled = TRUE]
    /\ UNCHANGED <<known, pools, process, seeding, export, history, counters>>

\* Up to the next pool of the file: GetPool finds it, or it is to be created.
Find(i, k) ==
    /\ imports[i].pc = "pools" /\ imports[i].rest = << >> /\ ~imports[i].cancelled
    /\ k \in NextKeys(imports[i].todo)
    /\ \/ \E p \in GetPool(k.name) :
            imports' = [imports EXCEPT ![i].todo = @ \ {k}, ![i].pool = p,
                                       ![i].rest = imports[i].file[k]]
       \/ /\ GetPool(k.name) = {}
          /\ imports' = [imports EXCEPT ![i].pc = "create", ![i].making = {k}]
    /\ UNCHANGED <<known, pools, process, seeding, export, history, counters>>

\* CreatePool is a transaction of its own ...
Create(i, k) ==
    /\ imports[i].pc = "create" /\ imports[i].making = {k} /\ ~imports[i].cancelled
    /\ CanCreate(k.name) /\ NextRowId(pools) <= MaxPoolId
    /\ pools' = Insert(pools, NewPool(CleanSlug[k.name]))
    /\ imports' = [imports EXCEPT ![i].pc = "pools", ![i].todo = @ \ {k}, ![i].making = {},
                                  ![i].pool = NextRowId(pools), ![i].made = @ + 1,
                                  ![i].rest = imports[i].file[k]]
    /\ gone' = gone \ {CleanSlug[k.name]}
    /\ Touch({CleanSlug[k.name]}, {i})
    /\ UNCHANGED <<known, process, seeding, export, seeded, torn, counters>>

\* ... and one that fails ends the import: the cap is reached, the cleaned slug is
\* taken, or the context has ended.  What has been imported stays.
ImportFails(i) ==
    /\ \/ /\ imports[i].pc = "pools" /\ imports[i].rest = << >> /\ imports[i].todo # {}
          /\ imports[i].cancelled
       \/ /\ imports[i].pc = "create"
          /\ \/ imports[i].cancelled
             \/ \E k \in imports[i].making : ~CanCreate(k.name)
    /\ imports' = [imports EXCEPT ![i].pc = "failed"]
    /\ UNCHANGED <<known, pools, process, seeding, export, history, counters>>

\* Mutant: a row that is refused ends its pool.
RowOrStop(i) ==
    /\ imports[i].pc = "pools" /\ imports[i].rest # << >>
    /\ LET row == Head(imports[i].rest)
           p == imports[i].pool
       IN  IF CleanText(row) /\ ~imports[i].cancelled /\ Room(p)
           THEN /\ Add(p, row)
                /\ imports' = [imports EXCEPT ![i].rest = Tail(@), ![i].inserted = @ + 1]
                /\ Touch({pools[p].slug}, {i})
           ELSE /\ imports' = [imports EXCEPT ![i].rest = << >>, ![i].skipped = @ + 1]
                /\ UNCHANGED <<pools, touched, since>>
    /\ UNCHANGED <<known, process, seeding, export, seeded, torn, gone, counters>>

\* A row is added or, whatever the error, counted as skipped.
Row(i) ==
    /\ imports[i].pc = "pools" /\ imports[i].rest # << >>
    /\ LET row == Head(imports[i].rest)
           p == imports[i].pool
       IN  IF CleanText(row) /\ ~imports[i].cancelled /\ Room(p)
           THEN /\ Add(p, row)
                /\ imports' = [imports EXCEPT ![i].rest = Tail(@), ![i].inserted = @ + 1]
                /\ Touch({pools[p].slug}, {i})
           ELSE /\ imports' = [imports EXCEPT ![i].rest = Tail(@), ![i].skipped = @ + 1]
                /\ UNCHANGED <<pools, touched, since>>
    /\ UNCHANGED <<known, process, seeding, export, seeded, torn, gone, counters>>

ImportDone(i) ==
    /\ imports[i].pc = "pools" /\ imports[i].rest = << >> /\ imports[i].todo = {}
    /\ imports' = [imports EXCEPT ![i].pc = "done"]
    /\ UNCHANGED <<known, pools, process, seeding, export, history, counters>>

--------------------------------------------------------------------------------
(* handleDataExport. *)

ListPools ==
    /\ process = "up" /\ known /\ begun < MaxCommands /\ export.pc \in {"idle", "done"}
    /\ begun' = begun + 1
    /\ export' = [pc |-> "pools", left |-> {[id |-> p, slug |-> pools[p].slug] : p \in DOMAIN pools},
                  out |-> {}]
    /\ since' = [since EXCEPT ![Exporter] = Undisturbed(Contents)]
    /\ UNCHANGED <<known, pools, process, seeding, imports, seeded, torn, touched, gone,
                   edits, crashes>>

ListEntries(p) == IF p \in DOMAIN pools THEN pools[p].squares ELSE << >>

\* Mutant: pools without squares are left out.
ListSquaresOnly(entry) ==
    /\ export.pc = "pools" /\ entry \in export.left
    /\ export' = [export EXCEPT !.left = @ \ {entry},
                     !.out = IF ListEntries(entry.id) = << >> THEN @ ELSE
                        @ \cup {[slug |-> entry.slug, squares |-> ListEntries(entry.id)]}]
    /\ UNCHANGED <<known, pools, process, seeding, imports, history, counters>>

\* The squares are read pool by pool, of whatever pool has the id by then.
ListSquares(entry) ==
    /\ export.pc = "pools" /\ entry \in export.left
    /\ export' = [export EXCEPT !.left = @ \ {entry},
                     !.out = @ \cup {[slug |-> entry.slug, squares |-> ListEntries(entry.id)]}]
    /\ UNCHANGED <<known, pools, process, seeding, imports, history, counters>>

ExportDone ==
    /\ export.pc = "pools" /\ export.left = {}
    /\ export' = [export EXCEPT !.pc = "done"]
    /\ UNCHANGED <<known, pools, process, seeding, imports, history, counters>>

\* A query fails: the admin is told so.
ExportFails ==
    /\ export.pc = "pools"
    /\ export' = NoExport
    /\ UNCHANGED <<known, pools, process, seeding, imports, history, counters>>

--------------------------------------------------------------------------------
(* The single operations of the service, through Discord or the website.  Ids   *)
(* come from autocompletion, buttons and pages, and may be of any age.          *)

Edit(slugs) ==
    /\ process = "up" /\ edits < MaxEdits
    /\ edits' = edits + 1
    /\ Touch(slugs, {})
    /\ UNCHANGED <<known, process, seeding, imports, export, seeded, torn, begun, crashes>>

CreatePool(name) ==
    /\ CanCreate(name) /\ NextRowId(pools) <= MaxPoolId
    /\ pools' = Insert(pools, NewPool(CleanSlug[name]))
    /\ gone' = gone \ {CleanSlug[name]}
    /\ Edit({CleanSlug[name]})

\* A deletion before the settings row exists does not count: the default pools are
\* still to come.
DeletePool(p) ==
    /\ p \in DOMAIN pools
    /\ pools' = [q \in DOMAIN pools \ {p} |-> pools[q]]
    /\ gone' = IF known THEN gone \cup {pools[p].slug} ELSE gone
    /\ Edit({pools[p].slug})

AddEntry(p, text) ==
    /\ Room(p)
    /\ Add(p, text)
    /\ Edit({pools[p].slug})
    /\ UNCHANGED gone

EditEntry(p, n, text) ==
    /\ p \in DOMAIN pools /\ n \in DOMAIN pools[p].squares
    /\ pools' = [pools EXCEPT ![p].squares[n] = text]
    /\ Edit({pools[p].slug})
    /\ UNCHANGED gone

RemoveEntry(p, n) ==
    /\ p \in DOMAIN pools /\ n \in DOMAIN pools[p].squares
    /\ pools' = [pools EXCEPT ![p].squares = RemoveAt(@, n)]
    /\ Edit({pools[p].slug})
    /\ UNCHANGED gone

\* ClearPoolEntries, one step here; GameStore has its two statements.
ClearPool(p) ==
    /\ p \in DOMAIN pools
    /\ pools' = [pools EXCEPT ![p].squares = << >>]
    /\ Edit({pools[p].slug})
    /\ UNCHANGED gone

--------------------------------------------------------------------------------
Seeding ==
    \/ StartUnseeded \/ \E file \in SeedFile : StartSeeding(file)
    \/ \E k \in NextKeys(seeding.todo) : SeedPool(k)
    \/ SeedRow \/ SeedFails \/ SeedDone

Importing(i) ==
    \/ \E file \in ImportFile : Begin(i, file)
    \/ \E k \in Key : Find(i, k) \/ Create(i, k)
    \/ Row(i) \/ ImportDone(i) \/ ImportFails(i) \/ Cancel(i)

Exporting ==
    \/ ListPools \/ ExportDone \/ ExportFails
    \/ \E entry \in export.left : ListSquares(entry)

Editing ==
    \/ \E name \in Name : CreatePool(name)
    \/ \E p \in DOMAIN pools :
         \/ DeletePool(p) \/ ClearPool(p)
         \/ \E text \in Text : AddEntry(p, text)
         \/ \E n \in DOMAIN pools[p].squares :
              RemoveEntry(p, n) \/ \E text \in Text : EditEntry(p, n, text)

Next ==
    \/ EnsureGuild \/ Seeding \/ Crash
    \/ \E i \in Import : Importing(i)
    \/ Exporting \/ Editing

Spec == Init /\ [][Next]_vars

--------------------------------------------------------------------------------
Squares == Seq(Text)
PoolRow == [slug : Slug, squares : Squares]
TypeOK ==
    /\ known \in BOOLEAN /\ seeded \subseteq SeedFile
    /\ DOMAIN pools \subseteq 1 .. MaxPoolId /\ \A p \in DOMAIN pools : pools[p] \in PoolRow
    /\ process \in {"down", "seeding", "up"}
    /\ seeding.todo \subseteq DOMAIN seeding.file /\ seeding.rest \in Rows
    /\ seeding.rest # << >> => process = "seeding" /\ seeding.pool \in DOMAIN pools
    /\ \A i \in Import : imports[i].pc \in {"idle", "pools", "create", "failed", "done"}
    /\ export.pc \in {"idle", "pools", "done"}
    /\ torn \cup touched \cup gone \subseteq Slug
    /\ process # "up" => export = NoExport /\ \A i \in Import : imports[i] = Idle

\* The squares are the first n rows, without those nobody would add: the row at
\* place i is the square at place Kept(rows, i).
Kept(rows, n) == Cardinality({i \in 1 .. n : CleanText(rows[i])})
Filled(squares, rows, n) ==
    /\ Len(squares) = Kept(rows, n)
    /\ \A i \in 1 .. n : CleanText(rows[i]) => squares[Kept(rows, i)] = rows[i]

KeysOf(file, slug) == {k \in DOMAIN file : CleanSlug[k.name] = slug}

\* However often a process starts and wherever it ends, seeding adds no row twice:
\* what only seeding has written to a pool is the rows one of its files has for it
\* under one key, up to some row (Store.ApplySeed, "never duplicates squares").
SeedNeverRepeats ==
    \A p \in DOMAIN pools :
        pools[p].squares # << >> /\ pools[p].slug \notin touched =>
            \E file \in SeedFile : \E k \in KeysOf(file, pools[p].slug) :
                \E n \in 0 .. Len(file[k]) : Filled(pools[p].squares, file[k], n)

\* Once a start has applied its file, each pool it names holds all the rows a file
\* has for it under one key, and some if there are any: unless its seeding was cut
\* short after the first row, when the rest never comes.
SeededPoolsAreWhole ==
    \A applied \in seeded : \A named \in DOMAIN applied :
        CleanSlug[named.name] \notin torn \cup touched =>
            \E p \in DOMAIN pools :
                /\ pools[p].slug = CleanSlug[named.name]
                /\ \E file \in SeedFile : \E k \in KeysOf(file, pools[p].slug) :
                      Filled(pools[p].squares, file[k], Len(file[k]))
                /\ pools[p].squares = << >> =>
                      \A i \in DOMAIN applied[named] : ~CleanText(applied[named][i])

\* The caps hold whatever runs at the same time; only the default pools, which come
\* with the settings row, may be beyond theirs (Store.AddEntry, CreatePool).
QuotasHold ==
    /\ \A p \in DOMAIN pools : Len(pools[p].squares) <= MaxEntriesPerPool
    /\ Cardinality({p \in DOMAIN pools : pools[p].slug \notin ToSet(DefaultPools)}) <= MaxPools

\* A pool an admin deleted does not come back until someone creates it, imports it
\* or the seed file names it (Store.EnsureGuild, "deliberately deleted later").
DeletedPoolsStayDeleted == SlugsOf(pools) \cap gone = {}

\* The rows under these keys, told apart by their places.
RowsAt(file, keys) == UNION {{k} \X DOMAIN file[k] : k \in keys}

\* No bucket of the file spells one slug in two ways.
Unambiguous(file) ==
    \A k, l \in DOMAIN file :
        k.bucket = l.bucket /\ CleanSlug[k.name] = CleanSlug[l.name] => k = l

\* The squares followed by the first n rows, without those nobody would add, and
\* without those beyond the cap.
Grown(longer, squares, rows, n) ==
    /\ Len(longer) = Min({Len(squares) + Kept(rows, n), MaxEntriesPerPool})
    /\ \A j \in DOMAIN squares : longer[j] = squares[j]
    /\ \A i \in 1 .. n :
         CleanText(rows[i]) /\ Len(squares) + Kept(rows, i) <= MaxEntriesPerPool
           => longer[Len(squares) + Kept(rows, i)] = rows[i]

\* What data hold under a slug.
SquaresIn(data, slug) ==
    LET rows == {d \in data : d.slug = slug}
    IN  IF rows = {} THEN << >> ELSE (CHOOSE d \in rows : TRUE).squares

\* These contents are what importing the file into these data amounts to.
IsImport(contents, data, file) ==
    /\ {c.slug : c \in contents} =
         {d.slug : d \in data} \cup {CleanSlug[k.name] : k \in DOMAIN file}
    /\ \A c \in contents :
         LET rows == RowsFor(file, DOMAIN file, c.slug)
         IN  Grown(c.squares, SquaresIn(data, c.slug), rows, Len(rows))

\* An import that answers accounts for every row of the file, and has added every
\* one that is a text, in order, up to the caps - if nobody else wrote in the
\* meantime, its time did not run out, and the file does not name a pool twice
\* (ImportData, importInto).
ImportsAreComplete ==
    \A i \in Import :
        imports[i].pc = "done" =>
            /\ imports[i].inserted + imports[i].skipped =
                 Cardinality(RowsAt(imports[i].file, DOMAIN imports[i].file))
            /\ since[i].undisturbed /\ ~imports[i].cancelled /\ Unambiguous(imports[i].file) =>
                 IsImport(Contents, since[i].data, imports[i].file)

\* The file handleDataExport makes of what it has read.
ExportFile ==
    [k \in {[bucket |-> "shared", name |-> d.slug] : d \in export.out} |->
        SquaresIn(export.out, k.name)]

\* An export nothing disturbed holds every pool with its squares, and importing it
\* where there is nothing yet restores them ("Re-import it").
ExportsRestore ==
    export.pc = "done" /\ since[Exporter].undisturbed =>
        /\ export.out = Contents
        /\ IsImport(Contents, {}, ExportFile)
================================================================================
