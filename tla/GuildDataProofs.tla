----------------------------- MODULE GuildDataProofs -----------------------------
(***************************************************************************)
(* For any pools, files, caps, commands in progress and ends of the process: *)
(* the quotas hold, what an admin deleted stays deleted, seeding repeats     *)
(* nothing, and imports and exports nobody disturbs are complete.            *)
(*                                                                           *)
(* The invariant has four parts.  PoolsInv: ids are in use once, a slug      *)
(* belongs to one pool, the caps hold.  Control: a command is in progress    *)
(* only where the process is up, and what is left of the seed file is part   *)
(* of it.  Seeds: a pool only seeding has written to holds the first rows a  *)
(* file has under one key - all of them, unless it is being filled or was    *)
(* cut short - and what the file named so far is there.  Commands: while     *)
(* nobody else writes, the pools are the data a command found plus the rows  *)
(* of the file it does not await any more.  The first three make IInv, which *)
(* is inductive; Commands is kept by every step of a state IInv holds in.    *)
(***************************************************************************)
EXTENDS GuildData, FiniteSetTheorems, SequenceTheorems, WellFoundedInduction, TLAPS

\* The pools and what admins have deleted.
PoolsInv ==
    /\ known \in BOOLEAN
    /\ DOMAIN pools \subseteq 1 .. MaxPoolId /\ pools \in [DOMAIN pools -> PoolRow]
    /\ \A p, q \in DOMAIN pools : pools[p].slug = pools[q].slug => p = q
    /\ gone \subseteq Slug /\ (~known => gone = {})
    /\ QuotasHold
    /\ DeletedPoolsStayDeleted

--------------------------------------------------------------------------------
(* Rows and ids. *)

\* A set of numbers with an upper bound has a greatest one.
LEMMA MaxFacts ==
    ASSUME NEW n \in Nat, NEW S \in SUBSET (0 .. n), S # {}
    PROVE  Max(S) \in S /\ \A x \in S : Max(S) >= x
<1> DEFINE Gaps == {g \in Nat : n - g \in S}
<1>1. Gaps \in SUBSET Nat
    OBVIOUS
<1>2. PICK gap \in Gaps : \A g \in Gaps : gap <= g
    <2>1. PICK x \in S : x \in 0 .. n
        OBVIOUS
    <2>2. n - x \in Nat /\ n - (n - x) \in S
        BY <2>1
    <2>3. Gaps # {}
        BY <2>2
    <2>4. IsWellFoundedOn(OpToRel(<, Nat), Nat)
        BY NatLessThanWellFounded
    <2> HIDE DEF Gaps
    <2>5. PICK gap \in Gaps : \A g \in Gaps : <<g, gap>> \notin OpToRel(<, Nat)
        BY ONLY <1>1, <2>3, <2>4, WFMin, Zenon
    <2>6. \A g \in Gaps : ~(g < gap)
        BY <1>1, <2>5, Zenon DEF OpToRel
    <2> QED BY <1>1, <2>6
<1>3. PICK m \in S : m \in 0 .. n /\ gap = n - m
    BY <1>2
<1>4. \A x \in S : m >= x
    <2> SUFFICES ASSUME NEW x \in S PROVE m >= x
        OBVIOUS
    <2>1. x \in 0 .. n /\ n - x \in Gaps
        OBVIOUS
    <2>2. gap <= n - x
        BY <1>2, <2>1
    <2> QED BY <1>3, <2>1, <2>2
<1> QED BY <1>3, <1>4 DEF Max

\* The id SQLite gives a new row.
LEMMA NextRowIdFacts ==
    ASSUME PoolsInv
    PROVE  NextRowId(pools) \in Nat \ {0} /\ NextRowId(pools) \notin DOMAIN pools
<1> DEFINE ids == DOMAIN pools \cup {0}
<1>1. MaxPoolId \in Nat /\ ids \in SUBSET (0 .. MaxPoolId) /\ ids # {}
    BY DataAssumption DEF PoolsInv
<1>2. Max(ids) \in ids /\ \A x \in ids : Max(ids) >= x
    <2> HIDE DEF ids
    <2> QED BY <1>1, MaxFacts
<1> QED BY <1>1, <1>2 DEF NextRowId

\* A pool more.
LEMMA InsertFacts ==
    ASSUME PoolsInv, NEW slug \in Slug
    PROVE  LET table == Insert(pools, NewPool(slug)) IN
           /\ DOMAIN table = DOMAIN pools \cup {NextRowId(pools)}
           /\ table \in [DOMAIN table -> PoolRow]
           /\ \A p \in DOMAIN pools : table[p] = pools[p]
           /\ table[NextRowId(pools)] = [slug |-> slug, squares |-> << >>]
<1>1. NewPool(slug) \in PoolRow /\ NewPool(slug) = [slug |-> slug, squares |-> << >>]
    BY DEF NewPool, PoolRow, Squares
<1> QED BY <1>1, NextRowIdFacts DEF Insert, PoolsInv

\* The default pools that are missing come on top of what is there.
LEMMA EnsuredFacts ==
    ASSUME PoolsInv
    PROVE  /\ DOMAIN pools \subseteq DOMAIN Ensured /\ Ensured \in [DOMAIN Ensured -> PoolRow]
           /\ \A p \in DOMAIN pools : Ensured[p] = pools[p]
           /\ \A p \in DOMAIN Ensured \ DOMAIN pools :
                /\ ~known /\ Ensured[p].squares = << >>
                /\ Ensured[p].slug \in ToSet(DefaultPools) \ SlugsOf(pools)
           /\ \A p, q \in DOMAIN Ensured \ DOMAIN pools : Ensured[p].slug = Ensured[q].slug => p = q
<1>1. CASE known
    BY <1>1 DEF Ensured, PoolsInv
<1>2. CASE ~known
    <2> DEFINE place(id) == CHOOSE j \in Missing : DefaultRowId(j) = id
    <2>1. /\ DOMAIN Ensured = DOMAIN pools \cup {DefaultRowId(j) : j \in Missing}
          /\ Ensured = [p \in DOMAIN Ensured |-> Ensured[p]]
          /\ \A p \in DOMAIN pools : Ensured[p] = pools[p]
          /\ \A p \in DOMAIN Ensured \ DOMAIN pools : Ensured[p] = NewPool(DefaultPools[place(p)])
        BY <1>2 DEF Ensured, WithDefaults
    <2>2. \A p \in DOMAIN Ensured \ DOMAIN pools : place(p) \in Missing /\ DefaultRowId(place(p)) = p
        BY <2>1
    <2>3. \A j \in Missing : /\ j \in DOMAIN DefaultPools /\ DefaultPools[j] \in Slug
                             /\ DefaultPools[j] \in ToSet(DefaultPools) \ SlugsOf(pools)
        BY DataAssumption DEF Missing, ToSet
    <2>4. \A s \in Slug : NewPool(s) \in PoolRow /\ NewPool(s).slug = s /\ NewPool(s).squares = << >>
        BY DEF NewPool, PoolRow, Squares
    <2> HIDE DEF place
    <2>5. \A p \in DOMAIN Ensured \ DOMAIN pools :
            /\ Ensured[p] \in PoolRow /\ Ensured[p].squares = << >>
            /\ Ensured[p].slug = DefaultPools[place(p)]
            /\ Ensured[p].slug \in ToSet(DefaultPools) \ SlugsOf(pools)
        BY <2>1, <2>2, <2>3, <2>4
    <2>6. \A p, q \in DOMAIN Ensured \ DOMAIN pools : Ensured[p].slug = Ensured[q].slug => p = q
        BY <2>2, <2>3, <2>5, DataAssumption
    <2>7. \A p \in DOMAIN Ensured : Ensured[p] \in PoolRow
        BY <2>1, <2>5 DEF PoolsInv
    <2> QED BY <1>2, <2>1, <2>5, <2>6, <2>7
<1> QED BY <1>1, <1>2

--------------------------------------------------------------------------------
(* What the steps do to the pools. *)

\* The pools that count against the cap.
Others == {p \in DOMAIN pools : pools[p].slug \notin ToSet(DefaultPools)}

\* Sizes of what there is.
LEMMA SizeFacts ==
    ASSUME PoolsInv
    PROVE  /\ IsFiniteSet(DOMAIN pools) /\ Cardinality(DOMAIN pools) \in Nat
           /\ IsFiniteSet(Others) /\ Cardinality(Others) <= MaxPools
<1>1. IsFiniteSet(1 .. MaxPoolId)
    BY FS_Interval, DataAssumption
<1>2. IsFiniteSet(DOMAIN pools)
    BY <1>1, FS_Subset DEF PoolsInv
<1>3. IsFiniteSet(Others)
    BY <1>2, FS_Subset DEF Others
<1> QED BY <1>2, <1>3, FS_CardinalityType DEF PoolsInv, QuotasHold, Others

\* Nothing happens to them.
LEMMA KeepsPools ==
    ASSUME PoolsInv, UNCHANGED <<pools, gone>>, known' \in BOOLEAN, known => known'
    PROVE  PoolsInv'
BY DEF PoolsInv, QuotasHold, DeletedPoolsStayDeleted, SlugsOf

\* The default pools come, once.
LEMMA EnsuresPools ==
    ASSUME PoolsInv, DOMAIN Ensured \subseteq 1 .. MaxPoolId,
           known' = TRUE, pools' = Ensured, UNCHANGED gone
    PROVE  PoolsInv'
<1>1. /\ DOMAIN pools \subseteq DOMAIN pools' /\ pools' \in [DOMAIN pools' -> PoolRow]
      /\ \A p \in DOMAIN pools : pools'[p] = pools[p]
      /\ \A p \in DOMAIN pools' \ DOMAIN pools :
           /\ ~known /\ pools'[p].squares = << >>
           /\ pools'[p].slug \in ToSet(DefaultPools) \ SlugsOf(pools)
      /\ \A p, q \in DOMAIN pools' \ DOMAIN pools : pools'[p].slug = pools'[q].slug => p = q
    BY EnsuredFacts
<1>2. \A p, q \in DOMAIN pools' : pools'[p].slug = pools'[q].slug => p = q
    BY <1>1 DEF PoolsInv, SlugsOf
<1>3. QuotasHold'
    <2>1. Others' = Others
        BY <1>1 DEF Others
    <2>2. \A p \in DOMAIN pools' : Len(pools'[p].squares) <= MaxEntriesPerPool
        BY <1>1, DataAssumption DEF PoolsInv, QuotasHold
    <2> QED BY <2>1, <2>2, SizeFacts DEF QuotasHold, Others
<1>4. DeletedPoolsStayDeleted'
    BY <1>1 DEF PoolsInv, DeletedPoolsStayDeleted, SlugsOf
<1> QED BY <1>1, <1>2, <1>3, <1>4 DEF PoolsInv

\* A pool is created.
LEMMA CreatesPool ==
    ASSUME PoolsInv, NEW name \in Name, CanCreate(name), NextRowId(pools) <= MaxPoolId,
           pools' = Insert(pools, NewPool(CleanSlug[name])),
           gone' = gone \ {CleanSlug[name]}, UNCHANGED known
    PROVE  PoolsInv'
<1> DEFINE slug == CleanSlug[name]
           id == NextRowId(pools)
<1>1. slug \in Slug /\ id \in Nat \ {0} /\ id \notin DOMAIN pools /\ slug \notin SlugsOf(pools)
    BY DataAssumption, NextRowIdFacts DEF CanCreate
<1>2. /\ DOMAIN pools' = DOMAIN pools \cup {id} /\ pools' \in [DOMAIN pools' -> PoolRow]
      /\ \A p \in DOMAIN pools : pools'[p] = pools[p]
      /\ pools'[id].slug = slug /\ pools'[id].squares = << >>
    <2>1. pools' = Insert(pools, NewPool(slug))
        OBVIOUS
    <2>2. slug \in Slug
        BY <1>1
    <2> HIDE DEF slug
    <2>3. /\ DOMAIN pools' = DOMAIN pools \cup {id} /\ pools' \in [DOMAIN pools' -> PoolRow]
          /\ \A p \in DOMAIN pools : pools'[p] = pools[p]
          /\ pools'[id] = [slug |-> slug, squares |-> << >>]
        BY <2>1, <2>2, InsertFacts
    <2> QED BY <2>3
<1>3. id <= MaxPoolId /\ gone' = gone \ {slug} /\ Cardinality(DOMAIN pools) < MaxPools
    BY DEF CanCreate
<1> HIDE DEF slug, id
<1>4. DOMAIN pools' \subseteq 1 .. MaxPoolId
    BY <1>1, <1>2, <1>3, DataAssumption DEF PoolsInv
<1>5. \A p, q \in DOMAIN pools' : pools'[p].slug = pools'[q].slug => p = q
    BY <1>1, <1>2 DEF PoolsInv, SlugsOf
<1>6. QuotasHold'
    <2>1. \A p \in DOMAIN pools' : Len(pools'[p].squares) <= MaxEntriesPerPool
        BY <1>2, DataAssumption DEF PoolsInv, QuotasHold
    <2>2. /\ IsFiniteSet(DOMAIN pools')
          /\ Cardinality(DOMAIN pools') = Cardinality(DOMAIN pools) + 1
        BY <1>1, <1>2, SizeFacts, FS_AddElement
    <2>3. IsFiniteSet(Others') /\ Cardinality(Others') <= Cardinality(DOMAIN pools')
        <3>1. Others' \subseteq DOMAIN pools'
            BY DEF Others
        <3> QED BY <2>2, <3>1, FS_Subset
    <2>4. Cardinality(Others') \in Nat
        BY <2>3, FS_CardinalityType
    <2>5. Cardinality(Others') <= MaxPools
        BY <1>3, <2>2, <2>3, <2>4, SizeFacts, DataAssumption
    <2> QED BY <2>1, <2>5 DEF QuotasHold, Others
<1>7. DeletedPoolsStayDeleted'
    BY <1>2, <1>3 DEF PoolsInv, DeletedPoolsStayDeleted, SlugsOf
<1> QED BY <1>2, <1>3, <1>4, <1>5, <1>6, <1>7 DEF PoolsInv

\* A pool is deleted.
LEMMA DeletesPool ==
    ASSUME PoolsInv, NEW id \in DOMAIN pools,
           pools' = [q \in DOMAIN pools \ {id} |-> pools[q]],
           gone' = IF known THEN gone \cup {pools[id].slug} ELSE gone, UNCHANGED known
    PROVE  PoolsInv'
<1>1. /\ DOMAIN pools' = DOMAIN pools \ {id} /\ pools' \in [DOMAIN pools' -> PoolRow]
      /\ \A p \in DOMAIN pools' : pools'[p] = pools[p]
    BY DEF PoolsInv
<1>2. pools[id].slug \in Slug
    BY DEF PoolsInv, PoolRow
<1>3. QuotasHold'
    <2>1. Others' \subseteq Others
        BY <1>1 DEF Others
    <2>2. Cardinality(Others') <= Cardinality(Others) /\ IsFiniteSet(Others')
        BY <2>1, SizeFacts, FS_Subset
    <2>3. Cardinality(Others') \in Nat /\ Cardinality(Others) \in Nat
        BY <2>2, SizeFacts, FS_CardinalityType
    <2>4. Cardinality(Others') <= MaxPools
        BY <2>2, <2>3, SizeFacts, DataAssumption
    <2>5. \A p \in DOMAIN pools' : Len(pools'[p].squares) <= MaxEntriesPerPool
        BY <1>1 DEF PoolsInv, QuotasHold
    <2> QED BY <2>4, <2>5 DEF QuotasHold, Others
<1>4. \A p \in DOMAIN pools' : pools'[p].slug # pools[id].slug
    BY <1>1 DEF PoolsInv
<1>5. DeletedPoolsStayDeleted'
    BY <1>1, <1>4 DEF PoolsInv, DeletedPoolsStayDeleted, SlugsOf
<1> QED BY <1>1, <1>2, <1>3, <1>5 DEF PoolsInv

\* The squares of a pool change.
LEMMA FillsPool ==
    ASSUME PoolsInv, NEW id \in DOMAIN pools, NEW squares \in Squares,
           Len(squares) <= MaxEntriesPerPool,
           pools' = [pools EXCEPT ![id].squares = squares], UNCHANGED <<known, gone>>
    PROVE  /\ PoolsInv' /\ DOMAIN pools' = DOMAIN pools
           /\ \A p \in DOMAIN pools : pools'[p].slug = pools[p].slug
           /\ pools'[id].squares = squares
           /\ \A p \in DOMAIN pools : p # id => pools'[p] = pools[p]
<1>1. pools \in [DOMAIN pools -> PoolRow] /\ pools[id] \in PoolRow
    BY DEF PoolsInv
<1>2. /\ DOMAIN pools' = DOMAIN pools
      /\ pools'[id] = [pools[id] EXCEPT !.squares = squares]
      /\ \A p \in DOMAIN pools : p # id => pools'[p] = pools[p]
    BY <1>1
<1>3. /\ [pools[id] EXCEPT !.squares = squares] \in PoolRow
      /\ [pools[id] EXCEPT !.squares = squares].slug = pools[id].slug
      /\ [pools[id] EXCEPT !.squares = squares].squares = squares
    BY <1>1 DEF PoolRow
<1>4. /\ \A p \in DOMAIN pools : pools'[p].slug = pools[p].slug
      /\ pools'[id].squares = squares
    BY <1>2, <1>3
<1>5. pools' \in [DOMAIN pools' -> PoolRow]
    BY <1>1, <1>2, <1>3
<1>6. QuotasHold'
    <2>1. Others' = Others
        BY <1>2, <1>4 DEF Others
    <2>2. \A p \in DOMAIN pools' : Len(pools'[p].squares) <= MaxEntriesPerPool
        BY <1>2, <1>4 DEF PoolsInv, QuotasHold
    <2> QED BY <2>1, <2>2, SizeFacts DEF QuotasHold, Others
<1>7. DeletedPoolsStayDeleted'
    BY <1>2, <1>4 DEF PoolsInv, DeletedPoolsStayDeleted, SlugsOf
<1>8. PoolsInv'
    BY <1>2, <1>4, <1>5, <1>6, <1>7 DEF PoolsInv
<1> QED BY <1>2, <1>4, <1>8

\* A square is added.
LEMMA AddsSquare ==
    ASSUME PoolsInv, NEW id, Room(id), NEW text \in Text, Add(id, text), UNCHANGED <<known, gone>>
    PROVE  /\ id \in DOMAIN pools /\ pools[id].squares \in Seq(Text)
           /\ PoolsInv' /\ DOMAIN pools' = DOMAIN pools
           /\ \A p \in DOMAIN pools : pools'[p].slug = pools[p].slug
           /\ pools'[id].squares = Append(pools[id].squares, text)
           /\ \A p \in DOMAIN pools : p # id => pools'[p] = pools[p]
<1> DEFINE squares == Append(pools[id].squares, text)
<1>1. id \in DOMAIN pools /\ pools[id].squares \in Seq(Text)
    BY DEF Room, PoolsInv, PoolRow, Squares
<1>2. squares \in Squares /\ Len(squares) = Len(pools[id].squares) + 1
    BY <1>1 DEF Squares
<1>3. Len(squares) <= MaxEntriesPerPool
    BY <1>1, <1>2, DataAssumption DEF Room
<1>4. pools' = [pools EXCEPT ![id].squares = squares]
    BY DEF Add
<1> HIDE DEF squares
<1>5. /\ PoolsInv' /\ DOMAIN pools' = DOMAIN pools
      /\ \A p \in DOMAIN pools : pools'[p].slug = pools[p].slug
      /\ pools'[id].squares = squares
      /\ \A p \in DOMAIN pools : p # id => pools'[p] = pools[p]
    BY <1>1, <1>2, <1>3, <1>4, FillsPool
<1> QED BY <1>1, <1>5 DEF squares

--------------------------------------------------------------------------------
(* What is in progress, and what seeding leaves behind. *)

SeedState == [file : SeedFile \cup {<< >>}, todo : SUBSET Key, pool : Nat, rest : Rows]
CommandRecord ==
    [pc : {"pools", "create", "failed", "done"}, file : ImportFile, todo : SUBSET Key,
     making : SUBSET Key, pool : Nat, rest : Rows, inserted : Nat, made : Nat,
     skipped : Nat, cancelled : BOOLEAN]
Command == {c \in CommandRecord : c.todo \cup c.making \subseteq DOMAIN c.file}
Listing == [pc : {"idle", "pools", "done"}, left : SUBSET [id : Nat, slug : Slug],
            out : SUBSET PoolRow]

Control ==
    /\ process \in {"down", "seeding", "up"}
    /\ seeding \in SeedState /\ seeding.todo \subseteq DOMAIN seeding.file
    /\ process = "seeding" => seeding.file \in SeedFile
    /\ process # "seeding" => seeding = NoSeeding
    /\ seeding.rest # << >> => seeding.pool \in DOMAIN pools
    /\ imports \in [Import -> {Idle} \cup Command] /\ export \in Listing
    /\ process # "up" => export = NoExport /\ \A i \in Import : imports[i] = Idle
    /\ seeded \subseteq SeedFile /\ (seeded # {} => process = "up")
    /\ torn \subseteq Slug /\ touched \subseteq Slug

\* The pool with this id is being filled.
Filling(p) == seeding.rest # << >> /\ seeding.pool = p

\* What only seeding has written is the rows a file has under one key, or some.
SomeOf(p) ==
    \E file \in SeedFile : \E k \in KeysOf(file, pools[p].slug) :
        \E n \in 0 .. Len(file[k]) : Filled(pools[p].squares, file[k], n)
AllOf(p) ==
    \E file \in SeedFile : \E k \in KeysOf(file, pools[p].slug) :
        Filled(pools[p].squares, file[k], Len(file[k]))

\* Rows nobody would add.
NoText(rows) == \A i \in DOMAIN rows : ~CleanText(rows[i])

\* All that remains of rows after the first n.
Remains(rest, rows, n) ==
    /\ n \in 0 .. Len(rows) /\ Len(rest) = Len(rows) - n
    /\ \A j \in 1 .. Len(rest) : rest[j] = rows[n + j]

\* What is there without being filled has been filled to the end.
FilledAreWhole ==
    \A p \in DOMAIN pools :
        pools[p].squares # << >> /\ pools[p].slug \notin touched \cup torn /\ ~Filling(p)
          => AllOf(p)

\* What is being filled has got the rows that do not remain.
FillingGoesOn ==
    \A p \in DOMAIN pools :
        Filling(p) /\ pools[p].slug \notin touched =>
            \E k \in KeysOf(seeding.file, pools[p].slug) : \E n \in Nat :
                /\ Remains(seeding.rest, seeding.file[k], n)
                /\ Filled(pools[p].squares, seeding.file[k], n)

\* The pools the file has named so far are there, and are not empty for long.
NamedAreThere ==
    \A k \in DOMAIN seeding.file \ seeding.todo :
        CleanSlug[k.name] \notin torn \cup touched =>
            \E p \in DOMAIN pools :
                /\ pools[p].slug = CleanSlug[k.name]
                /\ pools[p].squares = << >> =>
                     NoText(seeding.file[k]) \/ (Filling(p) /\ ~NoText(seeding.rest))

Seeds ==
    /\ SeedNeverRepeats /\ FilledAreWhole
    /\ FillingGoesOn /\ NamedAreThere
    /\ SeededPoolsAreWhole

IInv == PoolsInv /\ Control /\ Seeds

\* A step of a process that is up: what it does to a pool counts as touched.
LEMMA ServedStep ==
    ASSUME IInv, process = "up", UNCHANGED <<process, seeding, seeded, torn>>, PoolsInv',
           imports' \in [Import -> {Idle} \cup Command], export' \in Listing,
           touched' \subseteq Slug, touched \subseteq touched',
           \A p \in DOMAIN pools' :
             \/ pools'[p].slug \in touched' \/ pools'[p].squares = << >>
             \/ p \in DOMAIN pools /\ pools'[p] = pools[p],
           \A p \in DOMAIN pools :
             \/ pools[p].slug \in touched'
             \/ p \in DOMAIN pools' /\ pools'[p] = pools[p]
    PROVE  IInv'
<1>1. /\ seeding = NoSeeding /\ seeding.rest = << >> /\ seeding.todo = {}
      /\ seeding.file = << >> /\ DOMAIN seeding.file = {}
    BY DEF IInv, Control, NoSeeding
<1>2. Control'
    BY <1>1 DEF IInv, Control
<1>3. \A p : ~Filling(p) /\ ~Filling(p)'
    BY <1>1 DEF Filling
<1>4. ASSUME NEW p \in DOMAIN pools, p \in DOMAIN pools', pools'[p] = pools[p]
      PROVE  (SomeOf(p)' <=> SomeOf(p)) /\ (AllOf(p)' <=> AllOf(p))
    BY <1>4 DEF SomeOf, AllOf
<1>5. SeedNeverRepeats'
    <2>1. SUFFICES ASSUME NEW p \in DOMAIN pools', pools'[p].squares # << >>,
                          pools'[p].slug \notin touched'
                   PROVE  SomeOf(p)'
        BY DEF SeedNeverRepeats, SomeOf
    <2>2. p \in DOMAIN pools /\ pools'[p] = pools[p] /\ pools[p].slug \notin touched
        BY <2>1
    <2>3. SomeOf(p)
        BY <2>1, <2>2 DEF IInv, Seeds, SeedNeverRepeats, SomeOf
    <2> QED BY <1>4, <2>2, <2>3
<1>6. ASSUME NEW p \in DOMAIN pools', pools'[p].squares # << >>,
             pools'[p].slug \notin touched' \cup torn'
      PROVE  AllOf(p)'
    <2>1. p \in DOMAIN pools /\ pools'[p] = pools[p] /\ pools[p].slug \notin touched \cup torn
        BY <1>6
    <2>2. AllOf(p)
        BY <1>3, <1>6, <2>1 DEF IInv, Seeds, FilledAreWhole
    <2> QED BY <1>4, <2>1, <2>2
<1>7. SeededPoolsAreWhole'
    <2>1. SUFFICES ASSUME NEW applied \in seeded, NEW named \in DOMAIN applied,
                          CleanSlug[named.name] \notin torn \cup touched'
                   PROVE  \E p \in DOMAIN pools' :
                            /\ pools'[p].slug = CleanSlug[named.name] /\ AllOf(p)'
                            /\ pools'[p].squares = << >> => NoText(applied[named])
        BY DEF SeededPoolsAreWhole, AllOf, NoText
    <2>2. PICK p \in DOMAIN pools : /\ pools[p].slug = CleanSlug[named.name] /\ AllOf(p)
                                    /\ pools[p].squares = << >> => NoText(applied[named])
        BY <2>1 DEF IInv, Seeds, SeededPoolsAreWhole, AllOf, NoText
    <2>3. p \in DOMAIN pools' /\ pools'[p] = pools[p]
        BY <2>1, <2>2
    <2> QED BY <1>4, <2>2, <2>3
<1>8. Seeds'
    BY <1>1, <1>3, <1>5, <1>6, <1>7 DEF Seeds, FilledAreWhole, FillingGoesOn, NamedAreThere
<1> QED BY <1>2, <1>8 DEF IInv

--------------------------------------------------------------------------------
(* The steps of a process that is up. *)

\* A step beside the pools.
LEMMA BesidePools ==
    ASSUME IInv, process = "up", imports' \in [Import -> {Idle} \cup Command], export' \in Listing,
           UNCHANGED <<known, pools, process, seeding, seeded, torn, touched, gone>>
    PROVE  IInv'
<1>1. PoolsInv'
    BY KeepsPools DEF IInv, PoolsInv
<1>2. touched' \subseteq Slug
    BY DEF IInv, Control
<1> QED BY <1>1, <1>2, ServedStep

\* A command in progress.
LEMMA CommandFacts ==
    ASSUME IInv, NEW i \in Import, imports[i].pc # "idle"
    PROVE  /\ process = "up" /\ imports[i] \in CommandRecord
           /\ imports[i].todo \cup imports[i].making \subseteq DOMAIN imports[i].file
           /\ \A k \in DOMAIN imports[i].file : imports[i].file[k] \in Rows
           /\ imports \in [Import -> {Idle} \cup Command]
<1>1. imports \in [Import -> {Idle} \cup Command] /\ imports[i] # Idle
    BY DEF IInv, Control, Idle
<1>2. process = "up" /\ imports[i] \in Command
    BY <1>1 DEF IInv, Control
<1>3. /\ imports[i] \in CommandRecord
      /\ imports[i].todo \cup imports[i].making \subseteq DOMAIN imports[i].file
    BY <1>2 DEF Command
<1>4. \A k \in DOMAIN imports[i].file : imports[i].file[k] \in Rows
    BY <1>3, DataAssumption DEF CommandRecord
<1> QED BY <1>1, <1>2, <1>3, <1>4

\* A command that goes on with its file.
LEMMA GoesOn ==
    ASSUME IInv, NEW i \in Import, imports[i].pc # "idle", NEW command \in CommandRecord,
           command.file = imports[i].file, command.todo \subseteq imports[i].todo,
           command.making \subseteq imports[i].making \cup imports[i].todo
    PROVE  [imports EXCEPT ![i] = command] \in [Import -> {Idle} \cup Command]
<1>1. command \in Command
    BY CommandFacts DEF Command
<1> QED BY <1>1, CommandFacts

\* What is typed right in a served process.
LEMMA ControlFacts ==
    ASSUME IInv
    PROVE  /\ imports \in [Import -> {Idle} \cup Command] /\ export \in Listing
           /\ touched \subseteq Slug /\ torn \subseteq Slug
           /\ \A p \in DOMAIN pools : /\ pools[p] \in PoolRow /\ pools[p].slug \in Slug
                                      /\ pools[p].squares \in Seq(Text)
                                      /\ Len(pools[p].squares) <= MaxEntriesPerPool
BY DEF IInv, Control, PoolsInv, QuotasHold, PoolRow, Squares

\* Lemma <Action>IInv, here and below: that action keeps the invariant.
LEMMA EnsureGuildIInv == ASSUME IInv, EnsureGuild PROVE IInv'
<1>1. /\ process = "up" /\ DOMAIN Ensured \subseteq 1 .. MaxPoolId
      /\ known' = TRUE /\ pools' = Ensured
      /\ UNCHANGED <<process, seeding, imports, export, seeded, torn, touched, gone>>
    BY DEF EnsureGuild, history
<1>2. PoolsInv'
    BY <1>1, EnsuresPools DEF IInv
<1>3. \A p \in DOMAIN pools : p \in DOMAIN pools' /\ pools'[p] = pools[p]
    BY <1>1, EnsuredFacts DEF IInv
<1>4. \A p \in DOMAIN pools' \ DOMAIN pools : pools'[p].squares = << >>
    BY <1>1, EnsuredFacts DEF IInv
<1> QED BY <1>1, <1>2, <1>3, <1>4, ControlFacts, ServedStep

LEMMA BeginIInv == ASSUME IInv, NEW i \in Import, NEW file \in ImportFile, Begin(i, file) PROVE IInv'
<1> DEFINE command == [pc |-> "pools", file |-> file, todo |-> DOMAIN file, making |-> {},
                       pool |-> 0, rest |-> << >>, inserted |-> 0, made |-> 0, skipped |-> 0,
                       cancelled |-> FALSE]
<1>1. /\ process = "up" /\ imports' = [imports EXCEPT ![i] = command]
      /\ UNCHANGED <<known, pools, process, seeding, export, seeded, torn, touched, gone>>
    BY DEF Begin
<1>2. DOMAIN file \in SUBSET Key /\ << >> \in Rows
    BY DataAssumption DEF Rows
<1>3. command \in Command
    BY <1>2 DEF Command, CommandRecord
<1> HIDE DEF command
<1>4. imports' \in [Import -> {Idle} \cup Command]
    BY <1>1, <1>3, ControlFacts
<1> QED BY <1>1, <1>4, ControlFacts, BesidePools

LEMMA CancelIInv == ASSUME IInv, NEW i \in Import, Cancel(i) PROVE IInv'
<1>1. /\ imports[i].pc # "idle"
      /\ UNCHANGED <<known, pools, process, seeding, export, seeded, torn, touched, gone>>
    BY DEF Cancel, history
<1> DEFINE command == [imports[i] EXCEPT !.cancelled = TRUE]
<1>2. /\ command \in CommandRecord /\ command.todo = imports[i].todo
      /\ command.making = imports[i].making /\ command.file = imports[i].file
    BY <1>1, CommandFacts DEF CommandRecord
<1>3. imports' = [imports EXCEPT ![i] = command]
    BY DEF Cancel
<1> HIDE DEF command
<1>4. imports' \in [Import -> {Idle} \cup Command]
    BY <1>1, <1>2, <1>3, GoesOn
<1> QED BY <1>1, <1>4, ControlFacts, CommandFacts, BesidePools

LEMMA FindIInv == ASSUME IInv, NEW i \in Import, NEW k \in Key, Find(i, k) PROVE IInv'
<1>1. /\ imports[i].pc = "pools" /\ k \in imports[i].todo
      /\ UNCHANGED <<known, pools, process, seeding, export, seeded, torn, touched, gone>>
    BY DEF Find, NextKeys, history
<1>2. /\ imports[i] \in CommandRecord /\ k \in DOMAIN imports[i].file
      /\ imports[i].file[k] \in Rows
      /\ imports[i].todo \cup imports[i].making \subseteq DOMAIN imports[i].file
    BY <1>1, CommandFacts
<1>3. ASSUME NEW p \in GetPool(k.name),
             imports' = [imports EXCEPT ![i].todo = @ \ {k}, ![i].pool = p,
                                        ![i].rest = imports[i].file[k]]
      PROVE  IInv'
    <2> DEFINE command == [imports[i] EXCEPT !.todo = @ \ {k}, !.pool = p,
                                             !.rest = imports[i].file[k]]
    <2>1. p \in Nat
        BY DEF GetPool, IInv, PoolsInv
    <2>2. /\ command \in CommandRecord /\ command.todo \subseteq imports[i].todo
          /\ command.making = imports[i].making /\ command.file = imports[i].file
        BY <1>2, <2>1 DEF CommandRecord
    <2>3. imports' = [imports EXCEPT ![i] = command]
        BY <1>3
    <2> HIDE DEF command
    <2>4. imports' \in [Import -> {Idle} \cup Command]
        BY <1>1, <2>2, <2>3, GoesOn
    <2> QED BY <1>1, <2>4, ControlFacts, CommandFacts, BesidePools
<1>4. CASE imports' = [imports EXCEPT ![i].pc = "create", ![i].making = {k}]
    <2> DEFINE command == [imports[i] EXCEPT !.pc = "create", !.making = {k}]
    <2>1. /\ command \in CommandRecord /\ command.todo = imports[i].todo
          /\ command.making = {k} /\ command.file = imports[i].file
        BY <1>2 DEF CommandRecord
    <2>2. imports' = [imports EXCEPT ![i] = command]
        BY <1>4
    <2> HIDE DEF command
    <2>3. imports' \in [Import -> {Idle} \cup Command]
        BY <1>1, <2>1, <2>2, GoesOn
    <2> QED BY <1>1, <2>3, ControlFacts, CommandFacts, BesidePools
<1> QED BY <1>3, <1>4 DEF Find

LEMMA ImportEndsIInv ==
    ASSUME IInv, NEW i \in Import, ImportFails(i) \/ ImportDone(i) PROVE IInv'
<1>1. /\ imports[i].pc # "idle"
      /\ \E pc \in {"failed", "done"} : imports' = [imports EXCEPT ![i].pc = pc]
      /\ UNCHANGED <<known, pools, process, seeding, export, seeded, torn, touched, gone>>
    BY DEF ImportFails, ImportDone, history
<1>2. PICK pc \in {"failed", "done"} : imports' = [imports EXCEPT ![i].pc = pc]
    BY <1>1
<1> DEFINE command == [imports[i] EXCEPT !.pc = pc]
<1>3. /\ command \in CommandRecord /\ command.todo = imports[i].todo
      /\ command.making = imports[i].making /\ command.file = imports[i].file
    BY <1>1, CommandFacts DEF CommandRecord
<1>4. imports' = [imports EXCEPT ![i] = command]
    BY <1>2
<1> HIDE DEF command
<1>5. imports' \in [Import -> {Idle} \cup Command]
    BY <1>1, <1>3, <1>4, GoesOn
<1> QED BY <1>1, <1>5, ControlFacts, CommandFacts, BesidePools

LEMMA CreateIInv == ASSUME IInv, NEW i \in Import, NEW k \in Key, Create(i, k) PROVE IInv'
<1> DEFINE slug == CleanSlug[k.name]
           command == [imports[i] EXCEPT !.pc = "pools", !.todo = @ \ {k}, !.making = {},
                                         !.pool = NextRowId(pools), !.made = @ + 1,
                                         !.rest = imports[i].file[k]]
<1>1. /\ imports[i].pc = "create" /\ imports[i].making = {k}
      /\ CanCreate(k.name) /\ NextRowId(pools) <= MaxPoolId
      /\ pools' = Insert(pools, NewPool(slug)) /\ gone' = gone \ {slug}
      /\ touched' = touched \cup {slug}
      /\ UNCHANGED <<known, process, seeding, export, seeded, torn>>
    BY DEF Create, Touch
<1>2. imports' = [imports EXCEPT ![i] = command]
    BY DEF Create
<1>3. k.name \in Name /\ slug \in Slug
    BY DataAssumption DEF Key
<1>4. PoolsInv'
    BY <1>1, <1>3, CreatesPool DEF IInv
<1>5. /\ imports[i] \in CommandRecord /\ imports[i].file[k] \in Rows
      /\ NextRowId(pools) \in Nat /\ imports[i].made + 1 \in Nat
    BY <1>1, CommandFacts, NextRowIdFacts DEF IInv, CommandRecord
<1>6. /\ command \in CommandRecord /\ command.todo \subseteq imports[i].todo
      /\ command.making = {} /\ command.file = imports[i].file
    BY <1>5 DEF CommandRecord
<1> HIDE DEF command
<1>7. imports' \in [Import -> {Idle} \cup Command]
    BY <1>1, <1>2, <1>6, GoesOn
<1> HIDE DEF slug
<1>8. /\ DOMAIN pools' = DOMAIN pools \cup {NextRowId(pools)}
      /\ \A p \in DOMAIN pools : pools'[p] = pools[p]
      /\ pools'[NextRowId(pools)] = [slug |-> slug, squares |-> << >>]
    BY <1>1, <1>3, InsertFacts DEF IInv
<1>9. process = "up"
    BY <1>1, CommandFacts
<1> QED BY <1>1, <1>3, <1>4, <1>7, <1>8, <1>9, ControlFacts, ServedStep

LEMMA RowIInv == ASSUME IInv, NEW i \in Import, Row(i) PROVE IInv'
<1> DEFINE row == Head(imports[i].rest)
           id == imports[i].pool
<1>1. /\ imports[i].pc = "pools" /\ imports[i].rest # << >>
      /\ UNCHANGED <<known, process, seeding, export, seeded, torn, gone>>
    BY DEF Row
<1>2. /\ imports[i] \in CommandRecord /\ process = "up"
    BY <1>1, CommandFacts
<1>3. row \in RowText /\ Tail(imports[i].rest) \in Rows
    BY <1>1, <1>2 DEF CommandRecord, Rows
<1> HIDE DEF row, id
<1>4. CASE /\ CleanText(row) /\ Room(id) /\ Add(id, row) /\ touched' = touched \cup {pools[id].slug}
           /\ imports' = [imports EXCEPT ![i].rest = Tail(@), ![i].inserted = @ + 1]
    <2> DEFINE command == [imports[i] EXCEPT !.rest = Tail(@), !.inserted = @ + 1]
    <2>0. imports[i].inserted + 1 \in Nat
        BY <1>2 DEF CommandRecord
    <2>1. /\ command \in CommandRecord /\ command.todo = imports[i].todo
          /\ command.making = imports[i].making /\ command.file = imports[i].file
        BY <1>2, <1>3, <2>0 DEF CommandRecord
    <2>2. imports' = [imports EXCEPT ![i] = command]
        BY <1>4
    <2> HIDE DEF command
    <2>3. imports' \in [Import -> {Idle} \cup Command]
        BY <1>1, <2>1, <2>2, GoesOn
    <2>4. row \in Text
        BY <1>3, <1>4 DEF CleanText, RowText
    <2>5. /\ id \in DOMAIN pools /\ PoolsInv' /\ DOMAIN pools' = DOMAIN pools
          /\ \A p \in DOMAIN pools : pools'[p].slug = pools[p].slug
          /\ \A p \in DOMAIN pools : p # id => pools'[p] = pools[p]
        BY <1>1, <1>4, <2>4, AddsSquare DEF IInv
    <2> QED BY <1>1, <1>2, <1>4, <2>3, <2>5, ControlFacts, ServedStep
<1>5. CASE /\ UNCHANGED <<pools, touched>>
           /\ imports' = [imports EXCEPT ![i].rest = Tail(@), ![i].skipped = @ + 1]
    <2> DEFINE command == [imports[i] EXCEPT !.rest = Tail(@), !.skipped = @ + 1]
    <2>0. imports[i].skipped + 1 \in Nat
        BY <1>2 DEF CommandRecord
    <2>1. /\ command \in CommandRecord /\ command.todo = imports[i].todo
          /\ command.making = imports[i].making /\ command.file = imports[i].file
        BY <1>2, <1>3, <2>0 DEF CommandRecord
    <2>2. imports' = [imports EXCEPT ![i] = command]
        BY <1>5
    <2> HIDE DEF command
    <2>3. imports' \in [Import -> {Idle} \cup Command]
        BY <1>1, <2>1, <2>2, GoesOn
    <2> QED BY <1>1, <1>2, <1>5, <2>3, ControlFacts, BesidePools
<1> QED BY <1>4, <1>5 DEF Row, Touch, row, id

LEMMA ExportingIInv == ASSUME IInv, Exporting PROVE IInv'
<1>1. UNCHANGED <<known, pools, process, seeding, imports, seeded, torn, touched, gone>>
    BY DEF Exporting, ListPools, ExportDone, ExportFails, ListSquares, history
<1>0. process = "up"
    <2>1. process = "up" \/ export.pc = "pools"
        BY DEF Exporting, ListPools, ExportDone, ExportFails, ListSquares
    <2> QED BY <2>1 DEF IInv, Control, NoExport
<1>2. CASE ListPools
    <2>1. {[id |-> p, slug |-> pools[p].slug] : p \in DOMAIN pools} \in SUBSET [id : Nat, slug : Slug]
        BY ControlFacts DEF IInv, PoolsInv
    <2>2. export' \in Listing
        BY <1>2, <2>1 DEF ListPools, Listing
    <2> QED BY <1>0, <1>1, <2>2, ControlFacts, BesidePools
<1>3. CASE ExportDone \/ ExportFails
    <2>1. export' \in Listing
        BY <1>3, ControlFacts DEF ExportDone, ExportFails, Listing, NoExport
    <2> QED BY <1>0, <1>1, <2>1, ControlFacts, BesidePools
<1>4. CASE \E entry \in export.left : ListSquares(entry)
    <2>1. PICK entry \in export.left : ListSquares(entry)
        BY <1>4
    <2>2. entry \in [id : Nat, slug : Slug] /\ ListEntries(entry.id) \in Squares
        BY ControlFacts DEF Listing, ListEntries, Squares
    <2>3. [slug |-> entry.slug, squares |-> ListEntries(entry.id)] \in PoolRow
        BY <2>2 DEF PoolRow
    <2>4. export' \in Listing
        BY <2>1, <2>3, ControlFacts DEF ListSquares, Listing
    <2> QED BY <1>0, <1>1, <2>4, ControlFacts, BesidePools
<1> QED BY <1>2, <1>3, <1>4 DEF Exporting

\* What all single operations share.
LEMMA EditFacts ==
    ASSUME IInv, NEW slugs \in SUBSET Slug, Edit(slugs)
    PROVE  /\ process = "up" /\ touched' = touched \cup slugs /\ touched' \subseteq Slug
           /\ UNCHANGED <<known, process, seeding, imports, export, seeded, torn>>
BY ControlFacts DEF Edit, Touch

\* Other squares for a pool, not more than the cap.
LEMMA EditSquares ==
    ASSUME IInv, NEW id \in DOMAIN pools, NEW squares \in Seq(Text),
           Len(squares) <= MaxEntriesPerPool,
           pools' = [pools EXCEPT ![id].squares = squares],
           Edit({pools[id].slug}), UNCHANGED gone
    PROVE  IInv'
<1>1. pools[id].slug \in Slug
    BY ControlFacts
<1>2. /\ process = "up" /\ touched' = touched \cup {pools[id].slug} /\ touched' \subseteq Slug
      /\ UNCHANGED <<known, process, seeding, imports, export, seeded, torn>>
    BY <1>1, EditFacts
<1>3. /\ PoolsInv' /\ DOMAIN pools' = DOMAIN pools
      /\ \A p \in DOMAIN pools : pools'[p].slug = pools[p].slug
      /\ \A p \in DOMAIN pools : p # id => pools'[p] = pools[p]
    BY <1>2, FillsPool DEF IInv, Squares
<1> QED BY <1>2, <1>3, ControlFacts, ServedStep

LEMMA CreatePoolIInv == ASSUME IInv, NEW name \in Name, CreatePool(name) PROVE IInv'
<1> DEFINE slug == CleanSlug[name]
<1>1. /\ CanCreate(name) /\ NextRowId(pools) <= MaxPoolId
      /\ pools' = Insert(pools, NewPool(slug)) /\ gone' = gone \ {slug} /\ Edit({slug})
    BY DEF CreatePool
<1>2. slug \in Slug
    BY DataAssumption
<1>3. /\ process = "up" /\ touched' = touched \cup {slug} /\ touched' \subseteq Slug
      /\ UNCHANGED <<known, process, seeding, imports, export, seeded, torn>>
    BY <1>1, <1>2, EditFacts
<1>4. PoolsInv'
    BY <1>1, <1>3, CreatesPool DEF IInv
<1> HIDE DEF slug
<1>5. /\ DOMAIN pools' = DOMAIN pools \cup {NextRowId(pools)}
      /\ \A p \in DOMAIN pools : pools'[p] = pools[p]
      /\ pools'[NextRowId(pools)] = [slug |-> slug, squares |-> << >>]
    BY <1>1, <1>2, InsertFacts DEF IInv
<1> QED BY <1>3, <1>4, <1>5, ControlFacts, ServedStep

LEMMA DeletePoolIInv == ASSUME IInv, NEW id \in DOMAIN pools, DeletePool(id) PROVE IInv'
<1>1. /\ pools' = [q \in DOMAIN pools \ {id} |-> pools[q]]
      /\ gone' = IF known THEN gone \cup {pools[id].slug} ELSE gone
      /\ Edit({pools[id].slug})
    BY DEF DeletePool
<1>2. pools[id].slug \in Slug
    BY ControlFacts
<1>3. /\ process = "up" /\ touched' = touched \cup {pools[id].slug} /\ touched' \subseteq Slug
      /\ UNCHANGED <<known, process, seeding, imports, export, seeded, torn>>
    BY <1>1, <1>2, EditFacts
<1>4. PoolsInv'
    BY <1>1, <1>3, DeletesPool DEF IInv
<1>5. DOMAIN pools' = DOMAIN pools \ {id} /\ \A p \in DOMAIN pools' : pools'[p] = pools[p]
    BY <1>1
<1> QED BY <1>3, <1>4, <1>5, ControlFacts, ServedStep

LEMMA AddEntryIInv ==
    ASSUME IInv, NEW id \in DOMAIN pools, NEW text \in Text, AddEntry(id, text) PROVE IInv'
<1>1. /\ Room(id) /\ Edit({pools[id].slug}) /\ UNCHANGED gone
      /\ pools' = [pools EXCEPT ![id].squares = Append(pools[id].squares, text)]
    BY DEF AddEntry, Add
<1>2. /\ Append(pools[id].squares, text) \in Seq(Text)
      /\ Len(Append(pools[id].squares, text)) = Len(pools[id].squares) + 1
    BY ControlFacts
<1>3. Len(Append(pools[id].squares, text)) <= MaxEntriesPerPool
    <2>1. Len(pools[id].squares) \in Nat /\ Len(pools[id].squares) < MaxEntriesPerPool
        BY <1>1, ControlFacts DEF Room
    <2> QED BY <1>2, <2>1, DataAssumption
<1> QED BY <1>1, <1>2, <1>3, EditSquares

LEMMA EditEntryIInv ==
    ASSUME IInv, NEW id \in DOMAIN pools, NEW n \in DOMAIN pools[id].squares, NEW text \in Text,
           EditEntry(id, n, text)
    PROVE  IInv'
<1> DEFINE squares == [pools[id].squares EXCEPT ![n] = text]
<1>1. pools' = [pools EXCEPT ![id].squares = squares] /\ Edit({pools[id].slug}) /\ UNCHANGED gone
    BY DEF EditEntry
<1>2. squares \in Seq(Text) /\ Len(squares) = Len(pools[id].squares)
    BY ControlFacts
<1>3. Len(squares) <= MaxEntriesPerPool
    BY <1>2, ControlFacts
<1> HIDE DEF squares
<1> QED BY <1>1, <1>2, <1>3, EditSquares

LEMMA RemoveEntryIInv ==
    ASSUME IInv, NEW id \in DOMAIN pools, NEW n \in DOMAIN pools[id].squares, RemoveEntry(id, n)
    PROVE  IInv'
<1> DEFINE s == pools[id].squares
           squares == RemoveAt(s, n)
<1>1. pools' = [pools EXCEPT ![id].squares = squares] /\ Edit({pools[id].slug}) /\ UNCHANGED gone
    BY DEF RemoveEntry
<1>2. s \in Seq(Text) /\ Len(s) \in Nat /\ n \in 1 .. Len(s) /\ Len(s) <= MaxEntriesPerPool
    BY ControlFacts
<1> HIDE DEF s
<1>3. /\ SubSeq(s, 1, n - 1) \in Seq(Text) /\ SubSeq(s, n + 1, Len(s)) \in Seq(Text)
      /\ Len(SubSeq(s, 1, n - 1)) = n - 1 /\ Len(SubSeq(s, n + 1, Len(s))) = Len(s) - n
    BY <1>2
<1>4. squares \in Seq(Text) /\ Len(squares) = Len(s) - 1
    BY <1>2, <1>3 DEF RemoveAt
<1>5. Len(squares) <= MaxEntriesPerPool
    BY <1>2, <1>4, DataAssumption
<1> HIDE DEF squares
<1> QED BY <1>1, <1>4, <1>5, EditSquares

LEMMA ClearPoolIInv == ASSUME IInv, NEW id \in DOMAIN pools, ClearPool(id) PROVE IInv'
<1>1. /\ pools' = [pools EXCEPT ![id].squares = << >>]
      /\ Edit({pools[id].slug}) /\ UNCHANGED gone
    BY DEF ClearPool
<1>2. << >> \in Seq(Text) /\ Len(<< >>) <= MaxEntriesPerPool
    BY DataAssumption
<1> QED BY <1>1, <1>2, EditSquares

--------------------------------------------------------------------------------
(* Rows that are added one by one. *)

\* Counting the rows somebody would add.
LEMMA KeptFacts ==
    ASSUME NEW rows \in Rows, NEW n \in Nat
    PROVE  /\ Kept(rows, n) \in Nat
           /\ CleanText(rows[n + 1]) => Kept(rows, n + 1) = Kept(rows, n) + 1
           /\ ~CleanText(rows[n + 1]) => Kept(rows, n + 1) = Kept(rows, n)
           /\ \A i \in 1 .. n : Kept(rows, i) \in Nat /\ Kept(rows, i) <= Kept(rows, n)
           /\ \A i \in 1 .. n : CleanText(rows[i]) => Kept(rows, i) >= 1
<1> DEFINE Clean(m) == {i \in 1 .. m : CleanText(rows[i])}
<1>1. ASSUME NEW m \in Nat
      PROVE  /\ IsFiniteSet(Clean(m)) /\ Kept(rows, m) = Cardinality(Clean(m))
             /\ Kept(rows, m) \in Nat
    <2>1. IsFiniteSet(1 .. m)
        BY FS_Interval
    <2>2. IsFiniteSet(Clean(m))
        BY <2>1, FS_Subset
    <2> QED BY <2>2, FS_CardinalityType DEF Kept
<1>2. CleanText(rows[n + 1]) => Kept(rows, n + 1) = Kept(rows, n) + 1
    <2> SUFFICES ASSUME CleanText(rows[n + 1]) PROVE Kept(rows, n + 1) = Kept(rows, n) + 1
        OBVIOUS
    <2>1. Clean(n + 1) = Clean(n) \cup {n + 1} /\ n + 1 \notin Clean(n)
        OBVIOUS
    <2> HIDE DEF Clean
    <2> QED BY <1>1, <2>1, FS_AddElement
<1>3. ~CleanText(rows[n + 1]) => Kept(rows, n + 1) = Kept(rows, n)
    <2> SUFFICES ASSUME ~CleanText(rows[n + 1]) PROVE Kept(rows, n + 1) = Kept(rows, n)
        OBVIOUS
    <2>1. Clean(n + 1) = Clean(n)
        OBVIOUS
    <2> HIDE DEF Clean
    <2> QED BY <1>1, <2>1
<1>4. ASSUME NEW i \in 1 .. n
      PROVE  /\ Kept(rows, i) \in Nat /\ Kept(rows, i) <= Kept(rows, n)
             /\ CleanText(rows[i]) => Kept(rows, i) >= 1
    <2>1. Clean(i) \subseteq Clean(n)
        OBVIOUS
    <2>2. CleanText(rows[i]) => i \in Clean(i)
        OBVIOUS
    <2> HIDE DEF Clean
    <2>3. Cardinality(Clean(i)) <= Cardinality(Clean(n))
        BY <1>1, <2>1, FS_Subset
    <2>4. CleanText(rows[i]) => Cardinality(Clean(i)) # 0
        BY <1>1, <2>2, FS_EmptySet
    <2> QED BY <1>1, <2>3, <2>4
<1> QED BY <1>1, <1>2, <1>3, <1>4

\* Nothing is added of no rows, and of rows nobody would add.
LEMMA FilledWithNothing ==
    ASSUME NEW rows \in Rows
    PROVE  Filled(<< >>, rows, 0) /\ (NoText(rows) => Filled(<< >>, rows, Len(rows)))
<1>1. ASSUME NEW n \in 0 .. Len(rows), \A i \in 1 .. n : ~CleanText(rows[i])
      PROVE  Filled(<< >>, rows, n)
    <2>1. {i \in 1 .. n : CleanText(rows[i])} = {}
        BY <1>1
    <2> QED BY <1>1, <2>1, FS_EmptySet DEF Filled, Kept
<1>2. Len(rows) \in Nat /\ DOMAIN rows = 1 .. Len(rows)
    BY DEF Rows
<1> QED BY <1>1, <1>2 DEF NoText

\* A row more.
LEMMA FilledFurther ==
    ASSUME NEW rows \in Rows, NEW n \in Nat, NEW squares \in Seq(Text), Filled(squares, rows, n)
    PROVE  /\ ~CleanText(rows[n + 1]) => Filled(squares, rows, n + 1)
           /\ CleanText(rows[n + 1]) => Filled(Append(squares, rows[n + 1]), rows, n + 1)
<1>1. /\ Len(squares) = Kept(rows, n)
      /\ \A i \in 1 .. n : CleanText(rows[i]) => squares[Kept(rows, i)] = rows[i]
    BY DEF Filled
<1>2. \A i \in 1 .. n + 1 : i \in 1 .. n \/ i = n + 1
    OBVIOUS
<1>3. CASE ~CleanText(rows[n + 1])
    BY <1>1, <1>2, <1>3, KeptFacts DEF Filled
<1>4. CASE CleanText(rows[n + 1])
    <2> DEFINE longer == Append(squares, rows[n + 1])
    <2>1. /\ Len(longer) = Len(squares) + 1 /\ longer[Len(squares) + 1] = rows[n + 1]
          /\ \A j \in 1 .. Len(squares) : longer[j] = squares[j]
        OBVIOUS
    <2>2. Kept(rows, n + 1) = Kept(rows, n) + 1
        BY <1>4, KeptFacts
    <2>3. \A i \in 1 .. n : CleanText(rows[i]) => Kept(rows, i) \in 1 .. Len(squares)
        BY <1>1, KeptFacts
    <2> HIDE DEF longer
    <2>4. \A i \in 1 .. n + 1 : CleanText(rows[i]) => longer[Kept(rows, i)] = rows[i]
        BY <1>1, <1>2, <2>1, <2>2, <2>3
    <2>5. Filled(longer, rows, n + 1)
        BY <1>1, <2>1, <2>2, <2>4 DEF Filled
    <2> QED BY <1>4, <2>5 DEF longer
<1> QED BY <1>3, <1>4

\* The next row of what remains.
LEMMA RemainsFacts ==
    ASSUME NEW rows \in Rows, NEW rest \in Rows, NEW n \in Nat, Remains(rest, rows, n)
    PROVE  /\ rest = << >> <=> n = Len(rows)
           /\ rest # << >> => Head(rest) = rows[n + 1] /\ Remains(Tail(rest), rows, n + 1)
<1>1. /\ n \in 0 .. Len(rows) /\ Len(rest) = Len(rows) - n
      /\ \A j \in 1 .. Len(rest) : rest[j] = rows[n + j]
    BY DEF Remains
<1>2. Len(rows) \in Nat /\ rest \in Seq(RowText)
    BY DEF Rows
<1>3. rest = << >> <=> n = Len(rows)
    BY <1>1, <1>2
<1>4. ASSUME rest # << >> PROVE Head(rest) = rows[n + 1] /\ Remains(Tail(rest), rows, n + 1)
    <2>1. /\ Head(rest) = rest[1] /\ Len(Tail(rest)) = Len(rest) - 1 /\ Len(rest) \in Nat \ {0}
          /\ \A j \in 1 .. Len(rest) - 1 : Tail(rest)[j] = rest[j + 1]
        BY <1>2, <1>4
    <2>2. \A j \in 1 .. Len(Tail(rest)) : Tail(rest)[j] = rows[(n + 1) + j]
        <3> SUFFICES ASSUME NEW j \in 1 .. Len(Tail(rest)) PROVE Tail(rest)[j] = rows[(n + 1) + j]
            OBVIOUS
        <3>1. j + 1 \in 1 .. Len(rest) /\ Tail(rest)[j] = rest[j + 1]
            BY <2>1
        <3>2. rest[j + 1] = rows[n + (j + 1)] /\ n + (j + 1) = (n + 1) + j
            BY <1>1, <2>1, <3>1
        <3> QED BY <3>1, <3>2
    <2>3. n + 1 \in 0 .. Len(rows) /\ Len(Tail(rest)) = Len(rows) - (n + 1)
        BY <1>1, <1>2, <2>1
    <2> QED BY <1>1, <2>1, <2>2, <2>3 DEF Remains
<1> QED BY <1>3, <1>4

\* All rows remain at first.
LEMMA AllRemains == ASSUME NEW rows \in Rows PROVE Remains(rows, rows, 0)
BY DEF Remains, Rows

--------------------------------------------------------------------------------
(* The steps of seeding. *)

\* What is known while a file is being worked through.
LEMMA SeedingFacts ==
    ASSUME IInv, process = "seeding"
    PROVE  /\ seeding \in SeedState /\ seeding.file \in SeedFile
           /\ seeding.todo \subseteq DOMAIN seeding.file /\ seeded = {}
           /\ \A k \in DOMAIN seeding.file :
                /\ k \in Key /\ k.name \in Name /\ CleanSlug[k.name] \in Slug
                /\ seeding.file[k] \in Rows
<1>1. seeding.file \in SeedFile /\ seeded = {}
    BY DEF IInv, Control
<1>2. DOMAIN seeding.file \subseteq Key /\ \A k \in DOMAIN seeding.file : seeding.file[k] \in Rows
    BY <1>1, DataAssumption
<1>3. \A k \in Key : k.name \in Name /\ CleanSlug[k.name] \in Slug
    BY DataAssumption DEF Key
<1> QED BY <1>1, <1>2, <1>3 DEF IInv, Control

\* What is said of a pool that stays as it is.
LEMMA SamePool ==
    ASSUME NEW p, pools'[p] = pools[p]
    PROVE  (SomeOf(p)' <=> SomeOf(p)) /\ (AllOf(p)' <=> AllOf(p))
BY DEF SomeOf, AllOf

LEMMA StartUnseededIInv == ASSUME IInv, StartUnseeded PROVE IInv'
<1>1. /\ process = "down" /\ process' = "up"
      /\ UNCHANGED <<known, pools, seeding, imports, export, seeded, torn, touched, gone>>
    BY DEF StartUnseeded, history
<1>2. PoolsInv'
    BY <1>1, KeepsPools DEF IInv, PoolsInv
<1>3. Control'
    BY <1>1 DEF IInv, Control
<1>4. Seeds'
    BY <1>1 DEF IInv, Seeds, SeedNeverRepeats, FilledAreWhole, FillingGoesOn, NamedAreThere,
                SeededPoolsAreWhole, Filling, AllOf
<1> QED BY <1>2, <1>3, <1>4 DEF IInv

LEMMA StartSeedingIInv == ASSUME IInv, NEW file \in SeedFile, StartSeeding(file) PROVE IInv'
<1>1. /\ process = "down" /\ DOMAIN Ensured \subseteq 1 .. MaxPoolId
      /\ process' = "seeding" /\ known' = TRUE /\ pools' = Ensured
      /\ seeding' = [NoSeeding EXCEPT !.file = file, !.todo = DOMAIN file]
      /\ UNCHANGED <<imports, export, seeded, torn, touched, gone>>
    BY DEF StartSeeding, history
<1>2. PoolsInv'
    BY <1>1, EnsuresPools DEF IInv
<1>3. /\ seeding'.file = file /\ seeding'.todo = DOMAIN file
      /\ seeding'.rest = << >> /\ seeding' \in SeedState
    <2>1. DOMAIN file \in SUBSET Key /\ << >> \in Rows
        BY DataAssumption DEF Rows
    <2> QED BY <1>1, <2>1 DEF NoSeeding, SeedState
<1>4. Control'
    BY <1>1, <1>3 DEF IInv, Control
<1>5. seeding.rest = << >> /\ seeded = {}
    BY <1>1 DEF IInv, Control, NoSeeding
<1>6. \A p : ~Filling(p) /\ ~Filling(p)'
    BY <1>3, <1>5 DEF Filling
<1>7. \A p \in DOMAIN pools' : pools'[p].squares # << >> => p \in DOMAIN pools /\ pools'[p] = pools[p]
    BY <1>1, EnsuredFacts DEF IInv
<1>8. SeedNeverRepeats' /\ FilledAreWhole'
    BY <1>1, <1>6, <1>7, SamePool
    DEF IInv, Seeds, SeedNeverRepeats, FilledAreWhole, SomeOf
<1>9. FillingGoesOn' /\ NamedAreThere' /\ SeededPoolsAreWhole'
    BY <1>1, <1>3, <1>5, <1>6 DEF FillingGoesOn, NamedAreThere, SeededPoolsAreWhole
<1> QED BY <1>2, <1>4, <1>8, <1>9 DEF IInv, Seeds

\* The next key of the file has got its pool: an empty one is going to be filled.
LEMMA TakesUp ==
    ASSUME IInv, process = "seeding", seeding.rest = << >>, NEW k \in seeding.todo,
           UNCHANGED <<process, imports, export, seeded, torn, touched>>,
           PoolsInv', DOMAIN pools \subseteq DOMAIN pools',
           \A q \in DOMAIN pools : pools'[q] = pools[q],
           \A q \in DOMAIN pools' \ DOMAIN pools : pools'[q].squares = << >>,
           NEW p \in DOMAIN pools', pools'[p].slug = CleanSlug[k.name],
           seeding' = Upon(k, p, IF pools'[p].squares = << >> THEN seeding.file[k] ELSE << >>)
    PROVE  IInv'
<1>1. /\ seeding \in SeedState /\ seeding.file \in SeedFile /\ seeded = {}
      /\ seeding.todo \subseteq DOMAIN seeding.file /\ seeding.file[k] \in Rows
    BY SeedingFacts
<1>2. p \in Nat /\ << >> \in Rows
    BY DEF PoolsInv, Rows
<1>3. /\ seeding' \in SeedState /\ seeding'.file = seeding.file
      /\ seeding'.todo = seeding.todo \ {k} /\ seeding'.pool = p
      /\ pools'[p].squares = << >> => seeding'.rest = seeding.file[k]
      /\ pools'[p].squares # << >> => seeding'.rest = << >>
    BY <1>1, <1>2 DEF SeedState, Upon
<1>4. Control'
    BY <1>1, <1>3 DEF IInv, Control
<1>5. \A q : ~Filling(q)
    BY DEF Filling
<1>6. \A q : Filling(q)' => q = p /\ pools'[p].squares = << >>
    BY <1>3 DEF Filling
<1>7. \A q \in DOMAIN pools' : pools'[q].squares # << >> => q \in DOMAIN pools /\ pools'[q] = pools[q]
    OBVIOUS
<1>8. SeedNeverRepeats' /\ FilledAreWhole'
    BY <1>5, <1>7, SamePool DEF IInv, Seeds, SeedNeverRepeats, FilledAreWhole, SomeOf
<1>9. FillingGoesOn'
    <2>1. SUFFICES ASSUME Filling(p)'
                   PROVE  \E l \in KeysOf(seeding.file, pools'[p].slug) : \E n \in Nat :
                            /\ Remains(seeding'.rest, seeding.file[l], n)
                            /\ Filled(pools'[p].squares, seeding.file[l], n)
        BY <1>3, <1>6 DEF FillingGoesOn
    <2>2. k \in KeysOf(seeding.file, pools'[p].slug)
        BY <1>1 DEF KeysOf
    <2>3. Remains(seeding'.rest, seeding.file[k], 0) /\ Filled(pools'[p].squares, seeding.file[k], 0)
        BY <1>1, <1>3, <1>6, <2>1, AllRemains, FilledWithNothing
    <2> QED BY <2>2, <2>3
<1>10. NamedAreThere'
    <2>1. SUFFICES ASSUME NEW l \in DOMAIN seeding.file \ (seeding.todo \ {k}),
                          CleanSlug[l.name] \notin torn \cup touched
                   PROVE  \E q \in DOMAIN pools' :
                            /\ pools'[q].slug = CleanSlug[l.name]
                            /\ pools'[q].squares = << >> =>
                                 NoText(seeding.file[l]) \/ (Filling(q)' /\ ~NoText(seeding'.rest))
        BY <1>3 DEF NamedAreThere
    <2>2. CASE l = k
        <3>1. ASSUME pools'[p].squares = << >>, ~NoText(seeding.file[k]) PROVE Filling(p)'
            BY <1>3, <3>1 DEF Filling, NoText
        <3> QED BY <1>3, <2>2, <3>1
    <2>3. CASE l # k
        BY <1>5, <2>1, <2>3 DEF IInv, Seeds, NamedAreThere
    <2> QED BY <2>2, <2>3
<1>11. SeededPoolsAreWhole'
    BY <1>1 DEF SeededPoolsAreWhole
<1> QED BY <1>4, <1>8, <1>9, <1>10, <1>11 DEF IInv, Seeds

\* Seeding ends, one way or another.
LEMMA StopsSeeding ==
    ASSUME IInv, UNCHANGED <<known, pools, touched, gone>>, seeding' = NoSeeding,
           process' \in {"up", "down"},
           torn \cup Torn \subseteq torn', torn' \subseteq torn \cup Torn,
           \A i \in Import : imports'[i] = imports[i] \/ imports'[i] = Idle,
           imports' \in [Import -> {Idle} \cup Command], export' \in Listing,
           process' # "up" => export' = NoExport /\ \A i \in Import : imports'[i] = Idle,
           seeded' \subseteq SeedFile, seeded' # {} => process' = "up", SeededPoolsAreWhole'
    PROVE  IInv'
<1>1. PoolsInv'
    BY KeepsPools DEF IInv, PoolsInv
<1>2. /\ seeding'.file = << >> /\ seeding'.todo = {} /\ seeding'.rest = << >>
      /\ DOMAIN seeding'.file = {} /\ seeding' \in SeedState
    BY DEF NoSeeding, SeedState, Rows
<1>3. Torn \subseteq Slug
    BY ControlFacts DEF Torn
<1>4. Control'
    BY <1>2, <1>3, ControlFacts DEF Control
<1>5. \A p \in DOMAIN pools : Filling(p) /\ pools[p].squares # << >> => pools[p].slug \in torn'
    BY DEF Torn, Filling
<1>6. SeedNeverRepeats' /\ FilledAreWhole'
    BY <1>5, SamePool DEF IInv, Seeds, SeedNeverRepeats, FilledAreWhole
<1>7. FillingGoesOn' /\ NamedAreThere'
    BY <1>2 DEF FillingGoesOn, NamedAreThere, Filling
<1> QED BY <1>1, <1>4, <1>6, <1>7 DEF IInv, Seeds


LEMMA SeedPoolIInv == ASSUME IInv, NEW k \in NextKeys(seeding.todo), SeedPool(k) PROVE IInv'
<1> DEFINE slug == CleanSlug[k.name]
           id == NextRowId(pools)
<1>1. /\ process = "seeding" /\ seeding.rest = << >> /\ k \in seeding.todo
      /\ UNCHANGED <<known, imports, export, seeded, torn, touched>>
    BY DEF SeedPool, NextKeys
<1>2. k.name \in Name /\ slug \in Slug
    BY <1>1, SeedingFacts
<1>3. \/ \E p \in GetPool(k.name) :
           seeding' = SeedPoolIfEmpty(k, p) /\ UNCHANGED <<pools, process, gone>>
      \/ /\ CanCreate(k.name) /\ id <= MaxPoolId /\ pools' = Insert(pools, NewPool(slug))
         /\ seeding' = Upon(k, id, seeding.file[k]) /\ gone' = gone \ {slug} /\ UNCHANGED process
      \/ process' = "up" /\ seeding' = NoSeeding /\ UNCHANGED <<pools, gone>>
    BY DEF SeedPool
<1>4. ASSUME NEW p \in GetPool(k.name), seeding' = SeedPoolIfEmpty(k, p),
             UNCHANGED <<pools, process, gone>>
      PROVE  IInv'
    <2>1. p \in DOMAIN pools' /\ pools'[p].slug = slug
        <3>1. p \in DOMAIN pools /\ pools[p].slug = k.name /\ pools[p].slug \in Slug
            BY ControlFacts DEF GetPool
        <3> QED BY <1>4, <3>1, DataAssumption
    <2>2. PoolsInv'
        BY <1>1, <1>4, KeepsPools DEF IInv, PoolsInv
    <2>3. seeding' = Upon(k, p, IF pools'[p].squares = << >> THEN seeding.file[k] ELSE << >>)
        BY <1>4 DEF SeedPoolIfEmpty
    <2> QED BY <1>1, <1>4, <2>1, <2>2, <2>3, TakesUp
<1>5. ASSUME CanCreate(k.name), id <= MaxPoolId, pools' = Insert(pools, NewPool(slug)),
             seeding' = Upon(k, id, seeding.file[k]), gone' = gone \ {slug}, UNCHANGED process
      PROVE  IInv'
    <2>1. PoolsInv'
        BY <1>1, <1>2, <1>5, CreatesPool DEF IInv
    <2> HIDE DEF slug
    <2>2. /\ DOMAIN pools' = DOMAIN pools \cup {id}
          /\ \A q \in DOMAIN pools : pools'[q] = pools[q]
          /\ pools'[id] = [slug |-> slug, squares |-> << >>]
        BY <1>2, <1>5, InsertFacts DEF IInv
    <2> HIDE DEF id
    <2>3. /\ id \in DOMAIN pools' /\ pools'[id].slug = slug /\ pools'[id].squares = << >>
          /\ \A q \in DOMAIN pools' \ DOMAIN pools : pools'[q].squares = << >>
        BY <2>2
    <2>4. seeding' = Upon(k, id, IF pools'[id].squares = << >> THEN seeding.file[k] ELSE << >>)
        BY <1>5, <2>3
    <2>5. pools'[id].slug = CleanSlug[k.name]
        BY <2>3 DEF slug
    <2> QED BY <1>1, <1>5, <2>1, <2>2, <2>3, <2>4, <2>5, TakesUp
<1>6. CASE process' = "up" /\ seeding' = NoSeeding /\ UNCHANGED <<pools, gone>>
    <2>1. Torn = {}
        BY <1>1 DEF Torn
    <2>2. seeded = {} /\ seeded' = {}
        BY <1>1, SeedingFacts
    <2>3. SeededPoolsAreWhole'
        BY <2>2 DEF SeededPoolsAreWhole
    <2> QED BY <1>1, <1>6, <2>1, <2>2, <2>3, ControlFacts, StopsSeeding
<1> QED BY <1>3, <1>4, <1>5, <1>6

\* A row goes into the pool, or is left out.
LEMMA SeedRowIInv == ASSUME IInv, SeedRow PROVE IInv'
<1> DEFINE row == Head(seeding.rest)
<1>1. /\ process = "seeding" /\ seeding.rest # << >>
      /\ CleanText(row) => Room(seeding.pool) /\ Add(seeding.pool, row)
      /\ ~CleanText(row) => UNCHANGED pools
      /\ seeding' = [seeding EXCEPT !.rest = Tail(@)]
      /\ UNCHANGED <<known, process, imports, export, seeded, torn, touched, gone>>
    BY DEF SeedRow, CleanText, history
<1>2. PICK id : id = seeding.pool
    OBVIOUS
<1>3. /\ seeding \in SeedState /\ seeding.file \in SeedFile /\ seeded = {}
      /\ id \in DOMAIN pools /\ pools[id].squares \in Seq(Text)
      /\ \A k \in DOMAIN seeding.file : seeding.file[k] \in Rows
    BY <1>1, <1>2, SeedingFacts, ControlFacts DEF IInv, Control
<1>4. /\ seeding.rest \in Rows /\ row \in RowText /\ Tail(seeding.rest) \in Rows
      /\ DOMAIN seeding.rest = 1 .. Len(seeding.rest) /\ row = seeding.rest[1]
    BY <1>1, <1>3 DEF SeedState, Rows
<1>5. /\ seeding' \in SeedState /\ seeding'.file = seeding.file /\ seeding'.todo = seeding.todo
      /\ seeding'.pool = id /\ seeding'.rest = Tail(seeding.rest)
    BY <1>1, <1>2, <1>3, <1>4 DEF SeedState
<1> HIDE DEF row
<1>6. /\ PoolsInv' /\ DOMAIN pools' = DOMAIN pools
      /\ \A p \in DOMAIN pools : pools'[p].slug = pools[p].slug
      /\ \A p \in DOMAIN pools : p # id => pools'[p] = pools[p]
      /\ CleanText(row) => pools'[id].squares = Append(pools[id].squares, row)
      /\ ~CleanText(row) => pools'[id].squares = pools[id].squares
    <2>1. CASE CleanText(row)
        <3>1. row \in Text /\ Room(id) /\ Add(id, row)
            BY <1>1, <1>2, <1>4, <2>1 DEF CleanText, RowText
        <3> QED BY <1>1, <2>1, <3>1, AddsSquare DEF IInv
    <2>2. CASE ~CleanText(row)
        BY <1>1, <2>2, KeepsPools DEF IInv, PoolsInv
    <2> QED BY <2>1, <2>2
<1>7. Control'
    BY <1>1, <1>2, <1>3, <1>5, <1>6 DEF IInv, Control
<1>8. Filling(id) /\ \A p : (Filling(p) => p = id) /\ (Filling(p)' => p = id)
    BY <1>1, <1>2, <1>5 DEF Filling
\* One more row of the key is accounted for.
<1>9. ASSUME pools[id].slug \notin touched
      PROVE  \E k \in KeysOf(seeding.file, pools'[id].slug) : \E n \in Nat :
                /\ Remains(seeding'.rest, seeding.file[k], n)
                /\ Filled(pools'[id].squares, seeding.file[k], n)
    <2>1. PICK k \in KeysOf(seeding.file, pools[id].slug), n \in Nat :
            /\ Remains(seeding.rest, seeding.file[k], n)
            /\ Filled(pools[id].squares, seeding.file[k], n)
        BY <1>3, <1>8, <1>9 DEF IInv, Seeds, FillingGoesOn
    <2>2. seeding.file[k] \in Rows
        BY <1>3 DEF KeysOf
    <2>3. row = seeding.file[k][n + 1] /\ Remains(seeding'.rest, seeding.file[k], n + 1)
        BY <1>1, <1>4, <1>5, <2>1, <2>2, RemainsFacts DEF row
    <2>4. Filled(pools'[id].squares, seeding.file[k], n + 1)
        BY <1>3, <1>6, <2>1, <2>2, <2>3, FilledFurther
    <2>5. n + 1 \in Nat /\ k \in KeysOf(seeding.file, pools'[id].slug)
        BY <1>3, <1>6, <2>1
    <2> QED BY <2>3, <2>4, <2>5
<1>10. FillingGoesOn'
    BY <1>5, <1>6, <1>8, <1>9, <1>1, <1>3 DEF FillingGoesOn
<1>11. ASSUME pools[id].slug \notin touched
       PROVE  SomeOf(id)' /\ (~Filling(id)' => AllOf(id)')
    <2>1. PICK k \in KeysOf(seeding.file, pools'[id].slug), n \in Nat :
            /\ Remains(seeding'.rest, seeding.file[k], n)
            /\ Filled(pools'[id].squares, seeding.file[k], n)
        BY <1>9, <1>11
    <2>2. n \in 0 .. Len(seeding.file[k]) /\ seeding.file[k] \in Rows
        BY <1>3, <2>1 DEF Remains, KeysOf
    <2>3. ~Filling(id)' => n = Len(seeding.file[k])
        <3>1. ~Filling(id)' => seeding'.rest = << >>
            BY <1>5 DEF Filling
        <3>2. ASSUME seeding'.rest = << >> PROVE n = Len(seeding.file[k])
            <4>1. Len(seeding'.rest) = 0 /\ Len(seeding.file[k]) \in Nat
                BY <2>2, <3>2 DEF Rows
            <4> QED BY <2>1, <2>2, <4>1 DEF Remains
        <3> QED BY <3>1, <3>2
    <2> QED BY <1>3, <2>1, <2>2, <2>3 DEF SomeOf, AllOf
<1>12. \A p \in DOMAIN pools : p # id => (SomeOf(p)' <=> SomeOf(p)) /\ (AllOf(p)' <=> AllOf(p))
    BY <1>6, SamePool
<1>13. SeedNeverRepeats'
    <2>1. SUFFICES ASSUME NEW p \in DOMAIN pools, pools'[p].squares # << >>,
                          pools[p].slug \notin touched
                   PROVE  SomeOf(p)'
        BY <1>1, <1>6 DEF SeedNeverRepeats, SomeOf
    <2>2. CASE p = id
        BY <1>11, <2>1, <2>2
    <2>3. CASE p # id
        BY <1>6, <1>12, <2>1, <2>3 DEF IInv, Seeds, SeedNeverRepeats, SomeOf
    <2> QED BY <2>2, <2>3
<1>14. FilledAreWhole'
    <2>1. SUFFICES ASSUME NEW p \in DOMAIN pools, pools'[p].squares # << >>,
                          pools[p].slug \notin touched \cup torn, ~Filling(p)'
                   PROVE  AllOf(p)'
        BY <1>1, <1>6 DEF FilledAreWhole
    <2>2. CASE p = id
        BY <1>11, <2>1, <2>2
    <2>3. CASE p # id
        BY <1>6, <1>8, <1>12, <2>1, <2>3 DEF IInv, Seeds, FilledAreWhole
    <2> QED BY <2>2, <2>3
<1>15. NamedAreThere'
    <2>1. SUFFICES ASSUME NEW k \in DOMAIN seeding.file \ seeding.todo,
                          CleanSlug[k.name] \notin torn \cup touched
                   PROVE  \E p \in DOMAIN pools' :
                            /\ pools'[p].slug = CleanSlug[k.name]
                            /\ pools'[p].squares = << >> =>
                                 NoText(seeding.file[k]) \/ (Filling(p)' /\ ~NoText(seeding'.rest))
        BY <1>1, <1>5 DEF NamedAreThere
    <2>2. PICK p \in DOMAIN pools :
            /\ pools[p].slug = CleanSlug[k.name]
            /\ pools[p].squares = << >> =>
                 NoText(seeding.file[k]) \/ (Filling(p) /\ ~NoText(seeding.rest))
        BY <2>1 DEF IInv, Seeds, NamedAreThere
    <2>3. ASSUME pools'[p].squares = << >>, ~NoText(seeding.file[k])
          PROVE  Filling(p)' /\ ~NoText(seeding'.rest)
        <3>1. ~CleanText(row) \/ p # id
            BY <1>3, <1>6, <2>3
        <3>2. pools[p].squares = << >>
            BY <1>6, <2>3, <3>1
        <3>3. p = id /\ ~NoText(seeding.rest) /\ ~CleanText(row)
            BY <1>8, <2>2, <2>3, <3>1, <3>2
        <3>4. PICK j \in 1 .. Len(seeding.rest) : CleanText(seeding.rest[j])
            BY <1>4, <3>3 DEF NoText
        <3>5. j # 1
            BY <1>4, <3>3, <3>4
        <3>6. j - 1 \in DOMAIN Tail(seeding.rest) /\ Tail(seeding.rest)[j - 1] = seeding.rest[j]
            <4>1. /\ Len(Tail(seeding.rest)) = Len(seeding.rest) - 1
                  /\ DOMAIN Tail(seeding.rest) = 1 .. Len(Tail(seeding.rest))
                  /\ \A l \in 1 .. Len(seeding.rest) - 1 : Tail(seeding.rest)[l] = seeding.rest[l + 1]
                BY <1>1, <1>4 DEF Rows
            <4>2. Len(seeding.rest) \in Nat /\ j - 1 \in 1 .. Len(seeding.rest) - 1 /\ (j - 1) + 1 = j
                BY <1>4, <3>4, <3>5 DEF Rows
            <4> QED BY <4>1, <4>2
        <3>7. ~NoText(seeding'.rest)
            BY <1>5, <3>4, <3>6 DEF NoText
        <3>8. seeding'.rest # << >>
            BY <3>7 DEF NoText
        <3> QED BY <1>5, <3>3, <3>7, <3>8 DEF Filling
    <2> QED BY <1>6, <2>2, <2>3
<1>16. SeededPoolsAreWhole'
    BY <1>1, <1>3 DEF SeededPoolsAreWhole
<1> QED BY <1>6, <1>7, <1>10, <1>13, <1>14, <1>15, <1>16 DEF IInv, Seeds

LEMMA SeedFailsIInv == ASSUME IInv, SeedFails PROVE IInv'
<1>1. /\ process = "seeding" /\ process' = "up" /\ seeding' = NoSeeding /\ torn' = torn \cup Torn
      /\ UNCHANGED <<known, pools, imports, export, seeded, touched, gone>>
    BY DEF SeedFails
<1>2. seeded = {} /\ seeded' = {}
    BY <1>1, SeedingFacts
<1>3. SeededPoolsAreWhole'
    BY <1>2 DEF SeededPoolsAreWhole
<1> QED BY <1>1, <1>2, <1>3, ControlFacts, StopsSeeding

\* What the file names is there, and whole.
LEMMA SeedDoneIInv == ASSUME IInv, SeedDone PROVE IInv'
<1>1. /\ process = "seeding" /\ seeding.todo = {} /\ seeding.rest = << >>
      /\ process' = "up" /\ seeding' = NoSeeding /\ seeded' = {seeding.file}
      /\ UNCHANGED <<known, pools, imports, export, torn, touched, gone>>
    BY DEF SeedDone
<1>2. /\ seeding.file \in SeedFile /\ \A k \in DOMAIN seeding.file : seeding.file[k] \in Rows
    BY <1>1, SeedingFacts
<1>3. Torn = {} /\ \A p : ~Filling(p)
    BY <1>1 DEF Torn, Filling
<1>4. ASSUME NEW named \in DOMAIN seeding.file, CleanSlug[named.name] \notin torn \cup touched
      PROVE  \E p \in DOMAIN pools :
               /\ pools[p].slug = CleanSlug[named.name] /\ AllOf(p)
               /\ pools[p].squares = << >> => NoText(seeding.file[named])
    <2>1. PICK p \in DOMAIN pools : /\ pools[p].slug = CleanSlug[named.name]
                                    /\ pools[p].squares = << >> => NoText(seeding.file[named])
        BY <1>1, <1>3, <1>4 DEF IInv, Seeds, NamedAreThere
    <2>2. CASE pools[p].squares # << >>
        <3>1. AllOf(p)
            BY <1>3, <1>4, <2>1, <2>2 DEF IInv, Seeds, FilledAreWhole
        <3> QED BY <2>1, <3>1
    <2>3. CASE pools[p].squares = << >>
        <3>1. named \in KeysOf(seeding.file, pools[p].slug)
            BY <2>1 DEF KeysOf
        <3>2. Filled(pools[p].squares, seeding.file[named], Len(seeding.file[named]))
            BY <1>2, <2>1, <2>3, FilledWithNothing
        <3>3. AllOf(p)
            BY <1>2, <3>1, <3>2 DEF AllOf
        <3> QED BY <2>1, <3>3
    <2> QED BY <2>2, <2>3
<1>5. SeededPoolsAreWhole'
    <2>1. \A p : AllOf(p)' <=> AllOf(p)
        BY <1>1, SamePool
    <2>2. SUFFICES ASSUME NEW named \in DOMAIN seeding.file,
                          CleanSlug[named.name] \notin torn \cup touched
                   PROVE  \E p \in DOMAIN pools :
                            /\ pools[p].slug = CleanSlug[named.name] /\ AllOf(p)'
                            /\ pools[p].squares = << >> => NoText(seeding.file[named])
        BY <1>1 DEF SeededPoolsAreWhole, AllOf, NoText
    <2> QED BY <1>4, <2>1, <2>2
<1> QED BY <1>1, <1>2, <1>3, <1>5, ControlFacts, StopsSeeding

\* What the process was doing is not finished.
LEMMA CrashIInv == ASSUME IInv, Crash PROVE IInv'
<1>1. /\ process' = "down" /\ seeded' = {} /\ seeding' = NoSeeding /\ torn' = torn \cup Torn
      /\ imports' = [i \in Import |-> Idle] /\ export' = NoExport
      /\ UNCHANGED <<known, pools, touched, gone>>
    BY DEF Crash
<1>2. imports' \in [Import -> {Idle} \cup Command] /\ \A i \in Import : imports'[i] = Idle
    BY <1>1
<1>3. export' \in Listing
    BY <1>1 DEF NoExport, Listing
<1>4. SeededPoolsAreWhole'
    BY <1>1 DEF SeededPoolsAreWhole
<1> QED BY <1>1, <1>2, <1>3, <1>4, StopsSeeding

--------------------------------------------------------------------------------
(* All steps. *)

LEMMA InitIInv == ASSUME Init PROVE IInv
<1>1. /\ known = FALSE /\ pools = << >> /\ process = "down" /\ seeding = NoSeeding
      /\ imports = [i \in Import |-> Idle] /\ export = NoExport
      /\ seeded = {} /\ torn = {} /\ touched = {} /\ gone = {}
    BY DEF Init
<1>2. DOMAIN pools = {} /\ pools \in [DOMAIN pools -> PoolRow]
    BY <1>1
<1>3. QuotasHold
    <2>1. {p \in DOMAIN pools : pools[p].slug \notin ToSet(DefaultPools)} = {}
        BY <1>2
    <2> QED BY <1>2, <2>1, FS_EmptySet, DataAssumption DEF QuotasHold
<1>4. PoolsInv
    BY <1>1, <1>2, <1>3 DEF PoolsInv, DeletedPoolsStayDeleted
<1>5. /\ seeding.file = << >> /\ seeding.todo = {} /\ seeding.rest = << >>
      /\ DOMAIN seeding.file = {} /\ seeding \in SeedState
    BY <1>1 DEF NoSeeding, SeedState, Rows
<1>6. export \in Listing
    BY <1>1 DEF NoExport, Listing
<1>7. Control
    BY <1>1, <1>5, <1>6 DEF Control
<1>8. Seeds
    BY <1>1, <1>2, <1>5
    DEF Seeds, SeedNeverRepeats, FilledAreWhole, FillingGoesOn, NamedAreThere, SeededPoolsAreWhole
<1> QED BY <1>4, <1>7, <1>8 DEF IInv

LEMMA NextIInv == ASSUME IInv, [Next]_vars PROVE IInv'
<1>1. CASE EnsureGuild
    BY <1>1, EnsureGuildIInv
<1>2. CASE Seeding
    <2>1. CASE StartUnseeded
        BY <2>1, StartUnseededIInv
    <2>2. CASE \E file \in SeedFile : StartSeeding(file)
        BY <2>2, StartSeedingIInv
    <2>3. CASE \E k \in NextKeys(seeding.todo) : SeedPool(k)
        BY <2>3, SeedPoolIInv
    <2>4. CASE SeedRow \/ SeedFails \/ SeedDone
        BY <2>4, SeedRowIInv, SeedFailsIInv, SeedDoneIInv
    <2> QED BY <1>2, <2>1, <2>2, <2>3, <2>4 DEF Seeding
<1>3. CASE Crash
    BY <1>3, CrashIInv
<1>4. ASSUME NEW i \in Import, Importing(i) PROVE IInv'
    <2>1. CASE \E file \in ImportFile : Begin(i, file)
        BY <2>1, BeginIInv
    <2>2. CASE \E k \in Key : Find(i, k) \/ Create(i, k)
        BY <2>2, FindIInv, CreateIInv
    <2>3. CASE Row(i) \/ ImportDone(i) \/ ImportFails(i) \/ Cancel(i)
        BY <2>3, RowIInv, ImportEndsIInv, CancelIInv
    <2> QED BY <1>4, <2>1, <2>2, <2>3 DEF Importing
<1>5. CASE Exporting
    BY <1>5, ExportingIInv
<1>6. CASE Editing
    <2>1. CASE \E name \in Name : CreatePool(name)
        BY <2>1, CreatePoolIInv
    <2>2. ASSUME NEW id \in DOMAIN pools, DeletePool(id) \/ ClearPool(id) PROVE IInv'
        BY <2>2, DeletePoolIInv, ClearPoolIInv
    <2>3. ASSUME NEW id \in DOMAIN pools, NEW text \in Text, AddEntry(id, text) PROVE IInv'
        BY <2>3, AddEntryIInv
    <2>4. ASSUME NEW id \in DOMAIN pools, NEW n \in DOMAIN pools[id].squares,
                 RemoveEntry(id, n) \/ \E text \in Text : EditEntry(id, n, text)
          PROVE  IInv'
        BY <2>4, RemoveEntryIInv, EditEntryIInv
    <2> QED BY <1>6, <2>1, <2>2, <2>3, <2>4 DEF Editing
<1>7. CASE UNCHANGED vars
    <2>1. UNCHANGED <<known, pools, process, seeding, imports, export, seeded, torn, touched, gone>>
        BY <1>7 DEF vars, history
    <2>2. PoolsInv'
        BY <2>1, KeepsPools DEF IInv, PoolsInv
    <2>3. Control'
        BY <2>1 DEF IInv, Control
    <2>4. Seeds'
        BY <2>1 DEF IInv, Seeds, SeedNeverRepeats, FilledAreWhole, FillingGoesOn, NamedAreThere,
                    SeededPoolsAreWhole, Filling, AllOf
    <2> QED BY <2>2, <2>3, <2>4 DEF IInv
<1> QED BY <1>1, <1>2, <1>3, <1>4, <1>5, <1>6, <1>7 DEF Next

LEMMA AlwaysIInv == Spec => []IInv
<1>1. Init => IInv
    BY InitIInv
<1>2. IInv /\ [Next]_vars => IInv'
    BY NextIInv
<1> QED BY <1>1, <1>2, PTL DEF Spec

LEMMA IInvTypeOK == ASSUME IInv PROVE TypeOK
<1>1. \A p \in DOMAIN pools : pools[p] \in PoolRow
    BY ControlFacts
<1>2. seeding.rest \in Rows /\ (seeding.rest # << >> => process = "seeding")
    BY DEF IInv, Control, SeedState, NoSeeding
<1>3. \A i \in Import : imports[i].pc \in {"idle", "pools", "create", "failed", "done"}
    BY DEF IInv, Control, Idle, Command, CommandRecord
<1>4. export.pc \in {"idle", "pools", "done"}
    BY DEF IInv, Control, Listing
<1> QED BY <1>1, <1>2, <1>3, <1>4 DEF TypeOK, IInv, PoolsInv, Control

\* The variables keep their types, and a process that is down or starting serves no
\* command (main.go run; Service.ImportData, ApplySeed).
THEOREM TypeCorrect == Spec => []TypeOK
BY AlwaysIInv, IInvTypeOK, PTL

\* Whatever runs at the same time and wherever it is cut short, no pool has more
\* squares than MaxEntriesPerPool and no guild more pools than MaxPools besides the
\* default ones (Store.AddEntry, CreatePool).
THEOREM QuotasAreKept == Spec => []QuotasHold
<1>1. IInv => QuotasHold
    BY DEF IInv, PoolsInv
<1> QED BY <1>1, AlwaysIInv, PTL

\* A pool an admin deleted is not there again until someone names it: no start of the
\* process and no command restores it with the default pools (Store.EnsureGuild).
THEOREM NothingDeletedReturns == Spec => []DeletedPoolsStayDeleted
<1>1. IInv => DeletedPoolsStayDeleted
    BY DEF IInv, PoolsInv
<1> QED BY <1>1, AlwaysIInv, PTL

\* However often the process starts, and with whatever files, seeding writes no row
\* of a key twice, out of order or beside the rows of another key (Store.ApplySeed).
THEOREM NothingIsSeededTwice == Spec => []SeedNeverRepeats
<1>1. IInv => SeedNeverRepeats
    BY DEF IInv, Seeds
<1> QED BY <1>1, AlwaysIInv, PTL

\* A file applied to its end has filled the pools it names, each with all the rows a
\* seed file has for it, but for those a start was killed in the middle of, or gave
\* up on (Store.ApplySeed, seedPoolIfEmpty).
THEOREM SeedingIsWhole == Spec => []SeededPoolsAreWhole
<1>1. IInv => SeededPoolsAreWhole
    BY DEF IInv, Seeds
<1> QED BY <1>1, AlwaysIInv, PTL

--------------------------------------------------------------------------------
(* What adding the rows of a file comes to. *)

LEMMA MinFacts ==
    ASSUME NEW a \in Nat, NEW b \in Nat
    PROVE  Min({a, b}) = IF a <= b THEN a ELSE b
<1> DEFINE least == IF a <= b THEN a ELSE b
<1>1. least \in {a, b} /\ \A y \in {a, b} : least <= y
    OBVIOUS
<1>2. \A x \in {a, b} : (\A y \in {a, b} : x <= y) => x = least
    OBVIOUS
<1> HIDE DEF least
<1>3. Min({a, b}) = least
    BY <1>1, <1>2 DEF Min
<1> QED BY <1>3 DEF least

\* Nothing has been added at first.
LEMMA GrownAtFirst ==
    ASSUME NEW rows \in Rows, NEW squares \in Seq(Text), Len(squares) <= MaxEntriesPerPool
    PROVE  Grown(squares, squares, rows, 0)
<1>1. Kept(rows, 0) = 0
    <2>1. Filled(<< >>, rows, 0) /\ Len(<< >>) = 0
        BY FilledWithNothing
    <2> QED BY <2>1 DEF Filled
<1>2. /\ MaxEntriesPerPool \in Nat /\ Len(squares) \in Nat
      /\ Len(squares) + Kept(rows, 0) = Len(squares)
    BY <1>1, DataAssumption
<1>3. Min({Len(squares), MaxEntriesPerPool}) = Len(squares)
    BY <1>2, MinFacts
<1>4. \A i \in 1 .. 0 : FALSE
    OBVIOUS
<1> QED BY <1>2, <1>3, <1>4 DEF Grown

\* A row more goes in, if it is one and there is room.
LEMMA GrownFurther ==
    ASSUME NEW rows \in Rows, NEW n \in Nat, NEW squares \in Seq(Text), NEW longer \in Seq(Text),
           Grown(longer, squares, rows, n)
    PROVE  /\ Len(longer) <= MaxEntriesPerPool
           /\ ~CleanText(rows[n + 1]) => Grown(longer, squares, rows, n + 1)
           /\ CleanText(rows[n + 1]) /\ Len(longer) < MaxEntriesPerPool =>
                Grown(Append(longer, rows[n + 1]), squares, rows, n + 1)
           /\ CleanText(rows[n + 1]) /\ ~(Len(longer) < MaxEntriesPerPool) =>
                Grown(longer, squares, rows, n + 1)
<1> DEFINE place(i) == Len(squares) + Kept(rows, i)
<1>1. /\ MaxEntriesPerPool \in Nat /\ Len(squares) \in Nat /\ Len(longer) \in Nat
      /\ Kept(rows, n) \in Nat /\ n + 1 \in Nat /\ DOMAIN squares = 1 .. Len(squares)
    BY KeptFacts, DataAssumption
<1>2. /\ Len(longer) = IF place(n) <= MaxEntriesPerPool THEN place(n) ELSE MaxEntriesPerPool
      /\ \A j \in 1 .. Len(squares) : longer[j] = squares[j]
      /\ \A i \in 1 .. n : CleanText(rows[i]) /\ place(i) <= MaxEntriesPerPool
                             => longer[place(i)] = rows[i]
    <2>1. place(n) \in Nat
        BY <1>1
    <2>2. Min({place(n), MaxEntriesPerPool})
            = IF place(n) <= MaxEntriesPerPool THEN place(n) ELSE MaxEntriesPerPool
        BY <1>1, <2>1, MinFacts
    <2> QED BY <1>1, <2>2 DEF Grown
<1>3. \A i \in 1 .. n : /\ place(i) \in Nat /\ place(i) <= place(n)
                        /\ CleanText(rows[i]) => place(i) > Len(squares)
    <2>1. \A i \in 1 .. n : /\ Kept(rows, i) \in Nat /\ Kept(rows, i) <= Kept(rows, n)
                            /\ CleanText(rows[i]) => Kept(rows, i) >= 1
        BY KeptFacts
    <2> QED BY <1>1, <2>1
<1>4. \A i \in 1 .. n + 1 : i \in 1 .. n \/ i = n + 1
    OBVIOUS
<1>5. /\ CleanText(rows[n + 1]) => place(n + 1) = place(n) + 1
      /\ ~CleanText(rows[n + 1]) => place(n + 1) = place(n)
    <2>1. /\ CleanText(rows[n + 1]) => Kept(rows, n + 1) = Kept(rows, n) + 1
          /\ ~CleanText(rows[n + 1]) => Kept(rows, n + 1) = Kept(rows, n)
        BY KeptFacts
    <2> QED BY <1>1, <2>1
<1>6. /\ place(n) \in Nat /\ place(n + 1) \in Nat
      /\ Min({place(n + 1), MaxEntriesPerPool})
           = IF place(n + 1) <= MaxEntriesPerPool THEN place(n + 1) ELSE MaxEntriesPerPool
    <2>1. place(n) \in Nat /\ place(n + 1) \in Nat
        BY <1>1, <1>5
    <2> QED BY <1>1, <2>1, MinFacts
<1>7. ASSUME NEW new, Len(new) = Min({place(n + 1), MaxEntriesPerPool}),
             \A j \in 1 .. Len(squares) : new[j] = squares[j],
             \A i \in 1 .. n + 1 : CleanText(rows[i]) /\ place(i) <= MaxEntriesPerPool
                                     => new[place(i)] = rows[i]
      PROVE  Grown(new, squares, rows, n + 1)
    BY <1>1, <1>7 DEF Grown
<1> HIDE DEF place
<1>8. Len(longer) <= MaxEntriesPerPool
    BY <1>1, <1>2, <1>6
<1>9. CASE ~CleanText(rows[n + 1])
    <2>1. Len(longer) = Min({place(n + 1), MaxEntriesPerPool})
        BY <1>2, <1>5, <1>6, <1>9
    <2>2. \A i \in 1 .. n + 1 : CleanText(rows[i]) => i \in 1 .. n
        BY <1>4, <1>9
    <2>3. Grown(longer, squares, rows, n + 1)
        BY <1>2, <1>7, <2>1, <2>2
    <2> QED BY <1>8, <1>9, <2>3
<1>10. CASE CleanText(rows[n + 1]) /\ ~(Len(longer) < MaxEntriesPerPool)
    <2>1. Len(longer) = MaxEntriesPerPool /\ place(n) >= MaxEntriesPerPool
        BY <1>1, <1>2, <1>6, <1>10
    <2>2. Len(longer) = Min({place(n + 1), MaxEntriesPerPool}) /\ ~(place(n + 1) <= MaxEntriesPerPool)
        BY <1>1, <1>5, <1>6, <1>10, <2>1
    <2>3. Grown(longer, squares, rows, n + 1)
        BY <1>2, <1>4, <1>7, <2>2
    <2> QED BY <1>10, <2>1, <2>3
<1>11. CASE CleanText(rows[n + 1]) /\ Len(longer) < MaxEntriesPerPool
    <2> DEFINE new == Append(longer, rows[n + 1])
    <2>1. Len(longer) = place(n) /\ place(n) < MaxEntriesPerPool
        BY <1>1, <1>2, <1>6, <1>11
    <2>2. /\ Len(new) = place(n) + 1 /\ new[place(n) + 1] = rows[n + 1]
          /\ \A j \in 1 .. place(n) : new[j] = longer[j]
        BY <1>1, <2>1
    <2>3. place(n) >= Len(squares)
        BY <1>1 DEF place
    <2> HIDE DEF new
    <2>4. Len(new) = Min({place(n + 1), MaxEntriesPerPool})
        BY <1>1, <1>5, <1>6, <1>11, <2>1, <2>2
    <2>5. \A j \in 1 .. Len(squares) : new[j] = squares[j]
        BY <1>1, <1>2, <1>6, <2>2, <2>3
    <2>6. \A i \in 1 .. n : CleanText(rows[i]) => place(i) \in 1 .. place(n)
        BY <1>1, <1>3, <1>6
    <2>7. \A i \in 1 .. n : CleanText(rows[i]) => new[place(i)] = rows[i]
        <3> SUFFICES ASSUME NEW i \in 1 .. n, CleanText(rows[i]) PROVE new[place(i)] = rows[i]
            OBVIOUS
        <3>1. place(i) \in 1 .. place(n) /\ place(i) <= MaxEntriesPerPool
            BY <1>1, <1>3, <1>6, <2>1, <2>6
        <3> QED BY <1>2, <2>2, <3>1
    <2>8. Grown(new, squares, rows, n + 1)
        BY <1>4, <1>5, <1>7, <1>11, <2>2, <2>4, <2>5, <2>7
    <2> QED BY <1>1, <1>2, <1>11, <2>8 DEF new
<1> QED BY <1>9, <1>10, <1>11

\* Sequences one after the other.
LEMMA ConcatFacts ==
    ASSUME NEW rest \in Rows, NEW later \in Rows
    PROVE  /\ rest \o later \in Rows /\ << >> \o later = later
           /\ rest # << >> => /\ rest \o later # << >>
                              /\ Head(rest \o later) = Head(rest)
                              /\ Tail(rest \o later) = Tail(rest) \o later
<1>1. rest \in Seq(RowText) /\ later \in Seq(RowText)
    BY DEF Rows
<1>2. rest \o later \in Rows /\ << >> \o later = later
    BY <1>1, ConcatEmptySeq DEF Rows
<1>3. ASSUME rest # << >>
      PROVE  /\ rest \o later # << >> /\ Head(rest \o later) = Head(rest)
             /\ Tail(rest \o later) = Tail(rest) \o later
    BY <1>1, <1>3
<1> QED BY <1>2, <1>3

--------------------------------------------------------------------------------
(* What is left of a file for a pool. *)

\* The keys of a bucket that are spellings of a slug.
Spelling(file, keys, slug, bucket) == {k \in keys : k.bucket = bucket /\ CleanSlug[k.name] = slug}

LEMMA RowsForFacts ==
    ASSUME NEW file \in ImportFile, NEW keys \in SUBSET DOMAIN file, NEW slug
    PROVE  /\ RowsFor(file, keys, slug) =
                RowsUnder(file, Spelling(file, keys, slug, "instance"))
                  \o RowsUnder(file, Spelling(file, keys, slug, "shared"))
           /\ RowsFor(file, keys, slug) \in Rows
           /\ slug \notin {CleanSlug[k.name] : k \in keys} => RowsFor(file, keys, slug) = << >>
<1>1. RowsFor(file, keys, slug) =
        RowsUnder(file, Spelling(file, keys, slug, "instance"))
          \o RowsUnder(file, Spelling(file, keys, slug, "shared"))
    BY DEF RowsFor, Spelling
<1>2. << >> \in Seq(RowText) /\ \A k \in DOMAIN file : file[k] \in Seq(RowText)
    BY DataAssumption DEF Rows
<1>3. \A some \in SUBSET keys : RowsUnder(file, some) \in Seq(RowText)
    <2> SUFFICES ASSUME NEW some \in SUBSET keys PROVE RowsUnder(file, some) \in Seq(RowText)
        OBVIOUS
    <2>1. some # {} => (CHOOSE k \in some : TRUE) \in some
        OBVIOUS
    <2> QED BY <1>2, <2>1 DEF RowsUnder
<1>4. /\ Spelling(file, keys, slug, "instance") \in SUBSET keys
      /\ Spelling(file, keys, slug, "shared") \in SUBSET keys
    BY DEF Spelling
<1>5. RowsFor(file, keys, slug) \in Rows
    BY <1>1, <1>3, <1>4 DEF Rows
<1>6. ASSUME slug \notin {CleanSlug[k.name] : k \in keys} PROVE RowsFor(file, keys, slug) = << >>
    <2>1. /\ Spelling(file, keys, slug, "instance") = {}
          /\ Spelling(file, keys, slug, "shared") = {}
        BY <1>6 DEF Spelling
    <2>2. RowsFor(file, keys, slug) = << >> \o << >>
        BY <1>1, <2>1 DEF RowsUnder
    <2>3. << >> \in Seq(Text) /\ << >> \o << >> = << >>
        BY ConcatEmptySeq
    <2> QED BY <2>2, <2>3
<1> QED BY <1>1, <1>5, <1>6

\* The rows of the next key come first.
LEMMA TakingRows ==
    ASSUME NEW file \in ImportFile, Unambiguous(file), NEW keys \in SUBSET DOMAIN file,
           NEW k \in NextKeys(keys), NEW slug
    PROVE  RowsFor(file, keys, slug) =
             IF CleanSlug[k.name] = slug THEN file[k] \o RowsFor(file, keys \ {k}, slug)
             ELSE RowsFor(file, keys \ {k}, slug)
<1>1. k \in keys /\ k \in Key /\ (k.bucket = "shared" => \A other \in keys : other.bucket = "shared")
    BY DataAssumption DEF NextKeys
<1>2. file[k] \in Seq(RowText)
    BY <1>1, DataAssumption DEF Rows
<1>3. CASE CleanSlug[k.name] # slug
    <2>1. \A bucket : Spelling(file, keys, slug, bucket) = Spelling(file, keys \ {k}, slug, bucket)
        BY <1>3 DEF Spelling
    <2>2. RowsFor(file, keys, slug) = RowsFor(file, keys \ {k}, slug)
        <3>1. keys \ {k} \in SUBSET DOMAIN file
            OBVIOUS
        <3>2. RowsFor(file, keys, slug) =
                RowsUnder(file, Spelling(file, keys, slug, "instance"))
                  \o RowsUnder(file, Spelling(file, keys, slug, "shared"))
            BY RowsForFacts
        <3>3. RowsFor(file, keys \ {k}, slug) =
                RowsUnder(file, Spelling(file, keys \ {k}, slug, "instance"))
                  \o RowsUnder(file, Spelling(file, keys \ {k}, slug, "shared"))
            BY <3>1, RowsForFacts
        <3>4. /\ Spelling(file, keys, slug, "instance") = Spelling(file, keys \ {k}, slug, "instance")
              /\ Spelling(file, keys, slug, "shared") = Spelling(file, keys \ {k}, slug, "shared")
            BY <2>1
        <3> QED BY <3>2, <3>3, <3>4, Zenon
    <2> QED BY <1>3, <2>2
<1>4. CASE CleanSlug[k.name] = slug
    <2>1. /\ Spelling(file, keys, slug, k.bucket) = {k}
          /\ Spelling(file, keys \ {k}, slug, k.bucket) = {}
        BY <1>1, <1>4 DEF Spelling, Unambiguous
    <2>2. \A bucket : bucket # k.bucket =>
            Spelling(file, keys, slug, bucket) = Spelling(file, keys \ {k}, slug, bucket)
        BY <1>4 DEF Spelling
    <2>3. RowsUnder(file, {k}) = file[k] /\ RowsUnder(file, {}) = << >>
        <3>1. (CHOOSE l \in {k} : TRUE) = k /\ {k} # {}
            OBVIOUS
        <3> QED BY <3>1 DEF RowsUnder
    <2>4. << >> \in Seq(RowText) /\ << >> \o << >> = << >>
        BY ConcatEmptySeq
    <2>5. CASE k.bucket = "instance"
        <3> DEFINE others == RowsUnder(file, Spelling(file, keys \ {k}, slug, "shared"))
        <3>1. /\ RowsFor(file, keys, slug) = file[k] \o others
              /\ RowsFor(file, keys \ {k}, slug) = << >> \o others
            BY <2>1, <2>2, <2>3, <2>5, RowsForFacts
        <3>2. others \in Seq(RowText)
            <4>1. Spelling(file, keys \ {k}, slug, "shared") \in SUBSET DOMAIN file
                BY DEF Spelling
            <4> QED BY <4>1, DataAssumption, <2>4 DEF RowsUnder, Rows
        <3> QED BY <1>4, <3>1, <3>2, ConcatEmptySeq
    <2>6. CASE k.bucket = "shared"
        <3>1. /\ Spelling(file, keys, slug, "instance") = {}
              /\ Spelling(file, keys \ {k}, slug, "instance") = {}
            BY <1>1, <2>6 DEF Spelling
        <3>2. /\ RowsFor(file, keys, slug) = << >> \o file[k]
              /\ RowsFor(file, keys \ {k}, slug) = << >> \o << >>
            BY <2>1, <2>3, <2>6, <3>1, RowsForFacts
        <3> QED BY <1>2, <1>4, <2>4, <3>2, ConcatEmptySeq
    <2> QED BY <1>1, <2>5, <2>6 DEF Key, Bucket
<1> QED BY <1>3, <1>4

\* The places of the rows, and those of a key less.
LEMMA PlacesFacts ==
    ASSUME NEW file \in ImportFile, NEW keys \in SUBSET DOMAIN file
    PROVE  /\ IsFiniteSet(RowsAt(file, keys)) /\ Cardinality(RowsAt(file, keys)) \in Nat
           /\ Cardinality(RowsAt(file, {})) = 0
           /\ \A k \in keys : Cardinality(RowsAt(file, keys)) =
                                Len(file[k]) + Cardinality(RowsAt(file, keys \ {k}))
<1>1. ASSUME NEW k \in DOMAIN file
      PROVE  /\ IsFiniteSet({k} \X DOMAIN file[k])
             /\ Cardinality({k} \X DOMAIN file[k]) = Len(file[k])
    <2>1. file[k] \in Rows
        BY DataAssumption
    <2>2. DOMAIN file[k] = 1 .. Len(file[k]) /\ Len(file[k]) \in Nat
        BY <2>1 DEF Rows
    <2>3. IsFiniteSet(DOMAIN file[k]) /\ Cardinality(DOMAIN file[k]) = Len(file[k])
        BY <2>2, FS_Interval
    <2>4. IsFiniteSet({k}) /\ Cardinality({k}) = 1
        BY FS_Singleton
    <2>5. /\ IsFiniteSet({k} \X DOMAIN file[k])
          /\ Cardinality({k} \X DOMAIN file[k]) = 1 * Len(file[k])
        BY <2>3, <2>4, FS_Product
    <2>6. \A n \in Nat : 1 * n = n
        OBVIOUS
    <2> QED BY <2>2, <2>5, <2>6, Zenon
<1>2. ASSUME NEW some \in SUBSET DOMAIN file
      PROVE  IsFiniteSet(RowsAt(file, some)) /\ Cardinality(RowsAt(file, some)) \in Nat
    <2> DEFINE parts == {{k} \X DOMAIN file[k] : k \in some}
               part == [k \in some |-> {k} \X DOMAIN file[k]]
    <2>1. IsFiniteSet(some)
        BY DataAssumption, FS_Subset
    <2>2. part \in Surjection(some, parts)
        BY DEF Surjection
    <2>3. \A T \in parts : IsFiniteSet(T)
        BY <1>1
    <2>4. RowsAt(file, some) = UNION parts
        BY DEF RowsAt
    <2> HIDE DEF parts, part
    <2>5. IsFiniteSet(parts)
        BY <2>1, <2>2, FS_Surjection
    <2>6. IsFiniteSet(UNION parts)
        BY <2>3, <2>5, FS_UNION
    <2> QED BY <2>4, <2>6, FS_CardinalityType
<1>3. Cardinality(RowsAt(file, {})) = 0
    <2>1. RowsAt(file, {}) = {}
        BY DEF RowsAt
    <2> QED BY <2>1, FS_EmptySet
<1>4. ASSUME NEW k \in keys
      PROVE  Cardinality(RowsAt(file, keys)) = Len(file[k]) + Cardinality(RowsAt(file, keys \ {k}))
    <2> DEFINE here == {k} \X DOMAIN file[k]
               there == RowsAt(file, keys \ {k})
    <2>1. RowsAt(file, keys) = here \cup there /\ here \cap there = {}
        BY DEF RowsAt
    <2>2. /\ IsFiniteSet(here) /\ Cardinality(here) = Len(file[k]) /\ Len(file[k]) \in Nat
          /\ IsFiniteSet(there) /\ Cardinality(there) \in Nat
        BY <1>1, <1>2, FS_CardinalityType
    <2> HIDE DEF here, there
    <2>3. Cardinality(here \cup there) = Cardinality(here) + Cardinality(there) - Cardinality(here \cap there)
        BY <2>2, FS_Union
    <2>4. Cardinality(here \cap there) = 0
        BY <2>1, FS_EmptySet
    <2>5. Cardinality(RowsAt(file, keys)) = Len(file[k]) + Cardinality(there)
        BY <2>1, <2>2, <2>3, <2>4
    <2> QED BY <2>5 DEF there
<1> QED BY <1>2, <1>3, <1>4

--------------------------------------------------------------------------------
(* Imports and exports in progress.                                             *)

\* What a command has still to add to the pool with this id and slug.
Awaits(command, id, slug) ==
    (IF command.pool = id THEN command.rest ELSE << >>)
      \o RowsFor(command.file, command.todo, slug)

\* The pool has got the rows of the file that it does not await, and no others.
Along(command, data, id, pool) ==
    LET rows == RowsFor(command.file, DOMAIN command.file, pool.slug)
    IN  \E n \in Nat : /\ Remains(Awaits(command, id, pool.slug), rows, n)
                       /\ Grown(pool.squares, SquaresIn(data, pool.slug), rows, n)

\* The pools are those of the data and those the file has named so far.
Going(command, data, table) ==
    /\ SlugsOf(table) = {d.slug : d \in data}
                          \cup {CleanSlug[k.name] : k \in DOMAIN command.file \ command.todo}
    /\ command.rest # << >> => command.pool \in DOMAIN table
    /\ \A p \in DOMAIN table : Along(command, data, p, table[p])

\* What is left of a command where its answer or a pool to be made is due.
Shaped(command) ==
    /\ command.pc = "create" =>
         command.rest = << >> /\ command.making \subseteq NextKeys(command.todo)
    /\ command.pc = "done" => command.rest = << >> /\ command.todo = {}

\* Every row of the file has been counted, or is still to come.
Accounted(command) ==
    command.inserted + command.skipped + Len(command.rest)
        + Cardinality(RowsAt(command.file, command.todo))
      = Cardinality(RowsAt(command.file, DOMAIN command.file))

OnCourse(command, mark, table) ==
    command.pc \in {"pools", "create", "done"} =>
        /\ Shaped(command) /\ Accounted(command)
        /\ mark.undisturbed /\ ~command.cancelled /\ Unambiguous(command.file) =>
             Going(command, mark.data, table)

\* What an export nothing disturbed has read is what there is.
Listed ==
    since[Exporter].undisturbed /\ export.pc # "idle" =>
        /\ export.out \subseteq Contents
        /\ \A entry \in export.left :
             entry.id \in DOMAIN pools /\ entry.slug = pools[entry.id].slug
        /\ \A p \in DOMAIN pools :
             pools[p] \in export.out \/ [id |-> p, slug |-> pools[p].slug] \in export.left
        /\ export.pc = "done" => export.left = {}

Mark == {Disturbed} \cup {Undisturbed(data) : data \in SUBSET PoolRow}

Commands ==
    /\ since \in [Import \cup {Exporter} -> Mark]
    /\ \A c \in DOMAIN since : since[c].undisturbed => process = "up" /\ known
    /\ \A i \in Import : OnCourse(imports[i], since[i], pools)
    /\ Listed

LEMMA MarkFacts ==
    /\ ~Disturbed.undisturbed /\ Disturbed \in Mark
    /\ \A data \in SUBSET PoolRow : /\ Undisturbed(data) \in Mark /\ Undisturbed(data).undisturbed
                                    /\ Undisturbed(data).data = data
    /\ \A mark \in Mark : /\ mark.undisturbed \in BOOLEAN
                          /\ mark.undisturbed => mark.data \in SUBSET PoolRow
<1>1. Disturbed.undisturbed = FALSE /\ Disturbed \in Mark
    BY DEF Mark, Disturbed
<1>2. ASSUME NEW data \in SUBSET PoolRow
      PROVE  /\ Undisturbed(data) \in Mark /\ Undisturbed(data).undisturbed = TRUE
             /\ Undisturbed(data).data = data
    BY DEF Mark, Undisturbed
<1>3. ASSUME NEW mark \in Mark
      PROVE  mark = Disturbed \/ \E data \in SUBSET PoolRow : mark = Undisturbed(data)
    BY DEF Mark
<1> QED BY <1>1, <1>2, <1>3

\* The squares data hold under a slug.
LEMMA SquaresInFacts ==
    ASSUME NEW data \in SUBSET PoolRow, NEW slug
    PROVE  /\ SquaresIn(data, slug) \in Seq(Text)
           /\ slug \notin {d.slug : d \in data} => SquaresIn(data, slug) = << >>
<1> DEFINE named == {d \in data : d.slug = slug}
<1>1. CASE named = {}
    <2>1. SquaresIn(data, slug) = << >>
        BY <1>1 DEF SquaresIn
    <2> QED BY <2>1
<1>2. CASE named # {}
    <2>1. PICK d \in named : SquaresIn(data, slug) = d.squares
        BY <1>2 DEF SquaresIn
    <2>2. d \in PoolRow /\ slug \in {e.slug : e \in data}
        BY <2>1
    <2> QED BY <2>1, <2>2 DEF PoolRow, Squares
<1> QED BY <1>1, <1>2

LEMMA ContentsFacts ==
    ASSUME PoolsInv
    PROVE  /\ Contents \in SUBSET PoolRow
           /\ {d.slug : d \in Contents} = SlugsOf(pools)
           /\ \A p \in DOMAIN pools : SquaresIn(Contents, pools[p].slug) = pools[p].squares
<1>1. Contents \in SUBSET PoolRow /\ {d.slug : d \in Contents} = SlugsOf(pools)
    BY DEF PoolsInv, Contents, SlugsOf
<1>2. ASSUME NEW p \in DOMAIN pools
      PROVE  SquaresIn(Contents, pools[p].slug) = pools[p].squares
    <2>1. {d \in Contents : d.slug = pools[p].slug} = {pools[p]}
        BY DEF PoolsInv, Contents
    <2> QED BY <2>1 DEF SquaresIn
<1> QED BY <1>1, <1>2

\* What a step of one command, and one of nobody, leaves to the others.
LEMMA OthersStay ==
    ASSUME IInv, Commands, NEW i,
           \A j \in Import \ {i} :
             /\ imports'[j] = imports[j]
             /\ since'[j] = Disturbed \/ (since'[j] = since[j] /\ UNCHANGED pools)
    PROVE  \A j \in Import \ {i} : OnCourse(imports'[j], since'[j], pools')
<1> SUFFICES ASSUME NEW j \in Import \ {i} PROVE OnCourse(imports'[j], since'[j], pools')
    OBVIOUS
<1>1. OnCourse(imports[j], since[j], pools)
    BY DEF Commands
<1>2. CASE since'[j] = since[j] /\ UNCHANGED pools
    BY <1>1, <1>2
<1>3. CASE since'[j] = Disturbed
    BY <1>1, <1>3, MarkFacts DEF OnCourse
<1> QED BY <1>2, <1>3

\* The listing of an export is disturbed, or goes on as it is.
LEMMA ListedStays ==
    ASSUME Listed, UNCHANGED export,
           since'[Exporter] = Disturbed \/ (since'[Exporter] = since[Exporter] /\ UNCHANGED pools)
    PROVE  Listed'
<1>1. CASE since'[Exporter] = since[Exporter] /\ UNCHANGED pools
    BY <1>1 DEF Listed, Contents
<1>2. CASE since'[Exporter] = Disturbed
    BY <1>2, MarkFacts DEF Listed
<1> QED BY <1>1, <1>2

LEMMA AwaitsFacts ==
    ASSUME NEW command \in CommandRecord, command.todo \in SUBSET DOMAIN command.file, NEW id, NEW slug
    PROVE  LET rows == RowsFor(command.file, command.todo, slug) IN
           /\ rows \in Rows /\ command.rest \in Rows /\ command.file \in ImportFile
           /\ Awaits(command, id, slug) \in Rows
           /\ command.rest = << >> => Awaits(command, id, slug) = rows
           /\ command.pool # id => Awaits(command, id, slug) = rows
           /\ command.pool = id => Awaits(command, id, slug) = command.rest \o rows
<1> DEFINE rows == RowsFor(command.file, command.todo, slug)
           first == IF command.pool = id THEN command.rest ELSE << >>
<1>1. command.rest \in Rows /\ command.file \in ImportFile
    BY DEF CommandRecord
<1>2. rows \in Rows
    BY <1>1, RowsForFacts
<1>3. << >> \in Rows /\ first \in Rows
    BY <1>1 DEF Rows
<1>4. Awaits(command, id, slug) = first \o rows
    BY DEF Awaits
<1> HIDE DEF rows
<1>5. first \o rows \in Rows /\ << >> \o rows = rows
    BY <1>2, <1>3, ConcatFacts
<1> QED BY <1>1, <1>2, <1>4, <1>5 DEF rows

\* A command that begins has everything before it.
LEMMA BeginsCourse ==
    ASSUME IInv, NEW command \in CommandRecord, command.todo = DOMAIN command.file,
           command.pc = "pools", command.rest = << >>, command.inserted = 0, command.skipped = 0
    PROVE  OnCourse(command, Undisturbed(Contents), pools)
<1>1. command.file \in ImportFile
    BY DEF CommandRecord
<1>2. Shaped(command)
    BY DEF Shaped
<1>3. Accounted(command)
    <2>1. Cardinality(RowsAt(command.file, DOMAIN command.file)) \in Nat /\ Len(<< >>) = 0
        BY <1>1, PlacesFacts
    <2> QED BY <2>1 DEF Accounted
<1>4. Going(command, Contents, pools)
    <2>1. SlugsOf(pools) = {d.slug : d \in Contents}
                             \cup {CleanSlug[k.name] : k \in DOMAIN command.file \ command.todo}
        BY ContentsFacts DEF IInv
    <2>2. ASSUME NEW p \in DOMAIN pools PROVE Along(command, Contents, p, pools[p])
        <3> DEFINE rows == RowsFor(command.file, DOMAIN command.file, pools[p].slug)
                   squares == pools[p].squares
        <3>1. rows \in Rows /\ Awaits(command, p, pools[p].slug) = rows
            BY AwaitsFacts, Zenon
        <3>2. squares \in Seq(Text) /\ Len(squares) <= MaxEntriesPerPool
            BY ControlFacts
        <3>3. SquaresIn(Contents, pools[p].slug) = squares
            BY ContentsFacts DEF IInv
        <3> HIDE DEF rows, squares
        <3>4. Remains(rows, rows, 0) /\ Grown(squares, squares, rows, 0)
            BY <3>1, <3>2, AllRemains, GrownAtFirst
        <3>5. \E n \in Nat : /\ Remains(Awaits(command, p, pools[p].slug), rows, n)
                             /\ Grown(squares, SquaresIn(Contents, pools[p].slug), rows, n)
            BY <3>1, <3>3, <3>4
        <3> QED BY <3>5 DEF Along, rows, squares
    <2> QED BY <2>1, <2>2 DEF Going
<1>5. Undisturbed(Contents).data = Contents
    BY ContentsFacts, MarkFacts DEF IInv
<1> QED BY <1>2, <1>3, <1>4, <1>5 DEF OnCourse

\* The next key is taken up: its rows are what the command has before it.
Takes(command, k, next) ==
    /\ command \in CommandRecord /\ next \in CommandRecord
    /\ command.todo \subseteq DOMAIN command.file /\ k \in NextKeys(command.todo)
    /\ command.rest = << >>
    /\ next.file = command.file /\ next.todo = command.todo \ {k}
    /\ next.rest = command.file[k] /\ next.pc = "pools" /\ next.cancelled = command.cancelled
    /\ next.inserted = command.inserted /\ next.skipped = command.skipped

LEMMA TakesFacts ==
    ASSUME NEW command, NEW k, NEW next, Takes(command, k, next)
    PROVE  /\ command.file \in ImportFile /\ k \in command.todo
           /\ k \in Key /\ CleanSlug[k.name] \in Slug /\ command.file[k] \in Rows
           /\ Accounted(command) => Accounted(next)
           /\ Shaped(next)
<1>1. /\ command.file \in ImportFile /\ k \in command.todo /\ k \in DOMAIN command.file
      /\ command.inserted \in Nat /\ command.skipped \in Nat
    BY DEF Takes, CommandRecord, NextKeys
<1>2. k \in Key /\ CleanSlug[k.name] \in Slug /\ command.file[k] \in Rows
    BY <1>1, DataAssumption DEF Key
<1>3. Accounted(command) => Accounted(next)
    <2>1. command.todo \in SUBSET DOMAIN command.file /\ command.todo \ {k} \in SUBSET DOMAIN command.file
        BY DEF Takes
    <2>2. /\ Cardinality(RowsAt(command.file, command.todo))
               = Len(command.file[k]) + Cardinality(RowsAt(command.file, command.todo \ {k}))
          /\ Cardinality(RowsAt(command.file, command.todo \ {k})) \in Nat
        BY <1>1, <2>1, PlacesFacts
    <2>3. Len(command.file[k]) \in Nat /\ Len(<< >>) = 0
        BY <1>2 DEF Rows
    <2>4. /\ next.file = command.file /\ next.todo = command.todo \ {k}
          /\ next.rest = command.file[k] /\ command.rest = << >>
          /\ next.inserted = command.inserted /\ next.skipped = command.skipped
        BY DEF Takes
    <2> QED BY <1>1, <2>2, <2>3, <2>4 DEF Accounted
<1>4. Shaped(next)
    BY DEF Takes, Shaped
<1> QED BY <1>1, <1>2, <1>3, <1>4

LEMMA TakesAwaits ==
    ASSUME NEW command, NEW k, NEW next, Takes(command, k, next), Unambiguous(command.file),
           NEW id, NEW slug, id = next.pool <=> slug = CleanSlug[k.name]
    PROVE  /\ Awaits(next, id, slug) = RowsFor(command.file, command.todo, slug)
           /\ Awaits(command, id, slug) = RowsFor(command.file, command.todo, slug)
<1> DEFINE later == RowsFor(command.file, command.todo \ {k}, slug)
<1>1. /\ command \in CommandRecord /\ next \in CommandRecord
      /\ command.todo \in SUBSET DOMAIN command.file /\ next.todo \in SUBSET DOMAIN next.file
      /\ command.rest = << >> /\ k \in NextKeys(command.todo) /\ command.file \in ImportFile
    BY DEF Takes, CommandRecord
<1>2. next.file = command.file /\ next.todo = command.todo \ {k} /\ next.rest = command.file[k]
    BY DEF Takes
<1>3. RowsFor(command.file, command.todo, slug) =
        IF CleanSlug[k.name] = slug THEN command.file[k] \o later ELSE later
    BY <1>1, TakingRows
<1>4. Awaits(next, id, slug) = IF next.pool = id THEN command.file[k] \o later ELSE later
    <2>1. /\ next.pool # id => Awaits(next, id, slug) = RowsFor(next.file, next.todo, slug)
          /\ next.pool = id => Awaits(next, id, slug) = next.rest \o RowsFor(next.file, next.todo, slug)
        BY <1>1, AwaitsFacts
    <2> QED BY <1>2, <2>1
<1>5. Awaits(command, id, slug) = RowsFor(command.file, command.todo, slug)
    BY <1>1, AwaitsFacts
<1> HIDE DEF later
<1> QED BY <1>3, <1>4, <1>5

\* ... in a pool that is there ...
LEMMA FindsOnCourse ==
    ASSUME IInv, NEW command, NEW k, NEW next, Takes(command, k, next), command.pc = "pools",
           next.pool \in DOMAIN pools, pools[next.pool].slug = CleanSlug[k.name],
           NEW mark, OnCourse(command, mark, pools)
    PROVE  OnCourse(next, mark, pools)
<1>0. /\ k \in command.todo /\ next.file = command.file /\ next.todo = command.todo \ {k}
      /\ command.todo \subseteq DOMAIN command.file /\ next.cancelled = command.cancelled
    BY TakesFacts DEF Takes
<1>1. Accounted(next) /\ Shaped(next)
    BY TakesFacts DEF OnCourse
<1>2. SUFFICES ASSUME mark.undisturbed, ~command.cancelled, Unambiguous(command.file)
               PROVE  Going(next, mark.data, pools)
    BY <1>0, <1>1 DEF OnCourse
<1>3. Going(command, mark.data, pools)
    BY <1>2 DEF OnCourse
<1>4. SlugsOf(pools) = {d.slug : d \in mark.data}
                         \cup {CleanSlug[l.name] : l \in DOMAIN next.file \ next.todo}
    <2>1. {CleanSlug[l.name] : l \in DOMAIN next.file \ next.todo}
            = {CleanSlug[l.name] : l \in DOMAIN command.file \ command.todo} \cup {CleanSlug[k.name]}
        BY <1>0
    <2>2. CleanSlug[k.name] \in SlugsOf(pools)
        BY DEF SlugsOf
    <2> QED BY <1>3, <2>1, <2>2 DEF Going
<1>5. ASSUME NEW p \in DOMAIN pools PROVE Along(next, mark.data, p, pools[p])
    <2>1. p = next.pool <=> pools[p].slug = CleanSlug[k.name]
        BY DEF IInv, PoolsInv
    <2>2. Awaits(next, p, pools[p].slug) = Awaits(command, p, pools[p].slug)
        BY <1>2, <2>1, TakesAwaits
    <2> QED BY <1>0, <1>3, <2>2 DEF Going, Along
<1> QED BY <1>0, <1>4, <1>5 DEF Going

\* ... or in one made for it.
LEMMA CreatesOnCourse ==
    ASSUME IInv, NEW command, NEW k, NEW next, Takes(command, k, next), command.pc = "create",
           next.pool = NextRowId(pools), CleanSlug[k.name] \notin SlugsOf(pools),
           NEW table, table = Insert(pools, NewPool(CleanSlug[k.name])),
           NEW mark \in Mark, OnCourse(command, mark, pools)
    PROVE  OnCourse(next, mark, table)
<1> DEFINE slug == CleanSlug[k.name]
           id == NextRowId(pools)
<1>0. /\ k \in command.todo /\ slug \in Slug /\ command.file \in ImportFile
      /\ next.file = command.file /\ next.todo = command.todo \ {k}
      /\ command.todo \subseteq DOMAIN command.file /\ next.cancelled = command.cancelled
    BY TakesFacts DEF Takes
<1>1. Accounted(next) /\ Shaped(next)
    BY TakesFacts DEF OnCourse
<1>2. SUFFICES ASSUME mark.undisturbed, ~command.cancelled, Unambiguous(command.file)
               PROVE  Going(next, mark.data, table)
    BY <1>0, <1>1 DEF OnCourse
<1>3. Going(command, mark.data, pools) /\ mark.data \in SUBSET PoolRow
    BY <1>2, MarkFacts DEF OnCourse
<1>4. /\ DOMAIN table = DOMAIN pools \cup {id} /\ id \notin DOMAIN pools
      /\ \A p \in DOMAIN pools : table[p] = pools[p]
      /\ table[id] = [slug |-> slug, squares |-> << >>]
    <2>1. table = Insert(pools, NewPool(slug)) /\ slug \in Slug
        BY <1>0
    <2> HIDE DEF slug
    <2> QED BY <2>1, InsertFacts, NextRowIdFacts DEF IInv
<1>5. SlugsOf(table) = SlugsOf(pools) \cup {slug}
    BY <1>4 DEF SlugsOf
<1>6. SlugsOf(table) = {d.slug : d \in mark.data}
                         \cup {CleanSlug[l.name] : l \in DOMAIN next.file \ next.todo}
    <2>1. {CleanSlug[l.name] : l \in DOMAIN next.file \ next.todo}
            = {CleanSlug[l.name] : l \in DOMAIN command.file \ command.todo} \cup {slug}
        BY <1>0
    <2> QED BY <1>3, <1>5, <2>1 DEF Going
<1>7. ASSUME NEW p \in DOMAIN pools PROVE Along(next, mark.data, p, table[p])
    <2>1. p # next.pool /\ pools[p].slug # slug
        BY <1>4 DEF SlugsOf
    <2>2. Awaits(next, p, pools[p].slug) = Awaits(command, p, pools[p].slug)
        BY <1>0, <1>2, <2>1, TakesAwaits
    <2> QED BY <1>0, <1>3, <1>4, <2>2 DEF Going, Along
\* No row of the file has gone to that slug before.
<1>8. Along(next, mark.data, id, table[id])
    <2> DEFINE rows == RowsFor(command.file, DOMAIN command.file, slug)
    <2>1. slug \notin {d.slug : d \in mark.data} /\ \A l \in DOMAIN command.file :
                                                     CleanSlug[l.name] = slug => l \in command.todo
        BY <1>3 DEF Going
    <2>2. SquaresIn(mark.data, slug) = << >>
        BY <1>3, <2>1, SquaresInFacts
    <2>3. rows \in Rows /\ RowsFor(command.file, command.todo, slug) = rows
        <3>1. \A bucket : Spelling(command.file, command.todo, slug, bucket)
                            = Spelling(command.file, DOMAIN command.file, slug, bucket)
            BY <1>0, <2>1 DEF Spelling
        <3>2. /\ Spelling(command.file, command.todo, slug, "instance")
                   = Spelling(command.file, DOMAIN command.file, slug, "instance")
              /\ Spelling(command.file, command.todo, slug, "shared")
                   = Spelling(command.file, DOMAIN command.file, slug, "shared")
            BY <3>1
        <3>3. RowsFor(command.file, command.todo, slug) =
                RowsUnder(command.file, Spelling(command.file, command.todo, slug, "instance"))
                  \o RowsUnder(command.file, Spelling(command.file, command.todo, slug, "shared"))
            BY <1>0, RowsForFacts
        <3>4. /\ rows \in Rows
              /\ rows =
                RowsUnder(command.file, Spelling(command.file, DOMAIN command.file, slug, "instance"))
                  \o RowsUnder(command.file, Spelling(command.file, DOMAIN command.file, slug, "shared"))
            BY <1>0, RowsForFacts
        <3> QED BY <3>2, <3>3, <3>4, Zenon
    <2>4. Awaits(next, id, slug) = rows
        BY <1>2, <2>3, TakesAwaits
    <2> HIDE DEF rows
    <2>5. Remains(rows, rows, 0) /\ Grown(<< >>, << >>, rows, 0)
        <3>1. << >> \in Seq(Text) /\ Len(<< >>) <= MaxEntriesPerPool
            BY DataAssumption
        <3> QED BY <2>3, <3>1, AllRemains, GrownAtFirst
    <2>6. table[id].slug = slug /\ table[id].squares = << >>
        BY <1>4
    <2>7. \E n \in Nat : /\ Remains(Awaits(next, id, table[id].slug), rows, n)
                         /\ Grown(table[id].squares, SquaresIn(mark.data, table[id].slug), rows, n)
        BY <2>2, <2>4, <2>5, <2>6
    <2>8. rows = RowsFor(next.file, DOMAIN next.file, table[id].slug)
        BY <1>0, <2>6 DEF rows
    <2> QED BY <2>7, <2>8 DEF Along
<1> QED BY <1>0, <1>4, <1>6, <1>7, <1>8 DEF Going

\* The next row is dealt with.
Passes(command, next) ==
    /\ command \in CommandRecord /\ next \in CommandRecord
    /\ command.todo \subseteq DOMAIN command.file
    /\ command.pc = "pools" /\ next.pc = "pools" /\ command.rest # << >>
    /\ next.file = command.file /\ next.todo = command.todo /\ next.pool = command.pool
    /\ next.cancelled = command.cancelled /\ next.rest = Tail(command.rest)
    /\ next.inserted + next.skipped = command.inserted + command.skipped + 1

LEMMA PassesFacts ==
    ASSUME NEW command, NEW next, Passes(command, next)
    PROVE  /\ Shaped(next) /\ (Accounted(command) => Accounted(next))
           /\ command.file \in ImportFile
           /\ Head(command.rest) \in RowText
<1>1. /\ command \in CommandRecord /\ command.rest \in Seq(RowText) /\ command.rest # << >>
      /\ command.inserted \in Nat /\ command.skipped \in Nat /\ command.file \in ImportFile
      /\ next.inserted \in Nat /\ next.skipped \in Nat
      /\ command.todo \in SUBSET DOMAIN command.file
    BY DEF Passes, CommandRecord, Rows
<1>2. /\ Len(Tail(command.rest)) + 1 = Len(command.rest) /\ Len(Tail(command.rest)) \in Nat
      /\ Head(command.rest) \in RowText
    BY <1>1
<1>3. Accounted(command) => Accounted(next)
    <2>1. /\ next.file = command.file /\ next.todo = command.todo /\ next.rest = Tail(command.rest)
          /\ next.inserted + next.skipped = command.inserted + command.skipped + 1
        BY DEF Passes
    <2>2. Cardinality(RowsAt(command.file, command.todo)) \in Nat
        BY <1>1, PlacesFacts
    <2> QED BY <1>1, <1>2, <2>1, <2>2 DEF Accounted
<1>4. Shaped(next)
    BY DEF Passes, Shaped
<1> QED BY <1>1, <1>2, <1>3, <1>4

LEMMA PassesAwaits ==
    ASSUME NEW command, NEW next, Passes(command, next), NEW id, NEW slug
    PROVE  /\ Awaits(command, id, slug) \in Rows
           /\ command.pool # id => Awaits(next, id, slug) = Awaits(command, id, slug)
           /\ command.pool = id =>
                /\ Awaits(command, id, slug) # << >>
                /\ Head(Awaits(command, id, slug)) = Head(command.rest)
                /\ Tail(Awaits(command, id, slug)) = Awaits(next, id, slug)
<1> DEFINE later == RowsFor(command.file, command.todo, slug)
<1>1. /\ command \in CommandRecord /\ next \in CommandRecord
      /\ command.todo \in SUBSET DOMAIN command.file /\ next.todo \in SUBSET DOMAIN next.file
      /\ command.rest # << >>
      /\ next.file = command.file /\ next.todo = command.todo /\ next.pool = command.pool
      /\ next.rest = Tail(command.rest)
    BY DEF Passes
<1>2. /\ later \in Rows /\ command.rest \in Rows /\ Awaits(command, id, slug) \in Rows
      /\ command.pool # id => Awaits(command, id, slug) = later
      /\ command.pool = id => Awaits(command, id, slug) = command.rest \o later
    BY <1>1, AwaitsFacts
<1>3. /\ next.pool # id => Awaits(next, id, slug) = later
      /\ next.pool = id => Awaits(next, id, slug) = next.rest \o later
    BY <1>1, AwaitsFacts
<1> HIDE DEF later
<1>4. /\ command.rest \o later # << >> /\ Head(command.rest \o later) = Head(command.rest)
      /\ Tail(command.rest \o later) = Tail(command.rest) \o later
    BY <1>1, <1>2, ConcatFacts
<1> QED BY <1>1, <1>2, <1>3, <1>4

\* The row has gone into the pool, or is one that does not.
LEMMA PassesOnCourse ==
    ASSUME IInv, NEW command, NEW next, Passes(command, next), NEW mark \in Mark,
           OnCourse(command, mark, pools), NEW table, DOMAIN table = DOMAIN pools,
           \A p \in DOMAIN pools : /\ table[p].slug = pools[p].slug
                                   /\ p # command.pool => table[p] = pools[p],
           \/ /\ CleanText(Head(command.rest)) /\ Room(command.pool)
              /\ table[command.pool].squares
                   = Append(pools[command.pool].squares, Head(command.rest))
           \/ /\ ~(CleanText(Head(command.rest)) /\ ~command.cancelled /\ Room(command.pool))
              /\ table = pools
    PROVE  OnCourse(next, mark, table)
<1> DEFINE id == command.pool
           row == Head(command.rest)
<1>1. /\ next.file = command.file /\ next.todo = command.todo /\ next.pool = command.pool
      /\ next.cancelled = command.cancelled /\ next.pc = "pools" /\ command.pc = "pools"
      /\ command.rest # << >> /\ command.file \in ImportFile
    BY PassesFacts DEF Passes
<1>2. Accounted(next) /\ Shaped(next)
    BY <1>1, PassesFacts DEF OnCourse
<1>3. SUFFICES ASSUME mark.undisturbed, ~command.cancelled, Unambiguous(command.file)
               PROVE  Going(next, mark.data, table)
    BY <1>1, <1>2 DEF OnCourse
<1>4. Going(command, mark.data, pools) /\ mark.data \in SUBSET PoolRow
    BY <1>1, <1>3, MarkFacts DEF OnCourse
<1>5. id \in DOMAIN pools
    BY <1>1, <1>4 DEF Going
<1>6. SlugsOf(table) = SlugsOf(pools)
    BY DEF SlugsOf
<1>7. ASSUME NEW p \in DOMAIN pools, p # id PROVE Along(next, mark.data, p, table[p])
    <2>1. Awaits(next, p, pools[p].slug) = Awaits(command, p, pools[p].slug)
        BY <1>7, PassesAwaits
    <2> QED BY <1>1, <1>4, <1>7, <2>1 DEF Going, Along
<1>8. Along(next, mark.data, id, table[id])
    <2> DEFINE slug == pools[id].slug
               rows == RowsFor(command.file, DOMAIN command.file, slug)
               before == SquaresIn(mark.data, slug)
    <2>1. PICK n \in Nat : /\ Remains(Awaits(command, id, slug), rows, n)
                           /\ Grown(pools[id].squares, before, rows, n)
        BY <1>4, <1>5 DEF Going, Along
    <2>2. rows \in Rows
        BY <1>1, RowsForFacts
    <2>3. before \in Seq(Text) /\ pools[id].squares \in Seq(Text)
        BY <1>4, <1>5, SquaresInFacts, ControlFacts
    <2>4. /\ Awaits(command, id, slug) \in Rows /\ Awaits(command, id, slug) # << >>
          /\ Head(Awaits(command, id, slug)) = row
          /\ Tail(Awaits(command, id, slug)) = Awaits(next, id, slug)
        BY PassesAwaits
    <2> HIDE DEF slug, rows, before, row
    <2>5. row = rows[n + 1] /\ Remains(Awaits(next, id, slug), rows, n + 1)
        <3> DEFINE awaited == Awaits(command, id, slug)
        <3>1. awaited \in Rows /\ awaited # << >> /\ Remains(awaited, rows, n)
            BY <2>1, <2>4
        <3> HIDE DEF awaited
        <3>2. Head(awaited) = rows[n + 1] /\ Remains(Tail(awaited), rows, n + 1)
            BY <2>2, <3>1, RemainsFacts
        <3> QED BY <2>4, <3>2 DEF awaited
    <2>6. Grown(table[id].squares, before, rows, n + 1)
        <3>1. /\ Len(pools[id].squares) <= MaxEntriesPerPool
              /\ ~CleanText(row) => Grown(pools[id].squares, before, rows, n + 1)
              /\ CleanText(row) /\ Len(pools[id].squares) < MaxEntriesPerPool =>
                   Grown(Append(pools[id].squares, row), before, rows, n + 1)
              /\ CleanText(row) /\ ~(Len(pools[id].squares) < MaxEntriesPerPool) =>
                   Grown(pools[id].squares, before, rows, n + 1)
            BY <2>1, <2>2, <2>3, <2>5, GrownFurther
        <3>2. \/ /\ CleanText(row) /\ Room(id)
                 /\ table[id].squares = Append(pools[id].squares, row)
              \/ /\ ~(CleanText(row) /\ Room(id))
                 /\ table[id].squares = pools[id].squares
            BY <1>3 DEF row
        <3> QED BY <1>5, <3>1, <3>2 DEF Room
    <2>7. table[id].slug = slug
        BY <1>5 DEF slug
    <2>8. rows = RowsFor(next.file, DOMAIN next.file, slug)
        BY <1>1 DEF rows
    <2>9. n + 1 \in Nat
        BY <2>1
    <2>10. \E m \in Nat : /\ Remains(Awaits(next, id, table[id].slug), rows, m)
                          /\ Grown(table[id].squares, SquaresIn(mark.data, table[id].slug), rows, m)
        BY <2>5, <2>6, <2>7, <2>9 DEF before
    <2> QED BY <2>7, <2>8, <2>10 DEF Along
<1> QED BY <1>1, <1>4, <1>5, <1>6, <1>7, <1>8 DEF Going

\* Nothing is taken up or dealt with.
LEMMA SameCourse ==
    ASSUME NEW command, NEW next, command.pc \in {"pools", "create", "done"},
           next.file = command.file, next.todo = command.todo, next.pool = command.pool,
           next.rest = command.rest, next.inserted = command.inserted,
           next.skipped = command.skipped, ~next.cancelled => ~command.cancelled,
           Shaped(next), NEW mark, OnCourse(command, mark, pools)
    PROVE  OnCourse(next, mark, pools)
<1>1. Accounted(command) => Accounted(next)
    BY DEF Accounted
<1>2. ASSUME Going(command, mark.data, pools) PROVE Going(next, mark.data, pools)
    BY <1>2 DEF Going, Along, Awaits
<1> QED BY <1>1, <1>2 DEF OnCourse

\* A step of one command.
LEMMA CommandStep ==
    ASSUME IInv, IInv', Commands, NEW i \in Import, UNCHANGED <<known, process, export>>,
           \A j \in Import \ {i} : imports'[j] = imports[j],
           since' \in [Import \cup {Exporter} -> Mark],
           \A c \in (Import \cup {Exporter}) \ {i} :
              since'[c] = Disturbed \/ (since'[c] = since[c] /\ UNCHANGED pools),
           since'[i] = since[i] \/ (process = "up" /\ known),
           imports'[i].pc \in {"pools", "create", "done"} =>
              OnCourse(imports'[i], since'[i], pools')
    PROVE  Commands'
<1>1. since \in [Import \cup {Exporter} -> Mark] /\ Exporter \notin Import
    BY DataAssumption DEF Commands
<1>2. \A c \in DOMAIN since' : since'[c].undisturbed => process' = "up" /\ known'
    <2> SUFFICES ASSUME NEW c \in DOMAIN since', since'[c].undisturbed PROVE process = "up" /\ known
        OBVIOUS
    <2>1. since'[c] = since[c] \/ since'[c] = Disturbed \/ (process = "up" /\ known)
        BY <1>1
    <2> QED BY <1>1, <2>1, MarkFacts DEF Commands
<1>3. \A j \in Import : OnCourse(imports'[j], since'[j], pools')
    <2>1. \A j \in Import \ {i} : OnCourse(imports'[j], since'[j], pools')
        BY OthersStay
    <2>2. OnCourse(imports'[i], since'[i], pools')
        BY DEF OnCourse
    <2> QED BY <2>1, <2>2
<1>4. Listed'
    BY <1>1, ListedStays DEF Commands
<1> QED BY <1>2, <1>3, <1>4 DEF Commands

LEMMA NextCommand ==
    ASSUME IInv', NEW i \in Import, imports'[i].pc # "idle"
    PROVE  /\ imports'[i] \in CommandRecord
           /\ imports'[i].todo \in SUBSET DOMAIN imports'[i].file
<1>1. imports' \in [Import -> {Idle} \cup Command] /\ imports'[i] # Idle
    BY DEF IInv, Control, Idle
<1> QED BY <1>1 DEF Command

\* Lemma <Action>Commands: that action keeps the commands on their course.
LEMMA BeginCommands ==
    ASSUME IInv, IInv', Commands, NEW i \in Import, NEW file \in ImportFile, Begin(i, file)
    PROVE  Commands'
<1>1. /\ process = "up" /\ known /\ UNCHANGED <<known, pools, process, export>>
      /\ since' = [since EXCEPT ![i] = Undisturbed(Contents)]
      /\ imports' = [imports EXCEPT ![i] =
            [pc |-> "pools", file |-> file, todo |-> DOMAIN file, making |-> {}, pool |-> 0,
             rest |-> << >>, inserted |-> 0, made |-> 0, skipped |-> 0, cancelled |-> FALSE]]
    BY DEF Begin
<1>2. since \in [Import \cup {Exporter} -> Mark] /\ Undisturbed(Contents) \in Mark
    BY ContentsFacts, MarkFacts DEF IInv, Commands
<1>3. /\ since' \in [Import \cup {Exporter} -> Mark] /\ since'[i] = Undisturbed(Contents)
      /\ \A c \in (Import \cup {Exporter}) \ {i} : since'[c] = since[c]
    BY <1>1, <1>2
<1>4. /\ \A j \in Import \ {i} : imports'[j] = imports[j]
      /\ imports'[i].pc = "pools" /\ imports'[i].todo = DOMAIN imports'[i].file
      /\ imports'[i].rest = << >> /\ imports'[i].inserted = 0 /\ imports'[i].skipped = 0
    BY <1>1, ControlFacts
<1>5. OnCourse(imports'[i], since'[i], pools')
    <2>1. imports'[i] \in CommandRecord
        BY <1>4, NextCommand
    <2> QED BY <1>1, <1>3, <1>4, <2>1, BeginsCourse
<1> QED BY <1>1, <1>3, <1>4, <1>5, CommandStep

\* The command stays with its file, and nobody notices.
LEMMA QuietStep ==
    ASSUME IInv, IInv', Commands, NEW i \in Import,
           UNCHANGED <<known, pools, process, export, since>>,
           \A j \in Import \ {i} : imports'[j] = imports[j],
           imports'[i].pc \in {"pools", "create", "done"} =>
              OnCourse(imports'[i], since[i], pools)
    PROVE  Commands'
<1>1. since \in [Import \cup {Exporter} -> Mark]
    BY DEF Commands
<1> QED BY <1>1, CommandStep

LEMMA CancelCommands ==
    ASSUME IInv, IInv', Commands, NEW i \in Import, Cancel(i) PROVE Commands'
<1>1. /\ imports[i].pc \in {"pools", "create"}
      /\ UNCHANGED <<known, pools, process, export, since>>
      /\ imports' = [imports EXCEPT ![i].cancelled = TRUE]
    BY DEF Cancel, history
<1>2. /\ \A j \in Import \ {i} : imports'[j] = imports[j]
      /\ imports'[i] = [imports[i] EXCEPT !.cancelled = TRUE]
      /\ imports[i] \in CommandRecord
    BY <1>1, CommandFacts, ControlFacts
<1>3. OnCourse(imports'[i], since[i], pools)
    <2>1. OnCourse(imports[i], since[i], pools) /\ Shaped(imports[i])
        BY <1>1 DEF Commands, OnCourse
    <2>2. /\ imports'[i].file = imports[i].file /\ imports'[i].todo = imports[i].todo
          /\ imports'[i].pool = imports[i].pool /\ imports'[i].rest = imports[i].rest
          /\ imports'[i].inserted = imports[i].inserted
          /\ imports'[i].skipped = imports[i].skipped /\ imports'[i].cancelled = TRUE
          /\ imports'[i].pc = imports[i].pc /\ imports'[i].making = imports[i].making
        BY <1>2 DEF CommandRecord
    <2>3. Shaped(imports'[i])
        BY <2>1, <2>2 DEF Shaped
    <2>4. /\ ~imports'[i].cancelled => ~imports[i].cancelled
          /\ imports[i].pc \in {"pools", "create", "done"}
        BY <1>1, <2>2
    <2> QED BY <2>1, <2>2, <2>3, <2>4, SameCourse
<1> QED BY <1>1, <1>2, <1>3, QuietStep

LEMMA ImportEndsCommands ==
    ASSUME IInv, IInv', Commands, NEW i \in Import, ImportFails(i) \/ ImportDone(i) PROVE Commands'
<1>1. UNCHANGED <<known, pools, process, export, since>> /\ imports[i].pc \in {"pools", "create"}
    BY DEF ImportFails, ImportDone, history
<1>2. CASE ImportFails(i)
    <2>1. \A j \in Import \ {i} : imports'[j] = imports[j]
        BY <1>2, ControlFacts DEF ImportFails
    <2>2. imports'[i].pc = "failed"
        BY <1>1, <1>2, CommandFacts, ControlFacts DEF ImportFails, CommandRecord
    <2> QED BY <1>1, <2>1, <2>2, QuietStep
<1>3. CASE ImportDone(i)
    <2>1. /\ \A j \in Import \ {i} : imports'[j] = imports[j]
          /\ imports'[i] = [imports[i] EXCEPT !.pc = "done"] /\ imports[i] \in CommandRecord
        BY <1>1, <1>3, CommandFacts, ControlFacts DEF ImportDone
    <2>2. /\ imports'[i].file = imports[i].file /\ imports'[i].todo = imports[i].todo
          /\ imports'[i].pool = imports[i].pool /\ imports'[i].rest = imports[i].rest
          /\ imports'[i].inserted = imports[i].inserted
          /\ imports'[i].skipped = imports[i].skipped
          /\ imports'[i].cancelled = imports[i].cancelled /\ imports'[i].pc = "done"
        BY <2>1 DEF CommandRecord
    <2>3. Shaped(imports'[i])
        BY <1>3, <2>2 DEF Shaped, ImportDone
    <2>4. OnCourse(imports'[i], since[i], pools)
        BY <1>1, <2>2, <2>3, SameCourse DEF Commands
    <2> QED BY <1>1, <2>1, <2>4, QuietStep
<1> QED BY <1>2, <1>3

LEMMA FindCommands ==
    ASSUME IInv, IInv', Commands, NEW i \in Import, NEW k \in Key, Find(i, k) PROVE Commands'
<1>1. /\ imports[i].pc = "pools" /\ imports[i].rest = << >> /\ k \in NextKeys(imports[i].todo)
      /\ UNCHANGED <<known, pools, process, export, since>>
    BY DEF Find, history
<1>2. /\ imports[i] \in CommandRecord /\ imports[i].todo \subseteq DOMAIN imports[i].file
      /\ OnCourse(imports[i], since[i], pools) /\ since[i] \in Mark
    BY <1>1, CommandFacts DEF Commands
<1>3. ASSUME NEW p \in GetPool(k.name),
             imports' = [imports EXCEPT ![i].todo = @ \ {k}, ![i].pool = p,
                                        ![i].rest = imports[i].file[k]]
      PROVE  Commands'
    <2>1. /\ \A j \in Import \ {i} : imports'[j] = imports[j]
          /\ imports'[i] = [imports[i] EXCEPT !.todo = @ \ {k}, !.pool = p,
                                              !.rest = imports[i].file[k]]
        BY <1>3, ControlFacts
    <2>2. /\ imports'[i].file = imports[i].file /\ imports'[i].todo = imports[i].todo \ {k}
          /\ imports'[i].rest = imports[i].file[k] /\ imports'[i].pc = "pools"
          /\ imports'[i].cancelled = imports[i].cancelled
          /\ imports'[i].inserted = imports[i].inserted
          /\ imports'[i].skipped = imports[i].skipped /\ imports'[i].pool = p
        BY <1>1, <1>2, <2>1 DEF CommandRecord
    <2>3. Takes(imports[i], k, imports'[i])
        <3>1. imports'[i] \in CommandRecord
            BY <2>2, NextCommand
        <3> QED BY <1>1, <1>2, <2>2, <3>1 DEF Takes
    <2>4. p \in DOMAIN pools /\ pools[p].slug = CleanSlug[k.name]
        <3>1. p \in DOMAIN pools /\ pools[p].slug = k.name /\ pools[p].slug \in Slug
            BY ControlFacts DEF GetPool
        <3> QED BY <3>1, DataAssumption
    <2>5. OnCourse(imports'[i], since[i], pools)
        BY <1>1, <1>2, <2>2, <2>3, <2>4, FindsOnCourse
    <2> QED BY <1>1, <2>1, <2>5, QuietStep
<1>4. CASE imports' = [imports EXCEPT ![i].pc = "create", ![i].making = {k}]
    <2>1. /\ \A j \in Import \ {i} : imports'[j] = imports[j]
          /\ imports'[i] = [imports[i] EXCEPT !.pc = "create", !.making = {k}]
        BY <1>4, ControlFacts
    <2>2. /\ imports'[i].file = imports[i].file /\ imports'[i].todo = imports[i].todo
          /\ imports'[i].pool = imports[i].pool /\ imports'[i].rest = imports[i].rest
          /\ imports'[i].inserted = imports[i].inserted
          /\ imports'[i].skipped = imports[i].skipped
          /\ imports'[i].cancelled = imports[i].cancelled /\ imports'[i].pc = "create"
          /\ imports'[i].making = {k}
        BY <1>2, <2>1 DEF CommandRecord
    <2>3. Shaped(imports'[i])
        BY <1>1, <2>2 DEF Shaped
    <2>4. OnCourse(imports'[i], since[i], pools)
        BY <1>1, <1>2, <2>2, <2>3, SameCourse
    <2> QED BY <1>1, <2>1, <2>4, QuietStep
<1> QED BY <1>3, <1>4 DEF Find

LEMMA CreateCommands ==
    ASSUME IInv, IInv', Commands, NEW i \in Import, NEW k \in Key, Create(i, k) PROVE Commands'
<1>1. /\ imports[i].pc = "create" /\ imports[i].making = {k}
      /\ CanCreate(k.name) /\ pools' = Insert(pools, NewPool(CleanSlug[k.name]))
      /\ imports' = [imports EXCEPT ![i].pc = "pools", ![i].todo = @ \ {k}, ![i].making = {},
                                    ![i].pool = NextRowId(pools), ![i].made = @ + 1,
                                    ![i].rest = imports[i].file[k]]
      /\ since' = [c \in DOMAIN since |-> IF c \in {i} THEN since[c] ELSE Disturbed]
      /\ UNCHANGED <<known, process, export>>
    BY DEF Create, Touch
<1>2. /\ imports[i] \in CommandRecord /\ imports[i].todo \subseteq DOMAIN imports[i].file
      /\ OnCourse(imports[i], since[i], pools) /\ since \in [Import \cup {Exporter} -> Mark]
      /\ imports[i].rest = << >> /\ k \in NextKeys(imports[i].todo)
    <2>1. OnCourse(imports[i], since[i], pools)
        BY DEF Commands
    <2> QED BY <1>1, <2>1, CommandFacts DEF Commands, OnCourse, Shaped
<1>3. /\ \A j \in Import \ {i} : imports'[j] = imports[j]
      /\ imports'[i].file = imports[i].file /\ imports'[i].todo = imports[i].todo \ {k}
      /\ imports'[i].rest = imports[i].file[k] /\ imports'[i].pc = "pools"
      /\ imports'[i].cancelled = imports[i].cancelled
      /\ imports'[i].inserted = imports[i].inserted
      /\ imports'[i].skipped = imports[i].skipped /\ imports'[i].pool = NextRowId(pools)
    BY <1>1, <1>2, ControlFacts DEF CommandRecord
<1>4. Takes(imports[i], k, imports'[i])
    <2>1. imports'[i] \in CommandRecord
        BY <1>3, NextCommand
    <2> QED BY <1>2, <1>3, <2>1 DEF Takes
<1>5. /\ since' \in [Import \cup {Exporter} -> Mark] /\ since'[i] = since[i]
      /\ \A c \in (Import \cup {Exporter}) \ {i} : since'[c] = Disturbed
    BY <1>1, <1>2, MarkFacts
<1>6. OnCourse(imports'[i], since'[i], pools')
    <2>1. /\ CleanSlug[k.name] \notin SlugsOf(pools) /\ since[i] \in Mark
          /\ imports[i].pc = "create" /\ imports'[i].pool = NextRowId(pools)
          /\ OnCourse(imports[i], since[i], pools)
          /\ pools' = Insert(pools, NewPool(CleanSlug[k.name]))
        BY <1>1, <1>2, <1>3 DEF CanCreate
    <2>2. OnCourse(imports'[i], since[i], pools')
        BY <1>4, <2>1, CreatesOnCourse
    <2> QED BY <1>5, <2>2
<1> QED BY <1>1, <1>3, <1>5, <1>6, CommandStep

LEMMA RowCommands ==
    ASSUME IInv, IInv', Commands, NEW i \in Import, Row(i) PROVE Commands'
<1> DEFINE row == Head(imports[i].rest)
           id == imports[i].pool
<1>1. /\ imports[i].pc = "pools" /\ imports[i].rest # << >>
      /\ UNCHANGED <<known, process, export, gone>>
    BY DEF Row
<1>2. /\ imports[i] \in CommandRecord /\ imports[i].todo \subseteq DOMAIN imports[i].file
      /\ OnCourse(imports[i], since[i], pools) /\ since \in [Import \cup {Exporter} -> Mark]
      /\ row \in RowText /\ imports[i].inserted \in Nat /\ imports[i].skipped \in Nat
    BY <1>1, CommandFacts DEF Commands, CommandRecord, Rows
<1>3. /\ since' \in [Import \cup {Exporter} -> Mark] /\ since'[i] = since[i]
      /\ \A c \in (Import \cup {Exporter}) \ {i} :
           since'[c] = Disturbed \/ (since'[c] = since[c] /\ UNCHANGED pools)
    <2>1. \/ since' = [c \in DOMAIN since |-> IF c \in {i} THEN since[c] ELSE Disturbed]
          \/ UNCHANGED <<pools, since>>
        BY DEF Row, Touch
    <2> QED BY <1>2, <2>1, MarkFacts
<1>4. /\ \A j \in Import \ {i} : imports'[j] = imports[j]
      /\ Passes(imports[i], imports'[i])
    <2>1. \/ imports' = [imports EXCEPT ![i].rest = Tail(@), ![i].inserted = @ + 1]
          \/ imports' = [imports EXCEPT ![i].rest = Tail(@), ![i].skipped = @ + 1]
        BY DEF Row
    <2>2. /\ \A j \in Import \ {i} : imports'[j] = imports[j]
          /\ \/ imports'[i] = [imports[i] EXCEPT !.rest = Tail(@), !.inserted = @ + 1]
             \/ imports'[i] = [imports[i] EXCEPT !.rest = Tail(@), !.skipped = @ + 1]
        BY <2>1, ControlFacts
    <2>3. /\ imports'[i].file = imports[i].file /\ imports'[i].todo = imports[i].todo
          /\ imports'[i].pool = imports[i].pool /\ imports'[i].pc = imports[i].pc
          /\ imports'[i].cancelled = imports[i].cancelled
          /\ imports'[i].rest = Tail(imports[i].rest)
          /\ \/ /\ imports'[i].inserted = imports[i].inserted + 1
                /\ imports'[i].skipped = imports[i].skipped
             \/ /\ imports'[i].inserted = imports[i].inserted
                /\ imports'[i].skipped = imports[i].skipped + 1
        BY <1>2, <2>2 DEF CommandRecord
    <2>4. imports'[i].inserted + imports'[i].skipped = imports[i].inserted + imports[i].skipped + 1
        BY <1>2, <2>3
    <2>5. imports'[i] \in CommandRecord
        BY <1>1, <2>3, NextCommand
    <2> QED BY <1>1, <1>2, <2>2, <2>3, <2>4, <2>5 DEF Passes
<1> HIDE DEF row, id
<1>5. \/ CleanText(row) /\ Room(id) /\ Add(id, row)
      \/ ~(CleanText(row) /\ ~imports[i].cancelled /\ Room(id)) /\ UNCHANGED pools
    BY DEF Row, row, id
<1>6. /\ DOMAIN pools' = DOMAIN pools
      /\ \A p \in DOMAIN pools : pools'[p].slug = pools[p].slug /\ (p # id => pools'[p] = pools[p])
      /\ \/ CleanText(row) /\ Room(id) /\ pools'[id].squares = Append(pools[id].squares, row)
         \/ ~(CleanText(row) /\ ~imports[i].cancelled /\ Room(id)) /\ pools' = pools
    <2>1. CASE CleanText(row) /\ Room(id) /\ Add(id, row)
        <3>1. row \in Text
            BY <1>2, <2>1 DEF CleanText, RowText
        <3> QED BY <1>1, <2>1, <3>1, AddsSquare DEF IInv
    <2> QED BY <1>5, <2>1
<1>7. OnCourse(imports'[i], since[i], pools')
    <2>1. since[i] \in Mark
        BY <1>2
    <2> QED BY <1>2, <1>4, <1>6, <2>1, PassesOnCourse DEF row, id
<1> QED BY <1>1, <1>3, <1>4, <1>7, CommandStep

\* A step that leaves the commands alone.
LEMMA CommandsAlone ==
    ASSUME IInv, Commands, UNCHANGED <<imports, export>>,
           since' \in [Import \cup {Exporter} -> Mark],
           \A c \in Import \cup {Exporter} :
              since'[c] = Disturbed \/ (/\ since'[c] = since[c]
                                        /\ since[c].undisturbed => UNCHANGED pools),
           process = "up" /\ known => process' = "up" /\ known'
    PROVE  Commands'
<1>1. \A c \in Import \cup {Exporter} : since'[c].undisturbed =>
        since'[c] = since[c] /\ since[c].undisturbed /\ UNCHANGED pools
    BY MarkFacts
<1>2. \A c \in DOMAIN since' : since'[c].undisturbed => process' = "up" /\ known'
    BY <1>1, MarkFacts DEF Commands
<1>3. \A i \in Import : OnCourse(imports'[i], since'[i], pools')
    <2> SUFFICES ASSUME NEW i \in Import PROVE OnCourse(imports[i], since'[i], pools')
        OBVIOUS
    <2>1. OnCourse(imports[i], since[i], pools)
        BY DEF Commands
    <2> QED BY <1>1, <2>1 DEF OnCourse
<1>4. Listed'
    BY <1>1 DEF Commands, Listed, Contents
<1> QED BY <1>2, <1>3, <1>4 DEF Commands

LEMMA EnsureGuildCommands == ASSUME IInv, Commands, EnsureGuild PROVE Commands'
<1>1. /\ process = "up" /\ known' = TRUE /\ pools' = Ensured
      /\ UNCHANGED <<process, imports, export, since>>
    BY DEF EnsureGuild, history
<1>2. known => pools' = pools
    BY <1>1 DEF Ensured
<1>3. \A c \in DOMAIN since : since[c].undisturbed => known
    BY DEF Commands
<1> QED BY <1>1, <1>2, <1>3, CommandsAlone DEF Commands

\* While a process starts there is no command.
LEMMA SeedingCommands == ASSUME IInv, Commands, Seeding PROVE Commands'
<1>1. process # "up" /\ UNCHANGED <<imports, export, since>>
    BY DEF Seeding, StartUnseeded, StartSeeding, SeedPool, SeedRow, SeedFails, SeedDone, history
<1>2. \A c \in DOMAIN since : ~since[c].undisturbed
    BY <1>1 DEF Commands
<1> QED BY <1>1, <1>2, CommandsAlone DEF Commands

LEMMA CrashCommands == ASSUME IInv, Commands, Crash PROVE Commands'
<1>1. /\ imports' = [i \in Import |-> Idle] /\ export' = NoExport
      /\ since' = [c \in DOMAIN since |-> Disturbed]
    BY DEF Crash
<1>2. /\ since' \in [Import \cup {Exporter} -> Mark]
      /\ \A c \in DOMAIN since' : ~since'[c].undisturbed
    BY <1>1, MarkFacts DEF Commands
<1>3. \A i \in Import : OnCourse(imports'[i], since'[i], pools')
    BY <1>1 DEF OnCourse, Idle
<1>4. Listed'
    BY <1>1 DEF Listed, NoExport
<1> QED BY <1>2, <1>3, <1>4 DEF Commands

\* Exports leave the imports alone.
LEMMA ExportingCommands == ASSUME IInv, Commands, Exporting PROVE Commands'
<1>1. UNCHANGED <<known, pools, process, imports>>
    BY DEF Exporting, ListPools, ExportDone, ExportFails, ListSquares
<1>2. Exporter \notin Import /\ since \in [Import \cup {Exporter} -> Mark]
    BY DataAssumption DEF Commands
<1>3. /\ since' \in [Import \cup {Exporter} -> Mark] /\ \A i \in Import : since'[i] = since[i]
      /\ \A c \in DOMAIN since' : since'[c].undisturbed => process' = "up" /\ known'
    <2>1. CASE ListPools
        <3>1. /\ process = "up" /\ known /\ since' = [since EXCEPT ![Exporter] = Undisturbed(Contents)]
            BY <2>1 DEF ListPools
        <3>2. Undisturbed(Contents) \in Mark
            BY ContentsFacts, MarkFacts DEF IInv
        <3> QED BY <1>1, <1>2, <3>1, <3>2
    <2>2. CASE ~ListPools
        <3>1. UNCHANGED since
            BY <2>2 DEF Exporting, ExportDone, ExportFails, ListSquares, history
        <3> QED BY <1>1, <1>2, <3>1 DEF Commands
    <2> QED BY <2>1, <2>2
<1>4. \A i \in Import : OnCourse(imports'[i], since'[i], pools')
    BY <1>1, <1>3 DEF Commands
<1>5. Listed'
    <2>1. CASE ListPools
        <3>1. export'.left = {[id |-> p, slug |-> pools[p].slug] : p \in DOMAIN pools}
              /\ export'.out = {} /\ export'.pc = "pools"
            BY <2>1 DEF ListPools
        <3> QED BY <1>1, <3>1 DEF Listed
    <2>2. CASE ExportFails
        BY <2>2 DEF ExportFails, NoExport, Listed
    <2>3. CASE ExportDone
        <3>1. /\ export.pc = "pools" /\ export.left = {} /\ UNCHANGED since
              /\ export'.left = export.left /\ export'.out = export.out
            BY <2>3, ControlFacts DEF ExportDone, Listing, history
        <3> QED BY <1>1, <3>1 DEF Commands, Listed, Contents
    <2>4. ASSUME NEW entry \in export.left, ListSquares(entry) PROVE Listed'
        <3> DEFINE read == [slug |-> entry.slug, squares |-> ListEntries(entry.id)]
        <3>1. /\ export.pc = "pools" /\ UNCHANGED since /\ export'.pc = "pools"
              /\ export'.left = export.left \ {entry} /\ export'.out = export.out \cup {read}
              /\ entry \in [id : Nat, slug : Slug]
            BY <2>4, ControlFacts DEF ListSquares, Listing, history
        <3>2. SUFFICES ASSUME since[Exporter].undisturbed
                       PROVE  /\ export'.out \subseteq Contents
                              /\ \A other \in export'.left :
                                   other.id \in DOMAIN pools /\ other.slug = pools[other.id].slug
                              /\ \A p \in DOMAIN pools :
                                   \/ pools[p] \in export'.out
                                   \/ [id |-> p, slug |-> pools[p].slug] \in export'.left
            BY <1>1, <3>1 DEF Listed, Contents
        <3>3. /\ export.out \subseteq Contents
              /\ \A other \in export.left :
                   other.id \in DOMAIN pools /\ other.slug = pools[other.id].slug
              /\ \A p \in DOMAIN pools :
                   pools[p] \in export.out \/ [id |-> p, slug |-> pools[p].slug] \in export.left
            BY <3>1, <3>2 DEF Commands, Listed
        <3>4. read = pools[entry.id]
            <4>1. entry.id \in DOMAIN pools /\ entry.slug = pools[entry.id].slug
                BY <3>3
            <4>2. pools[entry.id] \in PoolRow
                BY <4>1, ControlFacts
            <4> QED BY <4>1, <4>2 DEF ListEntries, PoolRow
        <3> HIDE DEF read
        <3>5. read \in Contents
            BY <3>3, <3>4 DEF Contents
        <3>6. \A p \in DOMAIN pools : [id |-> p, slug |-> pools[p].slug] = entry => pools[p] = read
            BY <3>4
        <3> QED BY <3>1, <3>3, <3>5, <3>6
    <2> QED BY <2>1, <2>2, <2>3, <2>4 DEF Exporting
<1> QED BY <1>3, <1>4, <1>5 DEF Commands

\* An edit is what disturbs.
LEMMA EditingCommands == ASSUME IInv, Commands, Editing PROVE Commands'
<1>1. \E slugs : Edit(slugs)
    BY DEF Editing, CreatePool, DeletePool, ClearPool, AddEntry, RemoveEntry, EditEntry
<1>2. /\ UNCHANGED <<known, process, imports, export>>
      /\ since' = [c \in DOMAIN since |-> Disturbed]
    BY <1>1 DEF Edit, Touch
<1>3. /\ since' \in [Import \cup {Exporter} -> Mark]
      /\ \A c \in Import \cup {Exporter} : since'[c] = Disturbed
    BY <1>2, MarkFacts DEF Commands
<1> QED BY <1>2, <1>3, CommandsAlone

LEMMA InitCommands == ASSUME Init PROVE Commands
<1>1. /\ imports = [i \in Import |-> Idle] /\ export = NoExport
      /\ since = [c \in Import \cup {Exporter} |-> Disturbed]
    BY DEF Init
<1>2. /\ since \in [Import \cup {Exporter} -> Mark] /\ \A c \in DOMAIN since : ~since[c].undisturbed
    BY <1>1, MarkFacts
<1>3. \A i \in Import : OnCourse(imports[i], since[i], pools)
    BY <1>1 DEF OnCourse, Idle
<1>4. Listed
    BY <1>1 DEF Listed, NoExport
<1> QED BY <1>2, <1>3, <1>4 DEF Commands

LEMMA NextCommands == ASSUME IInv, IInv', Commands, [Next]_vars PROVE Commands'
<1>1. CASE EnsureGuild \/ Seeding \/ Crash \/ Exporting \/ Editing
    BY <1>1, EnsureGuildCommands, SeedingCommands, CrashCommands, ExportingCommands, EditingCommands
<1>2. ASSUME NEW i \in Import, Importing(i) PROVE Commands'
    <2>1. CASE \E file \in ImportFile : Begin(i, file)
        BY <2>1, BeginCommands
    <2>2. CASE \E k \in Key : Find(i, k) \/ Create(i, k)
        BY <2>2, FindCommands, CreateCommands
    <2>3. CASE Row(i) \/ ImportDone(i) \/ ImportFails(i) \/ Cancel(i)
        BY <2>3, RowCommands, ImportEndsCommands, CancelCommands
    <2> QED BY <1>2, <2>1, <2>2, <2>3 DEF Importing
<1>3. CASE UNCHANGED vars
    <2>1. UNCHANGED <<known, pools, process, imports, export, since>>
        BY <1>3 DEF vars, history
    <2> QED BY <2>1, CommandsAlone DEF Commands
<1> QED BY <1>1, <1>2, <1>3 DEF Next

LEMMA AlwaysCommands == Spec => [](IInv /\ Commands)
<1>1. Init => IInv /\ Commands
    BY InitIInv, InitCommands
<1>2. IInv /\ Commands /\ [Next]_vars => (IInv /\ Commands)'
    BY NextIInv, NextCommands
<1> QED BY <1>1, <1>2, PTL DEF Spec

\* An import that answers has counted every row once; and it has added, in order and up
\* to the caps, every text of a file that names no pool twice, if nobody else wrote in
\* the meantime and its time did not run out (Service.ImportData, importInto).
THEOREM ImportingIsComplete == Spec => []ImportsAreComplete
<1>1. ASSUME IInv, Commands PROVE ImportsAreComplete
    <2> SUFFICES ASSUME NEW i \in Import, imports[i].pc = "done"
                 PROVE  /\ imports[i].inserted + imports[i].skipped =
                             Cardinality(RowsAt(imports[i].file, DOMAIN imports[i].file))
                        /\ since[i].undisturbed /\ ~imports[i].cancelled
                             /\ Unambiguous(imports[i].file) =>
                             IsImport(Contents, since[i].data, imports[i].file)
        BY DEF ImportsAreComplete
    <2>1. /\ imports[i] \in CommandRecord /\ imports[i].file \in ImportFile
          /\ imports[i].todo \in SUBSET DOMAIN imports[i].file
          /\ imports[i].inserted \in Nat /\ imports[i].skipped \in Nat
        BY <1>1, CommandFacts DEF CommandRecord
    <2>2. OnCourse(imports[i], since[i], pools) /\ since[i] \in Mark
        BY <1>1 DEF Commands
    <2>3. imports[i].rest = << >> /\ imports[i].todo = {}
        BY <2>2 DEF OnCourse, Shaped
    <2>4. imports[i].inserted + imports[i].skipped =
            Cardinality(RowsAt(imports[i].file, DOMAIN imports[i].file))
        <3>1. Cardinality(RowsAt(imports[i].file, {})) = 0 /\ Len(<< >>) = 0
            BY <2>1, PlacesFacts
        <3> QED BY <2>1, <2>2, <2>3, <3>1 DEF OnCourse, Accounted
    <2>5. ASSUME since[i].undisturbed, ~imports[i].cancelled, Unambiguous(imports[i].file)
          PROVE  IsImport(Contents, since[i].data, imports[i].file)
        <3> DEFINE file == imports[i].file
                   data == since[i].data
        <3>1. Going(imports[i], data, pools)
            BY <2>2, <2>5 DEF OnCourse
        <3>2. {c.slug : c \in Contents} = {d.slug : d \in data} \cup {CleanSlug[k.name] : k \in DOMAIN file}
            <4>1. {c.slug : c \in Contents} = SlugsOf(pools)
                BY <1>1, ContentsFacts DEF IInv
            <4> QED BY <2>3, <3>1, <4>1 DEF Going
        <3>3. ASSUME NEW c \in Contents
              PROVE  Grown(c.squares, SquaresIn(data, c.slug), RowsFor(file, DOMAIN file, c.slug),
                           Len(RowsFor(file, DOMAIN file, c.slug)))
            <4>1. PICK p \in DOMAIN pools : c = pools[p]
                BY DEF Contents
            <4> DEFINE rows == RowsFor(file, DOMAIN file, c.slug)
            <4>2. PICK n \in Nat : /\ Remains(Awaits(imports[i], p, c.slug), rows, n)
                                   /\ Grown(c.squares, SquaresIn(data, c.slug), rows, n)
                BY <3>1, <4>1 DEF Going, Along
            <4>3. rows \in Rows /\ << >> \in Rows
                <5>1. rows \in Rows
                    BY <2>1, RowsForFacts
                <5> QED BY <5>1 DEF Rows
            <4>4. Awaits(imports[i], p, c.slug) = << >>
                <5>1. Awaits(imports[i], p, c.slug) = RowsFor(file, {}, c.slug)
                    BY <2>1, <2>3, AwaitsFacts
                <5>2. {} \in SUBSET DOMAIN file /\ c.slug \notin {CleanSlug[k.name] : k \in {}}
                    OBVIOUS
                <5>3. RowsFor(file, {}, c.slug) = << >>
                    BY <2>1, <5>2, RowsForFacts
                <5> QED BY <5>1, <5>3
            <4> HIDE DEF rows
            <4>5. n = Len(rows)
                BY <4>2, <4>3, <4>4, RemainsFacts
            <4> QED BY <4>2, <4>5 DEF rows
        <3> QED BY <3>2, <3>3 DEF IsImport
    <2> QED BY <2>4, <2>5
<1> QED BY <1>1, AlwaysCommands, PTL

\* Texts are added as they are.
LEMMA TextsAreKept ==
    ASSUME NEW squares \in Seq(Text), Len(squares) <= MaxEntriesPerPool
    PROVE  Grown(squares, << >>, squares, Len(squares))
<1>1. /\ DOMAIN squares = 1 .. Len(squares) /\ Len(squares) \in Nat /\ MaxEntriesPerPool \in Nat
      /\ \A i \in 1 .. Len(squares) : CleanText(squares[i])
    BY DataAssumption DEF CleanText
<1>2. \A n \in 0 .. Len(squares) : Kept(squares, n) = n
    <2> SUFFICES ASSUME NEW n \in 0 .. Len(squares) PROVE Kept(squares, n) = n
        OBVIOUS
    <2>1. {i \in 1 .. n : CleanText(squares[i])} = 1 .. n
        BY <1>1
    <2>2. Cardinality(1 .. n) = n
        BY FS_Interval
    <2> QED BY <2>1, <2>2 DEF Kept
<1>3. Kept(squares, Len(squares)) = Len(squares) /\ \A i \in 1 .. Len(squares) : Kept(squares, i) = i
    BY <1>1, <1>2
<1>4. Min({Len(squares), MaxEntriesPerPool}) = Len(squares)
    BY <1>1, MinFacts
<1>5. Len(<< >>) = 0 /\ DOMAIN << >> = {}
    OBVIOUS
<1> QED BY <1>1, <1>3, <1>4, <1>5 DEF Grown

\* An export nothing disturbed holds every pool as it is, and importing what
\* handleDataExport makes of it, where there is nothing yet, restores them all.
THEOREM ExportingIsFaithful == Spec => []ExportsRestore
<1>1. ASSUME IInv, Commands PROVE ExportsRestore
    <2> SUFFICES ASSUME export.pc = "done", since[Exporter].undisturbed
                 PROVE  export.out = Contents /\ IsImport(Contents, {}, ExportFile)
        BY DEF ExportsRestore
    <2>1. export.out = Contents
        BY <1>1 DEF Commands, Listed, Contents
    <2> DEFINE named(slug) == [bucket |-> "shared", name |-> slug]
    <2>2. /\ DOMAIN ExportFile = {named(c.slug) : c \in Contents}
          /\ \A k \in DOMAIN ExportFile : ExportFile[k] = SquaresIn(Contents, k.name)
        BY <2>1 DEF ExportFile
    <2>3. \A c \in Contents :
            /\ c.slug \in Slug /\ CleanSlug[c.slug] = c.slug /\ c.squares \in Seq(Text)
            /\ Len(c.squares) <= MaxEntriesPerPool /\ SquaresIn(Contents, c.slug) = c.squares
        <3> SUFFICES ASSUME NEW p \in DOMAIN pools
                     PROVE  LET c == pools[p] IN
                            /\ c.slug \in Slug /\ CleanSlug[c.slug] = c.slug
                            /\ c.squares \in Seq(Text) /\ Len(c.squares) <= MaxEntriesPerPool
                            /\ SquaresIn(Contents, c.slug) = c.squares
            BY DEF Contents
        <3>1. /\ pools[p].slug \in Slug /\ pools[p].squares \in Seq(Text)
              /\ Len(pools[p].squares) <= MaxEntriesPerPool
            BY <1>1, ControlFacts
        <3>2. SquaresIn(Contents, pools[p].slug) = pools[p].squares
            BY <1>1, ContentsFacts DEF IInv
        <3> QED BY <3>1, <3>2, DataAssumption
    <2>4. {CleanSlug[k.name] : k \in DOMAIN ExportFile} = {c.slug : c \in Contents}
        <3>1. \A c \in Contents : /\ named(c.slug) \in DOMAIN ExportFile
                                  /\ CleanSlug[named(c.slug).name] = c.slug
            BY <2>2, <2>3
        <3>2. \A k \in DOMAIN ExportFile : \E c \in Contents : k = named(c.slug)
            BY <2>2
        <3> HIDE DEF named
        <3> QED BY <3>1, <3>2
    <2>5. ASSUME NEW c \in Contents
          PROVE  Grown(c.squares, SquaresIn({}, c.slug), RowsFor(ExportFile, DOMAIN ExportFile, c.slug),
                       Len(RowsFor(ExportFile, DOMAIN ExportFile, c.slug)))
        <3>1. RowsFor(ExportFile, DOMAIN ExportFile, c.slug) = c.squares
            <4>1. /\ {k \in DOMAIN ExportFile : k.bucket = "shared" /\ CleanSlug[k.name] = c.slug}
                       = {named(c.slug)}
                  /\ {k \in DOMAIN ExportFile : k.bucket = "instance" /\ CleanSlug[k.name] = c.slug} = {}
                BY <2>2, <2>3
            <4>2. /\ (CHOOSE k \in {named(c.slug)} : TRUE) = named(c.slug)
                  /\ named(c.slug) \in DOMAIN ExportFile /\ named(c.slug).name = c.slug
                BY <2>2
            <4>3. ExportFile[named(c.slug)] = c.squares
                BY <2>2, <2>3, <4>2
            <4>4. RowsUnder(ExportFile, {named(c.slug)}) = c.squares /\ RowsUnder(ExportFile, {}) = << >>
                BY <4>2, <4>3 DEF RowsUnder
            <4>5. RowsFor(ExportFile, DOMAIN ExportFile, c.slug) = << >> \o c.squares
                BY <4>1, <4>4 DEF RowsFor
            <4> QED BY <2>3, <4>5, ConcatEmptySeq
        <3>2. SquaresIn({}, c.slug) = << >>
            BY SquaresInFacts
        <3> QED BY <2>3, <3>1, <3>2, TextsAreKept
    <2>6. {d.slug : d \in {}} = {}
        OBVIOUS
    <2> QED BY <2>1, <2>4, <2>5, <2>6 DEF IsImport
<1> QED BY <1>1, AlwaysCommands, PTL
================================================================================
