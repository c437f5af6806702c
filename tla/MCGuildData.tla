------------------------------- MODULE MCGuildData -------------------------------
(* GuildData for TLC: one default pool; a seed file that fills it twice and      *)
(* another one, which is not spelled as the store keeps it, one with too many    *)
(* rows and one with a row too long; an import with such a row and one of the    *)
(* odd spelling.                                                                 *)
EXTENDS GuildData

CONSTANTS w1, extra, Extra, s1, s2

MCSlug == {w1, extra}
MCName == {w1, extra, Extra}
MCCleanSlug == [n \in MCName |-> IF n = Extra THEN extra ELSE n]
MCDefaultPools == <<w1>>
MCText == {s1, s2}

In(bucket, name) == [bucket |-> bucket, name |-> name]
Seed == (In("instance", w1) :> <<s1, s2>>) @@ (In("shared", Extra) :> <<s1, Blank>>)
          @@ (In("shared", w1) :> <<s2>>)
TooLong == In("instance", w1) :> <<s2, s2, Blank, s1, s1>>
BadRow == In("shared", w1) :> <<Blank, s1, Overlong>>
MCSeedFile == {Seed, TooLong, BadRow}
Appended == (In("instance", w1) :> <<Overlong, s1>>) @@ (In("shared", w1) :> <<s2>>)
Created == In("shared", Extra) :> <<s1, s2>>
MCImportFile == {Appended, Created}

ImportsAreAlike == Permutations(Import)
================================================================================
