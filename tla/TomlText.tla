------------------------------ MODULE TomlText ------------------------------
(***************************************************************************)
(* The text of a configuration file, line by line, and what it says, read  *)
(* as a whole: docs/config.md, "The TOML subset".  Module Toml reads the   *)
(* same lines one after the other, as the code does.                       *)
(*                                                                         *)
(* A line is blank (or a comment), a header [path] or [[path]], an         *)
(* assignment, more of an array that an earlier line began, or none of     *)
(* these (junk).  What an assignment or a line of an array holds is a      *)
(* sequence of tokens.  How characters make up keys, strings and numbers   *)
(* is left out; what is not a token of the subset is Junk.                 *)
(***************************************************************************)
EXTENDS Integers, Sequences, FiniteSets, SequencesExt

Blank             == [kind |-> "blank"]
Header(path)      == [kind |-> "table", path |-> path]
ArrayHeader(path) == [kind |-> "tables", path |-> path]
Set(key, toks)    == [kind |-> "set", key |-> key, toks |-> toks]
More(toks)        == [kind |-> "more", toks |-> toks]
JunkLine          == [kind |-> "junk"]

Open  == [is |-> "["]
Close == [is |-> "]"]
Comma == [is |-> ","]
Junk  == [is |-> "junk"]
Str(text) == [is |-> "string", text |-> text]
Int0      == [is |-> "integer"]
Bool0     == [is |-> "boolean"]

IsScalar(tok) == tok.is \in {"string", "integer", "boolean"}

(***************************************************************************)
(* A document: its tables, each a function from keys to values.  A table   *)
(* is located by the keys that lead to it, each with the position in the   *)
(* array of tables it goes through there (0: a table of its own).          *)
(***************************************************************************)
Root         == << >>
NoKeys       == << >>
Table        == [is |-> "table"]
Tables(n)    == [is |-> "tables", size |-> n]
Array(items) == [is |-> "array", items |-> items]

-----------------------------------------------------------------------------
(* What the first n lines of f say. *)

Toks(line) == IF line.kind \in {"set", "more"} THEN line.toks ELSE << >>

BeginsArray(line) == line.kind = "set" /\ line.toks # << >> /\ line.toks[1] = Open

\* Line i lies in an array that an earlier line has begun and none has closed.
InArrayOf(f, j, i) ==
  j < i /\ BeginsArray(f[j]) /\ \A k \in j..(i - 1) : ~Contains(Toks(f[k]), Close)

Within(f, i) == \E j \in 1..(i - 1) : InArrayOf(f, j, i)

SetLines(f, n) == {i \in 1..n : f[i].kind = "set"}

HeaderLines(f, n) == {i \in 1..n : f[i].kind \in {"table", "tables"}}

\* What the first lines, one by one, give of the value assigned on line i.
ValueTexts(f, i) ==
  LET text[k \in 0..Len(f)] ==
        IF k = 0 THEN << >>
        ELSE IF k = i \/ InArrayOf(f, i, k) THEN text[k - 1] \o Toks(f[k])
        ELSE text[k - 1]
  IN  text

ValueText(f, i, n) == ValueTexts(f, i)[n]

\* A scalar, or an array with commas between its scalars and perhaps after the
\* last; of an array that goes on below line n, a beginning.
WellFormed(t) ==
  \/ Len(t) = 1 /\ IsScalar(t[1])
  \/ /\ t # << >> /\ t[1] = Open
     /\ \A k \in 2..Len(t) :
          \/ t[k] = Close /\ k = Len(t)
          \/ IsScalar(t[k]) /\ k % 2 = 0
          \/ t[k] = Comma /\ k % 2 = 1

Complete(t) == (Len(t) = 1 /\ t[1] # Open) \/ Contains(t, Close)

\* The scalars of an array stand at the even places.
ScalarsOf(t, n) == [k \in 1..n |-> t[2*k]]

ValueOf(t) == IF Len(t) = 1 THEN t[1] ELSE Array(ScalarsOf(t, (Len(t) - 1) \div 2))

\* [[q]] begins an element of q; an element of an array that q is in begins
\* with an empty q.
Position(f, q, j) ==
  Cardinality({i \in 1..j :
    /\ f[i].kind = "tables" /\ f[i].path = q
    /\ ~ \E k \in (i + 1)..j : f[k].kind = "tables" /\ IsStrictPrefix(f[k].path, q)})

Location(f, j) ==
  LET path == f[j].path
  IN  [m \in DOMAIN path |-> << path[m], Position(f, SubSeq(path, 1, m), j) >>]

\* The header that line i stands under, or 0.
Above(f, i) == Max(HeaderLines(f, i - 1) \cup {0})

\* The table that line i assigns in.
TableAt(f, i) == IF Above(f, i) = 0 THEN Root ELSE Location(f, Above(f, i))

\* A place is a key of a table: where a line assigns, and those on the way of
\* a header.
Place(f, i) == << TableAt(f, i), f[i].key >>

Places(loc) == {<< SubSeq(loc, 1, m - 1), loc[m][1] >> : m \in DOMAIN loc}

LastPlace(loc) == << Front(loc), Last(loc)[1] >>

\* No place is used twice: a key is assigned once and is no table; [p] is the
\* first to name its table; [[p]] meets nothing but elements before it.
NoClash(f, n) ==
  /\ \A i, j \in SetLines(f, n) : i # j => Place(f, i) # Place(f, j)
  /\ \A i \in SetLines(f, n), j \in HeaderLines(f, n) :
       Place(f, i) \notin Places(Location(f, j))
  /\ \A j \in HeaderLines(f, n) : \A i \in HeaderLines(f, j - 1) :
       LastPlace(Location(f, j)) \in Places(Location(f, i)) =>
         f[j].kind = "tables" /\ Location(f, i)[Len(f[j].path)][2] > 0

Fits(f, i) ==
  IF Within(f, i) THEN f[i].kind \in {"blank", "more"}
  ELSE f[i].kind \in {"blank", "table", "tables", "set"}

\* The first n lines may begin a file.
Readable(f, n) ==
  /\ \A i \in 1..n : Fits(f, i)
  /\ \A i \in SetLines(f, n) : WellFormed(ValueText(f, i, n))
  /\ NoClash(f, n)

\* The tables that headers name, and those on the way to them.
Locations(f, n) ==
  {Root} \cup UNION {{SubSeq(Location(f, j), 1, m) : m \in DOMAIN f[j].path} : j \in HeaderLines(f, n)}

\* The values that are assigned in full, by their places.
Values(f, n) ==
  LET sets == {i \in SetLines(f, n) : Complete(ValueText(f, i, n))}
  IN  [p \in {Place(f, i) : i \in sets} |->
         ValueOf(ValueText(f, CHOOSE i \in sets : Place(f, i) = p, n))]

\* The tables at these locations, with these values.
Below(locs, t) == {Last(l) : l \in {l \in locs \ {Root} : Front(l) = t}}

Positions(locs, t, key) == {x[2] : x \in {x \in Below(locs, t) : x[1] = key}}

KeysOf(locs, values, t) ==
  {x[1] : x \in Below(locs, t)} \cup {p[2] : p \in {p \in DOMAIN values : p[1] = t}}

Tree(locs, values) ==
  [t \in locs |-> [key \in KeysOf(locs, values, t) |->
     IF << t, key >> \in DOMAIN values THEN values[<< t, key >>]
     ELSE IF Positions(locs, t, key) = {0} THEN Table
     ELSE Tables(Max(Positions(locs, t, key)))]]

Document(f, n) == Tree(Locations(f, n), Values(f, n))
=============================================================================
