-------------------------------- MODULE Toml --------------------------------
(***************************************************************************)
(* toml.Parse: the file is read line by line, and what a line does depends *)
(* on the table that is open and on the array that is unfinished.          *)
(***************************************************************************)
EXTENDS TomlText

VARIABLES
  file,      \* its lines
  at,        \* the line to be read
  doc,       \* the tables, by location
  current,   \* location of the table that assignments go to
  array,     \* the array that is unfinished
  err        \* the line an error has been returned for, or 0

\* parseArray's locals; line 0: there is none.
NoArray == [line |-> 0, key |-> "", items |-> << >>, needComma |-> FALSE, state |-> "closed"]

InArray == array.line # 0

Start(lines) ==
  /\ file = lines
  /\ at = 1
  /\ doc = [loc \in {Root} |-> NoKeys]
  /\ current = Root
  /\ array = NoArray
  /\ err = 0

Reads(kind, within) ==
  err = 0 /\ at <= Len(file) /\ file[at].kind = kind /\ (InArray <=> within)

Line == file[at]

Proceed == at' = at + 1 /\ UNCHANGED << file, err >>

Fail(line) == err' = line /\ UNCHANGED << file, at, doc, current, array >>

BlankLine ==
  /\ \E within \in BOOLEAN : Reads("blank", within)
  /\ Proceed
  /\ UNCHANGED << doc, current, array >>

-----------------------------------------------------------------------------
(* Headers. *)

With(f, x, y) == [z \in DOMAIN f \cup {x} |-> IF z = x THEN y ELSE f[z]]

Put(d, loc, key, value) == [d EXCEPT ![loc] = With(@, key, value)]

NewTable(d, loc, key, value, new) == With(Put(d, loc, key, value), new, NoKeys)

\* mutant: always into the first element
DescendBug(way, key) ==
  LET t == way.doc[way.at] IN
  IF ~way.ok THEN way
  ELSE IF key \notin DOMAIN t THEN
    LET new == Append(way.at, << key, 0 >>)
    IN  [way EXCEPT !.doc = NewTable(way.doc, way.at, key, Table, new), !.at = new]
  ELSE CASE t[key].is = "table"  -> [way EXCEPT !.at = Append(@, << key, 0 >>)]
         [] t[key].is = "tables" -> [way EXCEPT !.at = Append(@, << key, 1 >>)]
         [] OTHER                -> [way EXCEPT !.ok = FALSE]

\* One segment before the last: a missing table is made, an array of tables is
\* entered at its last element.
Descend(way, key) ==
  LET t == way.doc[way.at] IN
  IF ~way.ok THEN way
  ELSE IF key \notin DOMAIN t THEN
    LET new == Append(way.at, << key, 0 >>)
    IN  [way EXCEPT !.doc = NewTable(way.doc, way.at, key, Table, new), !.at = new]
  ELSE CASE t[key].is = "table"  -> [way EXCEPT !.at = Append(@, << key, 0 >>)]
         [] t[key].is = "tables" -> [way EXCEPT !.at = Append(@, << key, t[key].size >>)]
         [] OTHER                -> [way EXCEPT !.ok = FALSE]

\* After each segment, from the root of d on.
Ways(d, path) ==
  LET way[i \in 0..Len(path)] ==
        IF i = 0 THEN [doc |-> d, at |-> Root, ok |-> TRUE] ELSE Descend(way[i - 1], path[i])
  IN  way

\* Where all segments but the last lead.
Way == Ways(doc, Line.path)[Len(Line.path) - 1]

\* What the last segment names so far; Tables(0): nothing.
Named(way) ==
  LET t == way.doc[way.at] IN
  IF Last(Line.path) \in DOMAIN t THEN t[Last(Line.path)] ELSE Tables(0)

\* Opens the table of the last segment, at this position of its array.
Enter(way, value, position) ==
  /\ current' = Append(way.at, << Last(Line.path), position >>)
  /\ doc' = NewTable(way.doc, way.at, Last(Line.path), value, current')
  /\ Proceed
  /\ UNCHANGED array

OpenTable ==
  /\ Reads("table", FALSE)
  /\ Way.ok /\ Named(Way) = Tables(0)
  /\ Enter(Way, Table, 0)

TableRefused ==
  /\ Reads("table", FALSE)
  /\ ~Way.ok \/ Named(Way) # Tables(0)
  /\ Fail(at)

OpenArrayTable ==
  /\ Reads("tables", FALSE)
  /\ Way.ok /\ Named(Way).is = "tables"
  /\ LET n == Named(Way).size + 1 IN Enter(Way, Tables(n), n)

ArrayTableRefused ==
  /\ Reads("tables", FALSE)
  /\ ~Way.ok \/ Named(Way).is # "tables"
  /\ Fail(at)

-----------------------------------------------------------------------------
(* Assignments. *)

\* mutant: the last assignment wins
FreeBug == TRUE

Free == Line.key \notin DOMAIN doc[current]

IsArray == Line.toks # << >> /\ Head(Line.toks) = Open

\* One token of an array.
Scan(a, tok) ==
  IF a.state # "open" THEN [a EXCEPT !.state = "bad"]
  ELSE CASE tok = Close                   -> [a EXCEPT !.state = "closed"]
         [] a.needComma /\ tok = Comma    -> [a EXCEPT !.needComma = FALSE]
         [] ~a.needComma /\ IsScalar(tok) -> [a EXCEPT !.items = Append(@, tok), !.needComma = TRUE]
         [] OTHER                         -> [a EXCEPT !.state = "bad"]

Store(key, value) == doc' = Put(doc, current, key, value)

SetScalar ==
  /\ Reads("set", FALSE) /\ Free /\ Len(Line.toks) = 1 /\ IsScalar(Line.toks[1])
  /\ Store(Line.key, Line.toks[1])
  /\ Proceed
  /\ UNCHANGED << current, array >>

\* After each of the tokens.
Scans(a, toks) ==
  LET scan[k \in 0..Len(toks)] == IF k = 0 THEN a ELSE Scan(scan[k - 1], toks[k])
  IN  scan

\* The array as this line leaves it: finished, unfinished or wrong.
Scanned(a, toks) ==
  LET b == Scans(a, toks)[Len(toks)] IN
  \/ b.state = "bad" /\ Fail(at)
  \/ b.state = "open" /\ array' = b /\ Proceed /\ UNCHANGED << doc, current >>
  \/ /\ b.state = "closed"
     /\ Store(b.key, Array(b.items))
     /\ array' = NoArray /\ Proceed /\ UNCHANGED current

SetArray ==
  /\ Reads("set", FALSE) /\ Free /\ IsArray
  /\ Scanned([NoArray EXCEPT !.line = at, !.key = Line.key, !.state = "open"], Tail(Line.toks))

MoreOfArray == Reads("more", TRUE) /\ Scanned(array, Line.toks)

\* A key that is set already, no value, or more than one.
AssignRefused ==
  /\ Reads("set", FALSE)
  /\ ~Free \/ (~IsArray /\ ~(Len(Line.toks) = 1 /\ IsScalar(Line.toks[1])))
  /\ Fail(at)

\* A line that nothing can begin with, or that does not go on with an array.
LineRefused ==
  /\ \/ \E within \in BOOLEAN : Reads("junk", within)
     \/ Reads("more", FALSE)
     \/ \E kind \in {"table", "tables", "set"} : Reads(kind, TRUE)
  /\ Fail(at)

AtEnd == err = 0 /\ at > Len(file)

Unterminated == AtEnd /\ InArray /\ Fail(array.line)

ParseLine ==
  \/ BlankLine
  \/ OpenTable \/ TableRefused \/ OpenArrayTable \/ ArrayTableRefused
  \/ SetScalar \/ SetArray \/ MoreOfArray \/ AssignRefused \/ LineRefused
  \/ Unterminated

Parsed == AtEnd /\ ~InArray
-----------------------------------------------------------------------------
(***************************************************************************)
(* Properties.                                                             *)
(***************************************************************************)

\* docs/config.md: what is outside the subset is "rejected with an explicit
\* error, never misread. All syntax errors carry line numbers".  When the last
\* line has been read the tables hold what the lines say; an error names the
\* first line that cannot follow those before it, or the beginning of an array
\* that the file does not finish.
ReadsExactly ==
  CASE err # 0 /\ at <= Len(file) ->
         err = at /\ Readable(file, at - 1) /\ ~Readable(file, at)
    [] err # 0 /\ at > Len(file) ->
         /\ Readable(file, at - 1) /\ InArrayOf(file, err, at)
         /\ Place(file, err) = << current, array.key >>
    [] Parsed -> Readable(file, at - 1) /\ doc = Document(file, at - 1)
    [] OTHER -> TRUE
=============================================================================
