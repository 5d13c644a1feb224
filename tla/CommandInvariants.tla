------------------------- MODULE CommandInvariants -------------------------
(***************************************************************************)
(* What holds of Command at each step: the inductive invariants with which *)
(* CommandProofs shows its properties, and the terms they are stated in.   *)
(***************************************************************************)
EXTENDS Command

-----------------------------------------------------------------------------
(***************************************************************************)
(* How far the program is.                                                 *)
(***************************************************************************)
BeforeConfig == {"global", "command", "flags", "init", "config"}
Delivered    == {"deliver", "done"}

\* How far the program is, and what it has done by then.
ProgressOK ==
  /\ exit \in {Running, ExitOK, ExitBreach, ExitUsage, ExitRuntime}
  /\ exit # Running => step = "done"
  /\ step \in BeforeConfig => cfg = NoConfig
  /\ step = "serve" => cmd = "serve"
  /\ step = "status" => cmd = "status"
  /\ step # "deliver" => Done
  /\ step \notin Delivered => ~saved /\ ev = NoEvent
  /\ step = "deliver" \/ ev # NoEvent => saved
  /\ exit \in {ExitBreach, ExitUsage, ExitRuntime} => ~saved /\ ev = NoEvent
  /\ exit = ExitOK /\ cfg # NoConfig /\ cmd \in Recording => saved /\ events = << >>
  /\ (step = "save" \/ saved) /\ cmd \in {"ping", "fail"} => pos[1] \in Configured

-----------------------------------------------------------------------------
(***************************************************************************)
(* The arguments of a command.                                             *)
(***************************************************************************)
ArgTexts == {cmdArgs[i].text : i \in DOMAIN cmdArgs}

\* The arguments after the first n.
RestAt(n, rest) == rest = [k \in 1..(Len(cmdArgs) - n) |-> cmdArgs[n + k]]

\* The next one may be a name, a flag or "--".
Free(n) == n < Len(cmdArgs) => ~IsValue(n + 1) /\ ~Ended(n + 1)

\* The names among the first n: none, one or more.
NamesTo(n, ps) ==
  /\ ps \in Seq(ArgTexts)
  /\ Len(ps) = 0 => \A i \in Named : i > n
  /\ Len(ps) = 1 => \E i \in Named : /\ i <= n /\ ps[1] = cmdArgs[i].text
                                     /\ \A k \in Named : k <= n => k = i
  /\ Len(ps) > 1 => \E i, k \in Named : i # k /\ i <= n /\ k <= n

\* As the usage wants it.
FlagOK(i) ==
  /\ cmdArgs[i].name \in DOMAIN FlagsOf(cmd)
  /\ cmdArgs[i].is = "flag=" => FlagsOf(cmd)[cmdArgs[i].name]
  /\ Takes(i) => i < Len(cmdArgs)

LastTo(i, n, name) == i \in FlagAt(name) /\ i <= n /\ \A k \in FlagAt(name) : k <= n => k <= i

\* The flags among the first n, the last of each name with its value.
FlagsTo(n, fs) ==
  /\ \A i \in GivenFlags : i <= n => FlagOK(i) /\ cmdArgs[i].name \in DOMAIN fs
  /\ \A name \in DOMAIN fs : \E i \in FlagAt(name) : LastTo(i, n, name) /\ fs[name] = SaysAt(i)

ArgsRead(n) ==
  /\ cmdArgs \in Seq(ToSet(cmdArgs))
  /\ n \in 0..Len(cmdArgs)

\* Commands that parse flags.
Flagged == Recording \cup {"status"}

\* What the loop of parseFlags has read: n arguments, the names and flags among them.
Reading == \E n \in 0..Len(cmdArgs) :
  ArgsRead(n) /\ RestAt(n, args) /\ Free(n) /\ NamesTo(n, pos) /\ FlagsTo(n, flags)

\* The arguments follow the usage and are kept as given; or else nothing is done.
Understood ==
  /\ FollowsUsage /\ FlagsAsGiven
  /\ cmd \in {"ping", "fail"} => \A i \in Named : pos[1] = cmdArgs[i].text

Refused ==
  /\ ~saved /\ ev = NoEvent /\ cfg = NoConfig
  /\ exit = ExitOK \/ (exit = ExitUsage /\ ~FollowsUsage)

AtArguments == {"global", "command", "flags"}
Loaded == {"clock", "state", "status", "record", "save", "deliver"}

\* What is known of the arguments as the program goes on.
UsageOK ==
  cmd \in Flagged =>
    /\ step \notin AtArguments \cup {"done"} => Understood
    /\ step \in Loaded => T!Parsed /\ Loads(doc)
    /\ step = "done" => Refused \/ (Understood /\ (exit = ExitUsage => T!Parsed /\ Loads(doc)))

\* The flags and names that count later.
ToldOK ==
  /\ exit = ExitBreach => cmd = "status" /\ "fail-on-down" \in DOMAIN flags
  /\ cmd \in {"ping", "fail"} =>
       /\ step \in {"save", "deliver"} => events = << >> \/ \E e : events = << e >> /\ e.check = pos[1]
       /\ ev # NoEvent => ev.check = pos[1]

\* As they are taken apart.
ReadingOK ==
  /\ step = "global" => cmd \notin Flagged /\ args \in Seq(ToSet(args)) /\ flags = NoKeys /\ pos = << >>
  /\ step = "command" => args = cmdArgs /\ ArgsRead(0) /\ flags = NoKeys /\ pos = << >>
  /\ step = "flags" => Reading

-----------------------------------------------------------------------------
(***************************************************************************)
(* The tables of the parser, the configuration, and the delivery of an event. *)
(***************************************************************************)
\* The value that a table has for a key leads to the tables it stands for, or
\* is a text of the file.
ValueOK(d, loc, key, value) ==
  /\ value.is = "string" => value.text \in Text
  /\ value.is = "table" => Append(loc, << key, 0 >>) \in DOMAIN d
  /\ value.is = "tables" =>
       /\ value.size \in Nat \ {0}
       /\ \A i \in 1..value.size : Append(loc, << key, i >>) \in DOMAIN d

TablesOK(d) ==
  /\ d = [loc \in DOMAIN d |-> d[loc]]
  /\ Root \in DOMAIN d
  /\ \A loc \in DOMAIN d : \A key \in DOMAIN d[loc] : ValueOK(d, loc, key, d[loc][key])

\* Headers name a table; assignments hold texts of the file.
LinesOK(f) ==
  /\ f \in Seq(ToSet(f))
  /\ \A i \in DOMAIN f :
       /\ f[i].kind \in {"table", "tables"} => f[i].path \in Seq(STRING) /\ f[i].path # << >>
       /\ f[i].kind \in {"set", "more"} => f[i].toks \in Seq(ToSet(f[i].toks))
       /\ f[i].kind = "set" => f[i].key \in STRING /\ \A k \in 1..Len(f[i].toks) :
            f[i].toks[k].is = "string" => f[i].toks[k].text \in Text

ParsedOK == LinesOK(file) /\ at \in Nat \ {0} /\ TablesOK(doc)

\* On the way along the segments of a header.
WayOK(way) ==
  /\ way = [doc |-> way.doc, at |-> way.at, ok |-> way.ok]
  /\ TablesOK(way.doc) /\ way.at \in DOMAIN way.doc

\* Its checks and its channels are lists, in which no name is used twice, and
\* timeouts are numbers.
DistinctNames(s) == \A i, j \in DOMAIN s : s[i].name = s[j].name => i = j

ConfigOK(c) ==
  /\ c.checks \in Seq(ToSet(c.checks)) /\ DistinctNames(c.checks)
  /\ c.alerts \in Seq(ToSet(c.alerts)) /\ DistinctNames(c.alerts)
  /\ \A i \in DOMAIN c.alerts : c.alerts[i].timeout \in Nat

\* The channels of q that subscribe to the type.
Wanted(q, type) == {q[i].name : i \in {k \in DOMAIN q : Contains(q[k].events, type)}}

\* Those that ought to hear, S, are those tried, t, and those that the loop has
\* yet to look at, q, no channel twice.
OnTheWay(A, S, t, q, type) ==
  /\ q \in Seq(A) /\ DistinctNames(q)
  /\ t \in Seq({a.name : a \in A}) /\ \A i, j \in DOMAIN t : t[i] = t[j] => i = j
  /\ \A i \in DOMAIN t : \A j \in DOMAIN q : t[i] # q[j].name
  /\ S = ToSet(t) \cup Wanted(q, type)

\* Subscribed, for a configuration and an event.
Audience(c, e) ==
  {al \in Names(c.alerts) :
     /\ \E i \in DOMAIN c.alerts : c.alerts[i].name = al /\ Contains(c.alerts[i].events, e.type)
     /\ \A i \in DOMAIN c.checks :
          c.checks[i].name = e.check /\ c.checks[i].alerts # << >> =>
            al \in ToSet(c.checks[i].alerts)}

AfterConfig == {"serve", "clock", "state", "status", "record", "save", "deliver"}

\* What Dispatch works with, and how far it is.
ChannelsOK ==
  /\ step \in AfterConfig => ConfigOK(cfg)
  /\ Delivering => cur = [al |-> cur.al, since |-> cur.since, at |-> cur.at,
                          held |-> cur.held, ok |-> cur.ok]
  /\ ev # NoEvent =>
       /\ ConfigOK(cfg)
       /\ OnTheWay(ToSet(cfg.alerts), Audience(cfg, ev), tried, todo, ev.type)
       /\ errs \subseteq ToSet(tried)
       /\ Delivering => cur.al.name \in ToSet(tried)

DispatchOK == ProgressOK /\ ParsedOK /\ ChannelsOK

\* While no process is left behind, the delivery in progress is within its
\* timeout, and it began within those of the channels before it.
ClockOK ==
  lingered = FALSE /\ ev # NoEvent =>
    /\ clock \in Nat /\ Timeouts(cfg.alerts, ToSet(tried)) \in Nat
    /\ ~Delivering => clock <= Timeouts(cfg.alerts, ToSet(tried))
    /\ Delivering =>
         /\ cur.since \in Nat /\ cur.al.timeout \in Nat
         /\ clock <= cur.since + cur.al.timeout
         /\ cur.since + cur.al.timeout <= Timeouts(cfg.alerts, ToSet(tried))
         /\ cur.at = "exited" => ~cur.held

LingeredOK == lingered \in BOOLEAN

-----------------------------------------------------------------------------
(***************************************************************************)
(* Lines, and the tables after the first of them.                          *)
(***************************************************************************)
Keys == STRING

\* Headers name a table, assignments a key; what is assigned are tokens.
Written(f) ==
  /\ f \in Seq(ToSet(f))
  /\ \A i \in DOMAIN f :
       /\ f[i].kind \in {"table", "tables"} => f[i].path \in Seq(Keys) /\ f[i].path # << >>
       /\ f[i].kind \in {"set", "more"} => f[i].toks \in Seq(ToSet(f[i].toks))
       /\ f[i].kind = "set" => f[i].key \in Keys

Paths == Seq(Keys)
Segments == Keys \X Nat
Locs  == Seq(Segments)

\* A segment: a key and a position.
Seg(key, num) == << key, num >>

\* One element more.
Then(q, e) == Append(q, e)

\* Where a path leads after n lines.
Live(f, q, n) == [m \in 1..Len(q) |-> Seg(q[m], Position(f, SubSeq(q, 1, m), n))]

\* With each table those on the way to it.
IsTree(locs) ==
  locs \subseteq Locs /\ Root \in locs /\ \A l \in locs : \A m \in 0..Len(l) : SubSeq(l, 1, m) \in locs

\* Values stand in tables that are there.
Placed(values, locs) ==
  \A p \in DOMAIN values : p = << p[1], p[2] >> /\ p[1] \in locs /\ p[2] \in Keys

\* What stands at a key with tables at these positions.
Stands(ps) == IF ps = {0} THEN Table ELSE Tables(Max(ps))

\* These tables, this value at a key of t, and an empty table.
Grown(locs, d, t, key, value, new) ==
  [l \in locs \cup {new} |-> IF l = new THEN << >>
     ELSE IF l = t THEN [k \in DOMAIN d[t] \cup {key} |-> IF k = key THEN value ELSE d[t][k]]
     ELSE d[l]]

\* These values and one more, or another one.
Added(values, p1, value) ==
  [p \in DOMAIN values \cup {p1} |-> IF p = p1 THEN value ELSE values[p]]

\* These tables, with this value at a key of t.
Filled(locs, d, t, key, value) ==
  [l \in locs |-> IF l = t THEN [k \in DOMAIN d[t] \cup {key} |-> IF k = key THEN value ELSE d[t][k]]
                  ELSE d[l]]

\* The last element of an array, by counting headers, is the last in the tables.
Sync(f, n) ==
  \A q \in Paths, key \in Keys :
    LET x  == Position(f, Then(q, key), n)
        ps == Positions(Locations(f, n), Live(f, q, n), key)
    IN  (x = 0 /\ ps \subseteq {0}) \/ (x > 0 /\ x \in ps /\ ps \subseteq 1..x)

\* No value that is assigned is a table.
NoTables(values) == \A p \in DOMAIN values : values[p].is \notin {"table", "tables"}

\* The last of these positions of an array, or 0: there is none, or a table.
LastIs(x, ps) == (x = 0 /\ ps \subseteq {0}) \/ (x > 0 /\ x \in ps /\ ps \subseteq 1..x)

\* All is well, with these tables, here.
Leads(way, d, t) ==
  way = [doc |-> way.doc, at |-> way.at, ok |-> way.ok] /\ way.doc = d /\ way.at = t /\ way.ok

\* The tables after i segments of p have been made or passed.
Reached(f, p, n, i) == Locations(f, n) \cup {Live(f, SubSeq(p, 1, m), n) : m \in 1..i}

\* One of them is a key that has a value.
Met(f, p, n, i, values) ==
  \E m \in 1..i : << Live(f, SubSeq(p, 1, m - 1), n), p[m] >> \in DOMAIN values

\* What a key of a table names.
NamedAt(d, t, key) == IF key \in DOMAIN d[t] THEN d[t][key] ELSE Tables(0)

\* The premises of NewTableIs.
Makes(locs, values, t, key, num, new, value) ==
  /\ IsTree(locs) /\ Placed(values, locs) /\ t \in locs /\ key \in Keys /\ num \in Nat
  /\ << t, key >> \notin DOMAIN values /\ new = Then(t, Seg(key, num)) /\ new \notin locs
  /\ value = Stands(Positions(locs, t, key) \cup {num})

-----------------------------------------------------------------------------
(***************************************************************************)
(* Arrays, and all that is read so far.                                    *)
(***************************************************************************)
\* In an array, the k-th token is a scalar or a comma, in turn.
Turn(v, k) == (IsScalar(v[k]) /\ k % 2 = 0) \/ (v[k] = Comma /\ k % 2 = 1)

ArrayShape(a) ==
  a = [line |-> a.line, key |-> a.key, items |-> a.items, needComma |-> a.needComma, state |-> a.state]

\* parseArray's locals after m tokens.
OpenAt(a, v, m) ==
  /\ ArrayShape(a) /\ a.state = "open" /\ m >= 1
  /\ \A k \in 2..m : Turn(v, k)
  /\ a.items = ScalarsOf(v, m \div 2)
  /\ a.needComma <=> m % 2 = 0

ClosedAt(a, v, m) ==
  /\ ArrayShape(a) /\ a.state = "closed" /\ m >= 2
  /\ \A k \in 2..(m - 1) : Turn(v, k)
  /\ v[m] = Close
  /\ a.items = ScalarsOf(v, (m - 1) \div 2)

BadAt(a, v) == ArrayShape(a) /\ a.state = "bad" /\ ~WellFormed(v)

\* These tokens come after the first m.
After(v, m, toks) == Len(v) = m + Len(toks) /\ \A k \in 1..Len(toks) : v[m + k] = toks[k]

\* What has been read of an array: a beginning, all of it, or none.
ArrayReads(b, v) ==
  \/ b.state = "open" /\ OpenAt(b, v, Len(v)) /\ WellFormed(v) /\ ~Contains(v, Close)
  \/ b.state = "closed" /\ WellFormed(v) /\ Contains(v, Close) /\ Array(b.items) = ValueOf(v)
  \/ b.state = "bad" /\ ~WellFormed(v)

TokensOf(f) == UNION {ToSet(Toks(f[k])) : k \in DOMAIN f}

\* The text of an array begins with its bracket and has a closing one when it
\* is over; the text of anything else is on its line.
TextHolds(f, i, n) ==
  LET v == ValueText(f, i, n) IN
  /\ v \in Seq(TokensOf(f))
  /\ BeginsArray(f[i]) =>
       Len(v) >= 1 /\ v[1] = Open /\ (Contains(v, Close) <=> ~InArrayOf(f, i, n + 1))
  /\ ~BeginsArray(f[i]) => v = Toks(f[i]) /\ ~InArrayOf(f, i, n + 1)

\* The assignments that are over.
Full(f, n) == {i \in SetLines(f, n) : Complete(ValueText(f, i, n))}

\* The array that the next line lies in, as the lines so far have left it.
Unfinished(f, n, c, a) ==
  /\ a.line \in 1..n /\ InArrayOf(f, a.line, n + 1) /\ Place(f, a.line) = << c, a.key >>
  /\ OpenAt(a, ValueText(f, a.line, n), Len(ValueText(f, a.line, n)))

\* The first n lines of f have been read, and read right: the tables, the one
\* that is open, and the array.
ReadSo(f, n, d, c, a) ==
  /\ Readable(f, n) /\ Sync(f, n) /\ d = Document(f, n) /\ c = TableAt(f, n + 1)
  /\ \/ a = T!NoArray /\ ~Within(f, n + 1)
     \/ Unfinished(f, n, c, a)

\* What has been read so far is read right; an error is at the first line that
\* cannot follow, or where an array begins that the file does not finish.
ReadOK ==
  /\ at \in 1..(Len(file) + 1)
  /\ ReadSo(file, at - 1, doc, current, array)
  /\ \/ err = 0
     \/ err = at /\ at <= Len(file) /\ ~Readable(file, at)
     \/ at = Len(file) + 1 /\ array.line # 0 /\ err = array.line

-----------------------------------------------------------------------------
(***************************************************************************)
(* The lines of a whole file.                                              *)
(***************************************************************************)
\* A file that can be read to its end.
Whole(f) == Written(f) /\ Readable(f, Len(f)) /\ ~Within(f, Len(f) + 1) /\ Sync(f, Len(f))

Located(f) == Locations(f, Len(f))
Assigned(f) == Values(f, Len(f))
TablesAt(f, t, key) == Positions(Located(f), t, key)
Assignments(f) == SetLines(f, Len(f))
Said(f, i) == ValueOf(ValueText(f, i, Len(f)))

\* A path of one key, and where it leads.
One(key, num) == Then(Root, Seg(key, num))

Types == {"string", "duration", "strings", "table", "tables"}

\* Only the documented headers.
HeadersKnown(f) ==
  \A j \in HeaderLines(f, Len(f)) :
    \/ f[j].kind = "table" /\ f[j].path = << "defaults" >>
    \/ f[j].kind = "tables" /\ (f[j].path = << "check" >> \/ f[j].path = << "alert" >>)

\* The lines that begin an element of the list at this key.
Begins(f, key) == HeadersFor(f, ArrayHeader(<< key >>))

\* The table that begins on line j: 0 stands for the root.
TableOf(f, j) == IF j = 0 THEN Root ELSE Location(f, j)

Tops(f) == HeaderLines(f, Len(f)) \cup {0}

\* The lines under it that assign this key.
Givings(f, j, key) == {i \in SetLines(f, Len(f)) : Above(f, i) = j /\ f[i].key = key}

\* Only documented keys under a header, each with a value of its type.
GivesOnly(f, j, keys) ==
  \A i \in Assignments(f) : Above(f, i) = j => f[i].key \in DOMAIN keys /\ HasType(Said(f, i), keys[f[i].key])
=============================================================================
