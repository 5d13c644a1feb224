----------------------------- MODULE MCCommand -----------------------------
(***************************************************************************)
(* Command for TLC.  Files: every sequence of at most MaxLines lines that  *)
(* build tables and arrays; a full configuration, as it is and with each   *)
(* line left out, repeated or replaced, or a line put before it, by every  *)
(* mistake of a list; and every routing and subscription of three channels *)
(* (two webhooks around a command) and two checks.  Arguments: every       *)
(* short sequence for each command, with one small file.                   *)
(***************************************************************************)
EXTENDS Command

CONSTANT MaxLines

Texts0 == [t \in {"", "a", "b", "hook", "mail", "log", "no name", "/p", "down", "late", "recovered", "soon"} |-> NoDuration]
MCLasts == ("1s" :> 1) @@ ("2s" :> 2) @@ ("wraps" :> 0) @@ Texts0
MCText == DOMAIN MCLasts
MCGoodName == {"a", "b", "hook", "mail", "log"}

-----------------------------------------------------------------------------
Strs(s) == << Open >> \o FlattenSeq([i \in DOMAIN s |-> << Str(s[i]), Comma >>]) \o << Close >>
Is(key, text)  == Set(key, << Str(text) >>)
Are(key, s)    == Set(key, Strs(s))

Seqs(S, n) == UNION {[1..k -> S] : k \in 0..n}

\* Lines that build tables and arrays.
StructureLines ==
  { Header(<< "x" >>), ArrayHeader(<< "x" >>), Header(<< "x", "y" >>), ArrayHeader(<< "x", "y" >>),
    Set("y", << Int0 >>), Set("x", << Open, Str("a") >>), More(<< Comma, Bool0 >>),
    More(<< Close >>), Blank }

Structures == Seqs(StructureLines, MaxLines)

\* A full configuration, and what may go wrong in any of its lines.
Full ==
  << Is("sweep_every", "1s"), Is("listen", "a"),
     ArrayHeader(<< "check" >>), Is("name", "a"), Is("interval", "2s"),
       Set("alerts", << Open, Str("hook") >>), More(<< Comma, Str("log"), Close >>),
     ArrayHeader(<< "check" >>), Is("name", "b"), Is("interval", "1s"), Is("grace", "1s"),
       Are("tags", << "a" >>),
     Header(<< "defaults" >>), Is("grace", "2s"),
     ArrayHeader(<< "alert" >>), Is("name", "hook"), Is("url", "/p"), Is("timeout", "1s"),
       Are("events", << "down", "late" >>),
     Blank,
     ArrayHeader(<< "alert" >>), Is("name", "mail"), Are("command", << "/p" >>),
     ArrayHeader(<< "alert" >>), Is("name", "log"), Is("url", "/p"), Are("events", << >>) >>

Mistakes ==
  { JunkLine, More(<< Close >>), Header(<< "check" >>), Header(<< "defaults" >>),
    Header(<< "alert", "x" >>), ArrayHeader(<< "defaults" >>), ArrayHeader(<< "check" >>),
    Is("internal", "1s"), Is("name", "no name"), Is("name", "a"), Is("name", "log"),
    Is("interval", "soon"), Is("interval", "wraps"), Is("timeout", "wraps"), Is("grace", "wraps"),
    Is("url", ""), Is("url", "/p"), Are("command", << >>), Is("alerts", "hook"), Are("alerts", << >>),
    Are("alerts", << "hook", "down" >>), Are("events", << "down", "soon" >>),
    Set("tags", << Open, Int0, Close >>), Set("events", << Open, Str("down") >>),
    Set("name", << Junk >>), Set("url", << >>), Set("grace", << Int0 >>) }

Variants ==
  {Full} \cup {RemoveAt(Full, i) : i \in DOMAIN Full}
    \cup {InsertAt(Full, i, Full[i]) : i \in DOMAIN Full}
    \cup {InsertAt(Full, i, line) : i \in 1..(Len(Full) + 1), line \in Mistakes}
    \cup {ReplaceAt(Full, i, line) : i \in DOMAIN Full, line \in Mistakes}

\* Routings and subscriptions.
Routed(lists, someEvents, otherEvents) ==
  << ArrayHeader(<< "check" >>), Is("name", "a"), Is("interval", "2s"), Are("alerts", lists),
     ArrayHeader(<< "check" >>), Is("name", "b"), Is("interval", "1s"),
     ArrayHeader(<< "alert" >>), Is("name", "hook"), Is("url", "/p"), Is("timeout", "1s"),
       Are("events", someEvents),
     ArrayHeader(<< "alert" >>), Is("name", "mail"), Are("command", << "/p" >>), Is("timeout", "2s"),
       Are("events", otherEvents),
     ArrayHeader(<< "alert" >>), Is("name", "log"), Is("url", "/p"), Is("timeout", "1s"),
       Are("events", << "late", "down" >>) >>

Routings ==
  { Routed(lists, some, others) :
      lists \in Seqs({"hook", "mail", "log"}, 2), some \in Seqs({"down", "late"}, 1),
      others \in {<< "down" >>, << "late", "down" >>} }

Small ==
  << ArrayHeader(<< "check" >>), Is("name", "a"), Is("interval", "2s"),
     ArrayHeader(<< "alert" >>), Is("name", "mail"), Are("command", << "/p" >>), Is("timeout", "1s") >>

Note == Flag("--note", "note")

Arguments0 ==
  { Word("a"), Word("z"), Word("json"), DashDash, Note, FlagEq("--note=z", "note", "z"),
    Flag("--json", "json"), FlagEq("-json=z", "json", "z"), Flag("-format", "format"),
    FlagEq("--format=json", "format", "json"), Flag("--fail-on-down", "fail-on-down"),
    Flag("--help", "help") }

Argvs ==
  { << Word(c) >> \o rest : c \in Commands,
      rest \in Seqs(Arguments0, 2) \cup Seqs({Word("a"), DashDash, Note}, 4) }
    \cup Seqs({Flag("-c", "c"), Word("f"), Flag("-V", "V"), Word("status"), Flag("-h", "h")}, 3)

MCInputs ==
  [argv : {<< Word("checks") >>}, file : Structures \cup Variants]
    \cup [argv : {<< Word("sweep") >>}, file : Routings]
    \cup [argv : Argvs, file : {Small}]
=============================================================================
