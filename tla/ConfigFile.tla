----------------------------- MODULE ConfigFile -----------------------------
(***************************************************************************)
(* internal/config: from the tables of a parsed file to a configuration,   *)
(* or an error.  The decoder asks for each key it knows, with its type,    *)
(* and then refuses the table if there is any other; validate looks at     *)
(* the whole.  Which of several errors is reported is left out.            *)
(*                                                                         *)
(* A text is what a string of the file holds.  What package duration makes *)
(* of it is given by Lasts, in seconds: 0 is a positive duration below one *)
(* second (which only a number that wraps around can be), NoDuration an    *)
(* error.                                                                  *)
(***************************************************************************)
EXTENDS TomlText

CONSTANTS
  Text,             \* the texts in the files
  Lasts,            \* [Text -> durations]: duration.Parse
  GoodName,         \* the texts that nameRe matches
  DefaultSweep,     \* 1 minute
  DefaultGrace,     \* 5 minutes
  DefaultTimeout    \* 10 seconds

NoDuration == -1
AllEvents == {"down", "late", "failed", "recovered"}

ASSUME ConfigFileAssumption ==
  /\ Lasts \in [Text -> Nat \cup {NoDuration}]
  /\ "" \in Text => Lasts[""] = NoDuration
  /\ GoodName \subseteq Text \ {""}
  /\ {DefaultSweep, DefaultGrace, DefaultTimeout} \subseteq Nat \ {0}

-----------------------------------------------------------------------------
(* The decoder. *)

HasType(value, type) ==
  CASE type = "string"   -> value.is = "string"
    [] type = "duration" -> value.is = "string" /\ Lasts[value.text] # NoDuration
    [] type = "strings"  -> /\ value.is = "array"
                            /\ \A i \in DOMAIN value.items : value.items[i].is = "string"
    [] type = "table"    -> value.is = "table"
    [] type = "tables"   -> value.is = "tables"

TopKeys ==
  [ listen |-> "string", state_file |-> "string", ping_key |-> "string",
    sweep_every |-> "duration", defaults |-> "table", check |-> "tables", alert |-> "tables" ]

DefaultsKeys == [ grace |-> "duration" ]

CheckKeys ==
  [ name |-> "string", grace |-> "duration", alerts |-> "strings", tags |-> "strings",
    interval |-> "duration" ]

AlertKeys ==
  [ name |-> "string", url |-> "string", command |-> "strings", events |-> "strings",
    timeout |-> "duration" ]

\* mutant: finish does not look for unknown keys
DecodesBug(t, keys) == \A k \in DOMAIN t \cap DOMAIN keys : HasType(t[k], keys[k])

Decodes(t, keys) == \A k \in DOMAIN t : k \in DOMAIN keys /\ HasType(t[k], keys[k])

TextOf(t, key, default) == IF key \in DOMAIN t THEN t[key].text ELSE default
Dur(t, key, default) == IF key \in DOMAIN t THEN Lasts[t[key].text] ELSE default
Texts(t, key) ==
  IF key \in DOMAIN t THEN [i \in DOMAIN t[key].items |-> t[key].items[i].text] ELSE << >>

Size(doc, key) == IF key \in DOMAIN doc[Root] THEN doc[Root][key].size ELSE 0
Nth(doc, key, i) == doc[<< << key, i >> >>]

HasDefaults(doc) == "defaults" \in DOMAIN doc[Root]
Defaults(doc) == IF HasDefaults(doc) THEN doc[<< << "defaults", 0 >> >>] ELSE NoKeys

DecodeCheck(t, defaultGrace) ==
  [ name     |-> TextOf(t, "name", ""),
    interval |-> Dur(t, "interval", 0),
    grace    |-> Dur(t, "grace", defaultGrace),
    alerts   |-> Texts(t, "alerts") ]

\* mutant: an empty list of events subscribes to none
EventsBug(t) == IF "events" \in DOMAIN t THEN Texts(t, "events") ELSE << "down", "failed", "recovered" >>

Events(t) == IF Texts(t, "events") = << >> THEN << "down", "failed", "recovered" >>
             ELSE Texts(t, "events")

DecodeAlert(t) ==
  [ name    |-> TextOf(t, "name", ""),
    url     |-> TextOf(t, "url", ""),
    command |-> Texts(t, "command"),
    events  |-> Events(t),
    timeout |-> Dur(t, "timeout", DefaultTimeout) ]

\* mutant: the [defaults] table is not looked at
GraceByDefaultBug(doc) == DefaultGrace

GraceByDefault(doc) == Dur(Defaults(doc), "grace", DefaultGrace)

Decode(doc) ==
  LET top == doc[Root] IN
  [ listen     |-> TextOf(top, "listen", "127.0.0.1:8377"),
    stateFile  |-> TextOf(top, "state_file", "lastbeat.state.json"),
    pingKey    |-> TextOf(top, "ping_key", ""),
    sweepEvery |-> Dur(top, "sweep_every", DefaultSweep),
    checks     |-> [i \in 1..Size(doc, "check") |->
                     DecodeCheck(Nth(doc, "check", i), GraceByDefault(doc))],
    alerts     |-> [i \in 1..Size(doc, "alert") |-> DecodeAlert(Nth(doc, "alert", i))] ]

Decodable(doc) ==
  /\ Decodes(doc[Root], TopKeys)
  /\ Decodes(Defaults(doc), DefaultsKeys)
  /\ \A i \in 1..Size(doc, "check") : Decodes(Nth(doc, "check", i), CheckKeys)
  /\ \A i \in 1..Size(doc, "alert") : Decodes(Nth(doc, "alert", i), AlertKeys)

-----------------------------------------------------------------------------
(* Config.validate, and the required keys; a second is 1. *)

Names(s) == {s[i].name : i \in DOMAIN s}

NamesOK(s) ==
  /\ \A i \in DOMAIN s : s[i].name \in GoodName
  /\ \A i, j \in DOMAIN s : i < j => s[j].name # s[i].name

Validate(c) ==
  /\ c.checks # << >>
  /\ NamesOK(c.checks) /\ NamesOK(c.alerts)
  /\ \A i \in DOMAIN c.checks : c.checks[i].interval >= 1
  /\ \A i \in DOMAIN c.alerts :
       LET al == c.alerts[i] IN
       /\ (al.url = "") # (al.command = << >>)
       /\ ToSet(al.events) \subseteq AllEvents
       /\ al.timeout >= 1
  /\ \A i \in DOMAIN c.checks : ToSet(c.checks[i].alerts) \subseteq Names(c.alerts)
  /\ c.sweepEvery >= 1

\* config.Parse, of a file that toml.Parse has read.
Loads(doc) == Decodable(doc) /\ Validate(Decode(doc))

-----------------------------------------------------------------------------
(***************************************************************************)
(* What docs/config.md says that a file means, from its lines.             *)
(***************************************************************************)
\* The lines with this header, and the n-th of them.
HeadersFor(f, header) ==
  {j \in HeaderLines(f, Len(f)) : f[j].kind = header.kind /\ f[j].path = header.path}

UpTo(lines, j) == Cardinality({i \in lines : i <= j})

NthLine(lines, n) == CHOOSE j \in lines : UpTo(lines, j) = n

\* What is assigned to the key under the header on line j (0: above them all);
\* otherwise, otherwise.
Given(f, j, key, otherwise) ==
  LET lines == {i \in SetLines(f, Len(f)) : Above(f, i) = j /\ f[i].key = key}
  IN  IF lines = {} THEN otherwise
      ELSE LET value == ValueOf(ValueText(f, CHOOSE i \in lines : TRUE, Len(f)))
           IN  CASE value.is = "array" -> [k \in DOMAIN value.items |-> value.items[k].text]
                 [] OTHER              -> value.text

GivenTime(f, j, key, otherwise) ==
  LET text == Given(f, j, key, "") IN IF text = "" THEN otherwise ELSE Lasts[text]

GraceOfAll(f) ==
  LET defaults == HeadersFor(f, Header(<< "defaults" >>))
  IN  IF defaults = {} THEN DefaultGrace
      ELSE GivenTime(f, CHOOSE j \in defaults : TRUE, "grace", DefaultGrace)

MeantCheck(f, j) ==
  [ name     |-> Given(f, j, "name", ""),
    interval |-> GivenTime(f, j, "interval", 0),
    grace    |-> GivenTime(f, j, "grace", GraceOfAll(f)),
    alerts   |-> Given(f, j, "alerts", << >>) ]

MeantAlert(f, j) ==
  LET events == Given(f, j, "events", << >>) IN
  [ name    |-> Given(f, j, "name", ""),
    url     |-> Given(f, j, "url", ""),
    command |-> Given(f, j, "command", << >>),
    events  |-> IF events # << >> THEN events ELSE << "down", "failed", "recovered" >>,
    timeout |-> GivenTime(f, j, "timeout", DefaultTimeout) ]

Meant(f) ==
  LET checks == HeadersFor(f, ArrayHeader(<< "check" >>))
      alerts == HeadersFor(f, ArrayHeader(<< "alert" >>))
  IN  [ listen     |-> Given(f, 0, "listen", "127.0.0.1:8377"),
        stateFile  |-> Given(f, 0, "state_file", "lastbeat.state.json"),
        pingKey    |-> Given(f, 0, "ping_key", ""),
        sweepEvery |-> GivenTime(f, 0, "sweep_every", DefaultSweep),
        checks |-> [n \in 1..Cardinality(checks) |-> MeantCheck(f, NthLine(checks, n))],
        alerts |-> [n \in 1..Cardinality(alerts) |-> MeantAlert(f, NthLine(alerts, n))] ]

\* Only documented headers and keys, each with a value of its type.
KeysUnder(f, j) ==
  IF j = 0 THEN TopKeys
  ELSE CASE f[j].path[1] = "defaults" -> DefaultsKeys
         [] f[j].path[1] = "check"    -> CheckKeys
         [] f[j].path[1] = "alert"    -> AlertKeys

Documented == {Header(<< "defaults" >>), ArrayHeader(<< "check" >>), ArrayHeader(<< "alert" >>)}

OnlyDocumented(f) ==
  /\ HeaderLines(f, Len(f)) = UNION {HeadersFor(f, header) : header \in Documented}
  /\ \A i \in SetLines(f, Len(f)) :
       LET keys == KeysUnder(f, Above(f, i)) IN
       f[i].key \in DOMAIN keys /\ HasType(ValueOf(ValueText(f, i, Len(f))), keys[f[i].key])

\* There is a check; names are well formed and not used twice; schedules and
\* timeouts are a second at least; a channel has a url or a command, and known
\* events; a check names channels that there are.
Usable(c) ==
  /\ Len(c.checks) > 0
  /\ Names(c.checks) \cup Names(c.alerts) \subseteq GoodName
  /\ Cardinality(Names(c.checks)) = Len(c.checks)
  /\ Cardinality(Names(c.alerts)) = Len(c.alerts)
  /\ \A i \in DOMAIN c.checks :
       /\ c.checks[i].interval > 0
       /\ \A k \in DOMAIN c.checks[i].alerts :
            \E j \in DOMAIN c.alerts : c.alerts[j].name = c.checks[i].alerts[k]
  /\ \A j \in DOMAIN c.alerts :
       /\ c.alerts[j].url = "" <=> c.alerts[j].command # << >>
       /\ \A k \in DOMAIN c.alerts[j].events : c.alerts[j].events[k] \in AllEvents
       /\ c.alerts[j].timeout > 0
  /\ c.sweepEvery > 0

\* A file that says nothing the documentation does not.
Valid(f) ==
  /\ Readable(f, Len(f)) /\ ~Within(f, Len(f) + 1)
  /\ OnlyDocumented(f) /\ Usable(Meant(f))
=============================================================================
