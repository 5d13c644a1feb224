------------------------------ MODULE Command ------------------------------
(***************************************************************************)
(* One run of the lastbeat program, from its arguments to its exit code:   *)
(* cli.Run takes the arguments apart; a command that needs it reads the    *)
(* configuration file (Toml, ConfigFile); what it records it saves; the    *)
(* events go out one after the other (Dispatch).                           *)
(*                                                                         *)
(* External: the arguments and the file; whether LASTBEAT_NOW is a time,   *)
(* the files can be read and written; the state, of which only the events  *)
(* that a command may have matter here (module Monitor says when it has    *)
(* them, Daemonless what other processes do to the file).  What serve does *)
(* until its end is module Serve.                                          *)
(*                                                                         *)
(* An argument is a word, a flag, a flag with a value after "=", or "--".  *)
(* It comes as it was typed (text), a flag also as parseFlags takes it     *)
(* apart: its name, without the dashes, and its value.                     *)
(***************************************************************************)
EXTENDS Dispatch

CONSTANT Inputs      \* arguments and file: [argv, file]

\* splitHeader: a header names one table at least.  Text is what is assigned.
ASSUME CommandAssumption ==
  \A input \in Inputs :
    /\ input.argv \in Seq(ToSet(input.argv))
    /\ input.file \in Seq(ToSet(input.file))
    /\ \A i \in DOMAIN input.file : LET line == input.file[i] IN
         /\ line.kind \in {"table", "tables"} => line.path \in Seq(STRING) /\ line.path # << >>
         /\ line.kind \in {"set", "more"} => line.toks \in Seq(ToSet(line.toks))
         /\ line.kind = "set" => line.key \in STRING /\ \A k \in 1..Len(line.toks) :
              line.toks[k].is = "string" => line.toks[k].text \in Text

VARIABLES
  file, at, doc, current, array, err,      \* as in Toml
  args,       \* the arguments not yet looked at
  cmd,        \* the command
  cmdArgs,    \* its arguments
  flags,      \* the flags seen, with their values
  pos,        \* the arguments that are no flags
  step,       \* where the program is
  events,     \* the events yet to be dispatched
  saved,      \* history: the state file has been replaced
  exit        \* the exit code, or Running

T == INSTANCE Toml

parseVars == << file, at, doc, current, array, err >>
argVars == << args, cmd, cmdArgs, flags, pos >>
runVars == << step, events, saved, exit >>
vars    == << parseVars, argVars, runVars, cfg, callVars >>

Running == -1
ExitOK == 0
ExitBreach == 1
ExitUsage == 2
ExitRuntime == 3

Word(text)                == [is |-> "word", text |-> text]
Flag(text, name)          == [is |-> "flag", text |-> text, name |-> name]
FlagEq(text, name, value) == [is |-> "flag=", text |-> text, name |-> name, value |-> value]
DashDash                  == [is |-> "--", text |-> "--"]

Help        == {"-h", "--help"}
GlobalInfo  == Help \cup {"help", "-V", "--version"}
GlobalFile  == {"-c", "--config"}
Recording   == {"ping", "fail", "sweep"}
Commands    == Recording \cup {"status", "serve", "checks", "init", "version"}

\* The flags a command knows: TRUE if they take a value.
FlagsOf(c) ==
  CASE c \in {"ping", "fail"} -> ("note" :> TRUE)
    [] c = "sweep"            -> ("json" :> FALSE)
    [] c = "status"           -> ("format" :> TRUE) @@ ("fail-on-down" :> FALSE)

Init ==
  /\ \E input \in Inputs : args = input.argv /\ T!Start(input.file)
  /\ cmd = "" /\ cmdArgs = << >> /\ flags = NoKeys /\ pos = << >>
  /\ step = "global" /\ events = << >> /\ saved = FALSE /\ exit = Running
  /\ cfg = NoConfig /\ Uncalled

Exit(code) == step' = "done" /\ exit' = code /\ UNCHANGED << events, saved >>
Goto(s)    == step' = s /\ UNCHANGED << exit, events, saved >>
At(s)      == step = s /\ UNCHANGED << parseVars, cfg, callVars >>

-----------------------------------------------------------------------------
(* Arguments. *)
Some == args # << >>
Arg  == Head(args)
Drop(n) == args' = SubSeq(args, n + 1, Len(args))

\* -c FILE: the file read later is this one.
GlobalConfig ==
  /\ At("global") /\ Some /\ Arg.text \in GlobalFile /\ Len(args) > 1
  /\ Drop(2)
  /\ UNCHANGED << runVars, cmd, cmdArgs, flags, pos >>

GlobalHelp ==
  /\ At("global") /\ Some /\ Arg.text \in GlobalInfo
  /\ Exit(ExitOK)
  /\ UNCHANGED argVars

IsCommand == Some /\ Arg.text \in Commands

NoCommand ==
  /\ At("global") /\ ~IsCommand
  /\ Some => Arg.text \notin GlobalInfo /\ (Arg.text \in GlobalFile => Len(args) = 1)
  /\ Exit(ExitUsage)
  /\ UNCHANGED argVars

ChooseCommand ==
  /\ At("global") /\ IsCommand
  /\ cmd' = Arg.text /\ cmdArgs' = Tail(args) /\ Drop(1)
  /\ Goto("command")
  /\ UNCHANGED << flags, pos >>

AsksHelp == Some /\ Arg.text \in Help

CommandHelp ==
  /\ At("command") /\ (AsksHelp \/ cmd = "version")
  /\ Exit(ExitOK)
  /\ UNCHANGED argVars

\* serve, checks and init do not parse flags.
Enough == Len(args) <= IF cmd = "init" THEN 1 ELSE 0

NoFlags ==
  /\ At("command") /\ ~AsksHelp /\ cmd \in {"serve", "checks", "init"}
  /\ IF ~Enough THEN Exit(ExitUsage)
     ELSE IF cmd = "init" THEN Goto("init") ELSE Goto("config")
  /\ UNCHANGED argVars

ParseFlags ==
  /\ At("command") /\ ~AsksHelp /\ cmd \in Recording \cup {"status"}
  /\ Goto("flags")
  /\ UNCHANGED argVars

\* The loop of parseFlags, argument by argument.
ParsingFlags == At("flags") /\ UNCHANGED << cmd, cmdArgs >>

Positional ==
  /\ ParsingFlags /\ Some /\ Arg.is = "word"
  /\ pos' = Append(pos, Arg.text) /\ Drop(1)
  /\ UNCHANGED << runVars, flags >>

\* mutant: what follows "--" is parsed like what stands before
FlagsEndBug ==
  /\ ParsingFlags /\ Some /\ Arg.is = "--"
  /\ Drop(1)
  /\ UNCHANGED << runVars, flags, pos >>

\* What follows is taken as it was typed.
FlagsEnd ==
  /\ ParsingFlags /\ Some /\ Arg.is = "--"
  /\ pos' = pos \o [i \in DOMAIN Tail(args) |-> Tail(args)[i].text]
  /\ Drop(Len(args))
  /\ UNCHANGED << runVars, flags >>

IsFlag     == Some /\ Arg.is \in {"flag", "flag="}
Known      == Arg.name \in DOMAIN FlagsOf(cmd)
TakesValue == FlagsOf(cmd)[Arg.name]

Seen(value, n) ==
  flags' = T!With(flags, Arg.name, value) /\ Drop(n) /\ UNCHANGED << runVars, pos >>

FlagAlone == ParsingFlags /\ IsFlag /\ Known /\ Arg.is = "flag" /\ ~TakesValue /\ Seen("true", 1)
FlagEquals == ParsingFlags /\ IsFlag /\ Known /\ Arg.is = "flag=" /\ TakesValue /\ Seen(Arg.value, 1)

\* mutant: the value is left among the arguments
FlagValueBug ==
  /\ ParsingFlags /\ IsFlag /\ Known /\ Arg.is = "flag" /\ TakesValue /\ Len(args) > 1
  /\ Seen(args[2].text, 1)

\* The next argument is the value, as it was typed, whatever it looks like.
FlagValue ==
  /\ ParsingFlags /\ IsFlag /\ Known /\ Arg.is = "flag" /\ TakesValue /\ Len(args) > 1
  /\ Seen(args[2].text, 2)

FlagRefused ==
  /\ ParsingFlags /\ IsFlag
  /\ Known => IF TakesValue THEN Arg.is = "flag" /\ Len(args) = 1 ELSE Arg.is = "flag="
  /\ Exit(ExitUsage)
  /\ UNCHANGED argVars

Formats == {"", "text", "json"}

ArgumentsOK ==
  /\ Len(pos) = IF cmd \in {"ping", "fail"} THEN 1 ELSE 0
  /\ "format" \in DOMAIN flags => flags["format"] \in Formats

FlagsParsed ==
  /\ ParsingFlags /\ ~Some
  /\ IF ArgumentsOK THEN Goto("config") ELSE Exit(ExitUsage)
  /\ UNCHANGED argVars

-----------------------------------------------------------------------------
(* The commands. *)

\* init: there is a file already, or it cannot be written, or it is written.
InitCommand ==
  /\ At("init")
  /\ \E code \in {ExitOK, ExitRuntime} : Exit(code)
  /\ UNCHANGED argVars

ConfigUnreadable == At("config") /\ at = 1 /\ err = 0 /\ Exit(ExitRuntime) /\ UNCHANGED argVars

ReadConfig ==
  /\ step = "config"
  /\ T!ParseLine
  /\ UNCHANGED << argVars, runVars, cfg, callVars >>

ConfigRefused ==
  /\ At("config")
  /\ err # 0 \/ (T!Parsed /\ ~Loads(doc))
  /\ Exit(ExitRuntime)
  /\ UNCHANGED argVars

LoadConfig ==
  /\ step = "config" /\ T!Parsed /\ Loads(doc)
  /\ cfg' = Decode(doc)
  /\ CASE cmd = "checks" -> Exit(ExitOK)
       [] cmd = "serve"  -> Goto("serve")
       [] OTHER          -> Goto("clock")
  /\ UNCHANGED << parseVars, argVars, callVars >>

\* server.New fails, or Run, or it ends with a signal.
ServeCommand ==
  /\ At("serve")
  /\ \E code \in {ExitOK, ExitRuntime} : Exit(code)
  /\ UNCHANGED argVars

ReadClock(ok) ==
  /\ At("clock")
  /\ IF ok THEN Goto("state") ELSE Exit(ExitUsage)
  /\ UNCHANGED argVars

LoadState(ok) ==
  /\ At("state")
  /\ IF ~ok THEN Exit(ExitRuntime)
     ELSE IF cmd = "status" THEN Goto("status") ELSE Goto("record")
  /\ UNCHANGED argVars

Status(down) ==
  /\ At("status")
  /\ Exit(IF down /\ "fail-on-down" \in DOMAIN flags THEN ExitBreach ELSE ExitOK)
  /\ UNCHANGED argVars

Configured == Names(cfg.checks)

RecordRefused ==
  /\ At("record") /\ cmd \in {"ping", "fail"} /\ pos[1] \notin Configured
  /\ Exit(ExitRuntime)
  /\ UNCHANGED argVars

Event(name, type) == [check |-> name, type |-> type]

\* A sweep has an event for some of the checks, in their order.
SweepEvents ==
  {LET fired == SelectSeq(cfg.checks, LAMBDA chk : types[chk.name] # "none")
   IN  [i \in DOMAIN fired |-> Event(fired[i].name, types[fired[i].name])] :
     types \in [Configured -> {"none", "late", "down"}]}

Record ==
  /\ At("record")
  /\ cmd \in {"ping", "fail"} => pos[1] \in Configured
  /\ events' \in CASE cmd = "ping"  -> {<< >>, << Event(pos[1], "recovered") >>}
                   [] cmd = "fail"  -> {<< Event(pos[1], "failed") >>}
                   [] cmd = "sweep" -> SweepEvents
  /\ step' = "save"
  /\ UNCHANGED << argVars, saved, exit >>

\* mutant: an error of the save is only reported
SaveBug(ok) ==
  /\ At("save")
  /\ saved' = ok /\ step' = "deliver"
  /\ UNCHANGED << argVars, events, exit >>

Save(ok) ==
  /\ At("save")
  /\ IF ok THEN saved' = TRUE /\ step' = "deliver" /\ UNCHANGED << events, exit >>
     ELSE Exit(ExitRuntime)
  /\ UNCHANGED argVars

DispatchNext ==
  /\ step = "deliver" /\ events # << >>
  /\ Call(Head(events))
  /\ events' = Tail(events)
  /\ UNCHANGED << parseVars, argVars, step, saved, exit >>

Deliveries == Delivery /\ UNCHANGED << parseVars, argVars, runVars >>

\* mutant: a delivery that failed is an error of the command
FinishBug ==
  /\ At("deliver") /\ Done /\ events = << >>
  /\ Exit(IF errs = {} THEN ExitOK ELSE ExitRuntime)
  /\ UNCHANGED argVars

\* Errors of deliveries are warnings.
Finish ==
  /\ At("deliver") /\ Done /\ events = << >>
  /\ Exit(ExitOK)
  /\ UNCHANGED argVars

-----------------------------------------------------------------------------
Arguments ==
  \/ GlobalConfig \/ GlobalHelp \/ NoCommand \/ ChooseCommand
  \/ CommandHelp \/ NoFlags \/ ParseFlags
  \/ Positional \/ FlagsEnd \/ FlagAlone \/ FlagEquals \/ FlagValue \/ FlagRefused
  \/ FlagsParsed

Commanded ==
  \/ InitCommand
  \/ ConfigUnreadable \/ ReadConfig \/ ConfigRefused \/ LoadConfig
  \/ \E ok \in BOOLEAN : ReadClock(ok) \/ LoadState(ok) \/ Status(ok) \/ Save(ok)
  \/ RecordRefused \/ Record
  \/ DispatchNext \/ Finish

Next == Arguments \/ Commanded \/ ServeCommand \/ Deliveries

Spec == Init /\ [][Next]_vars

\* The program goes on and time passes; nothing is asked of receivers and
\* commands, and nothing ends serve.
FairSpec ==
  /\ Spec
  /\ WF_vars(Arguments \/ Commanded \/ (Deliveries /\ Own))
  /\ WF_vars(Deliveries /\ Tick)

-----------------------------------------------------------------------------
(***************************************************************************)
(* Properties.                                                             *)
(***************************************************************************)

\* The file is not misread (see Toml), and errors name the line at fault.
ReadsExactly == step = "config" => T!ReadsExactly

\* A configuration is in force exactly if the file says nothing that the
\* documentation does not, and it is what the documentation says it means: no
\* misspelt key, wrong type, reference or schedule is passed over, wherever in
\* the file it stands, and each value is in effect in its place, with the
\* documented defaults for what is not there.
LoadsExactly ==
  [][ /\ cfg' # cfg => cfg = NoConfig /\ Valid(file) /\ cfg' = Meant(file)
      /\ step = "config" /\ exit' = ExitRuntime /\ (err # 0 \/ T!Parsed) =>
           ~Valid(file) ]_<< cfg, exit >>

\* What the arguments of a command say, read as a whole.  A flag may take a value.
Takes(i) ==
  /\ i \in DOMAIN cmdArgs /\ cmdArgs[i].is = "flag" /\ cmdArgs[i].name \in DOMAIN FlagsOf(cmd)
  /\ FlagsOf(cmd)[cmdArgs[i].name]

\* In a row of such flags and what follows it, every second argument is a value.
IsValue(i) ==
  \E n \in 1..(i - 1) : n % 2 = 1 /\ ~Takes(i - n - 1) /\ \A k \in (i - n)..(i - 1) : Takes(k)

\* No flags come after "--".
Ended(i) == \E k \in 1..(i - 1) : cmdArgs[k].is = "--" /\ ~IsValue(k)

Named == {i \in DOMAIN cmdArgs : Ended(i) \/ (cmdArgs[i].is = "word" /\ ~IsValue(i))}

GivenFlags == {i \in DOMAIN cmdArgs : cmdArgs[i].is \in {"flag", "flag="} /\ ~IsValue(i) /\ ~Ended(i)}

FlagAt(name) == {i \in GivenFlags : cmdArgs[i].name = name}

\* Of a flag that is given twice the last counts.
InForce(i, name) == i \in FlagAt(name) /\ \A k \in FlagAt(name) : k <= i

SaysAt(i) ==
  IF Takes(i) THEN cmdArgs[i + 1].text ELSE IF cmdArgs[i].is = "flag=" THEN cmdArgs[i].value ELSE "true"

\* The usage lines: one name for ping and fail, only their own flags, each with a
\* value if it takes one and without if not, a format that there is.
FollowsUsage ==
  /\ IF cmd \in {"ping", "fail"} THEN \E i \in Named : Named = {i} ELSE Named = {}
  /\ \A i \in GivenFlags : LET name == cmdArgs[i].name IN
       /\ name \in DOMAIN FlagsOf(cmd)
       /\ cmdArgs[i].is = "flag=" => FlagsOf(cmd)[name]
       /\ Takes(i) => i < Len(cmdArgs)
       /\ name = "format" /\ InForce(i, name) => SaysAt(i) \in Formats

\* The flags of parseFlags are those that the arguments give, with their values.
FlagsAsGiven ==
  /\ \A name \in DOMAIN flags : \E i \in FlagAt(name) : InForce(i, name) /\ flags[name] = SaysAt(i)
  /\ \A name \in DOMAIN FlagsOf(cmd) : FlagAt(name) # {} => name \in DOMAIN flags

\* A command goes to work, or fails, just if its arguments follow its usage, with
\* the flags that they give; if not it ends with a usage error, for which else
\* there is only LASTBEAT_NOW, looked at with the configuration loaded.
ArgumentsUnderstood ==
  cmd \in Recording \cup {"status"} =>
    /\ cfg # NoConfig \/ exit = ExitRuntime => FollowsUsage /\ FlagsAsGiven
    /\ exit = ExitUsage => ~FollowsUsage \/ (T!Parsed /\ Loads(doc))

\* README.md: "exit codes: 0 ok, 1 --fail-on-down breach, 2 usage error, 3
\* runtime error".  A usage error is one, and comes before anything is done.  A
\* run that does not exit 0 has changed nothing and told nobody; nobody is told
\* what is not saved first; one that exits 0 has done what it was asked to, even
\* if deliveries have failed; ping and fail have done it to the check that their
\* arguments name, which is configured.  Only --fail-on-down gives exit code 1.
ExitTellsWhatHappened ==
  /\ ArgumentsUnderstood
  /\ exit \in {ExitBreach, ExitUsage, ExitRuntime} => ~saved /\ ev = NoEvent
  /\ ev # NoEvent => saved
  /\ saved /\ cmd \in {"ping", "fail"} => \A i \in Named :
       cmdArgs[i].text \in Configured /\ (ev # NoEvent => ev.check = cmdArgs[i].text)
  /\ exit = ExitBreach => FlagAt("fail-on-down") # {}
  /\ exit = ExitOK /\ cfg # NoConfig /\ cmd \in Recording => saved /\ events = << >> /\ Done

\* Every run ends, whatever the receivers do and however the deliveries fail;
\* but serve does not, nor does a run in which a command leaves a process behind.
Ends == <>(exit # Running \/ step = "serve" \/ lingered)
=============================================================================
