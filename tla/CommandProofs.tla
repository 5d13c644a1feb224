--------------------------- MODULE CommandProofs ---------------------------
(***************************************************************************)
(* Proofs about Command, for every list of arguments, every file and every *)
(* behaviour of receivers: the exit code tells what happened, each channel *)
(* that ought to hear of an event is tried once, the file is read as what  *)
(* it says, or refused at the right line, and the configuration in force   *)
(* is what the documentation says that the file means.                     *)
(*                                                                         *)
(* The second needs the configuration to be one, with distinct names, and  *)
(* this the tables of the parser: Toml never leads to a table that is not  *)
(* there.  The third relates these tables to the whole of the lines read:  *)
(* ReadOK.  The last, at the end of this module, relates the tables of a   *)
(* whole file to its headers, counted.                                     *)
(***************************************************************************)
EXTENDS CommandInvariants, SelectionProofs, FiniteSetTheorems

-----------------------------------------------------------------------------
(***************************************************************************)
(* The exit code.                                                          *)
(***************************************************************************)

\* Nothing is done at first.
LEMMA ProgressInit ==
  ASSUME Init
  PROVE  ProgressOK
BY DEF Init, Uncalled, ProgressOK, Running, ExitOK, ExitBreach, ExitUsage, ExitRuntime,
       Done, Delivering, Delivered

\* Taking the arguments apart does nothing else.
LEMMA ProgressArguments ==
  ASSUME ProgressOK, Arguments
  PROVE  ProgressOK'
<1> USE DEF Running, ExitOK, ExitBreach, ExitUsage, ExitRuntime, BeforeConfig, Delivered
<1>1. UNCHANGED << cfg, callVars >> /\ step \in {"global", "command", "flags"}
  BY DEF Arguments, GlobalConfig, GlobalHelp, NoCommand, ChooseCommand, CommandHelp, NoFlags,
         ParseFlags, Positional, FlagsEnd, FlagAlone, FlagEquals, FlagValue, FlagRefused,
         FlagsParsed, ParsingFlags, At
<1>2. UNCHANGED << events, saved >>
  BY DEF Arguments, GlobalConfig, GlobalHelp, NoCommand, ChooseCommand, CommandHelp, NoFlags,
         ParseFlags, Positional, FlagsEnd, FlagAlone, FlagEquals, FlagValue, FlagRefused,
         FlagsParsed, Seen, Exit, Goto, runVars
<1>3. \/ step' \in BeforeConfig /\ exit' = exit
      \/ step' = "done" /\ exit' \in {ExitOK, ExitUsage}
  BY <1>1 DEF Arguments, GlobalConfig, GlobalHelp, NoCommand, ChooseCommand, CommandHelp, NoFlags,
         ParseFlags, Positional, FlagsEnd, FlagAlone, FlagEquals, FlagValue, FlagRefused,
         FlagsParsed, Seen, Exit, Goto, runVars
<1>4. /\ Done /\ ~saved /\ ev = NoEvent /\ cfg = NoConfig /\ exit = Running BY <1>1 DEF ProgressOK
<1>5. Done' BY <1>1, <1>4 DEF Done, Delivering, callVars
<1>6. ev' = NoEvent /\ cfg' = NoConfig /\ ~saved' BY <1>1, <1>2, <1>4 DEF callVars
<1> QED BY <1>3, <1>4, <1>5, <1>6 DEF ProgressOK

\* Deliveries change nothing but what they return.
LEMMA ProgressDeliveries ==
  ASSUME ProgressOK, Deliveries
  PROVE  ProgressOK'
<1>1. ~Done /\ UNCHANGED << cfg, ev >>
  BY DEF Deliveries, Delivery, Own, Others, Tick, Skip, Deliver, AnswerTooLate, Killed, RunReturns,
         Answer, ChildExits, StartFails, Forks, OffspringEnds, Child, Return, Webhook, Command,
         Watched, Delivering, Done
<1>2. UNCHANGED << argVars, runVars >> /\ step = "deliver" BY <1>1 DEF Deliveries, ProgressOK
<1> QED BY <1>1, <1>2 DEF ProgressOK, argVars, runVars, Configured

\* Each command saves before it tells, and exits 0 only then.
LEMMA ProgressCommanded ==
  ASSUME ProgressOK, Commanded \/ ServeCommand
  PROVE  ProgressOK'
<1> USE DEF Running, ExitOK, ExitBreach, ExitUsage, ExitRuntime, BeforeConfig, Delivered
<1>1. CASE \/ InitCommand \/ ConfigUnreadable \/ ConfigRefused \/ ServeCommand \/ RecordRefused
           \/ \E ok \in BOOLEAN : ReadClock(ok) \/ LoadState(ok) \/ Status(ok)
  <2>1. /\ UNCHANGED << cfg, callVars, argVars, events, saved >>
        /\ step \in {"init", "config", "serve", "clock", "state", "status", "record"}
    BY <1>1 DEF InitCommand, ConfigUnreadable, ConfigRefused, ServeCommand, RecordRefused,
                ReadClock, LoadState, Status, At, Exit, Goto
  <2>2. \/ /\ step' = "done" /\ exit' \in {ExitOK, ExitBreach, ExitUsage, ExitRuntime}
           /\ exit' = ExitOK => step \in {"init", "serve", "status"}
        \/ step' \in {"state", "status", "record"} /\ exit' = exit /\ (step' = "status" => cmd = "status")
           /\ step \in {"clock", "state"}
    BY <1>1 DEF InitCommand, ConfigUnreadable, ConfigRefused, ServeCommand, RecordRefused,
                ReadClock, LoadState, Status, At, Exit, Goto
  <2>3. Done' /\ ~saved' /\ ev' = NoEvent /\ exit = Running /\ cmd' = cmd /\ cfg' = cfg
    BY <2>1 DEF ProgressOK, Done, Delivering, callVars, argVars
  <2>4. step \in {"init", "serve", "status"} =>
          cfg = NoConfig \/ cmd \notin Recording
    BY DEF ProgressOK, Recording
  <2> QED BY <2>1, <2>2, <2>3, <2>4 DEF ProgressOK
<1>2. CASE ReadConfig
  BY <1>2 DEF ReadConfig, argVars, runVars, callVars, ProgressOK, Done, Delivering, Configured
<1>3. CASE LoadConfig
  <2>1. /\ step = "config" /\ UNCHANGED << argVars, callVars, events, saved >>
        /\ \/ cmd = "checks" /\ step' = "done" /\ exit' = ExitOK
           \/ cmd = "serve" /\ step' = "serve" /\ exit' = exit
           \/ step' = "clock" /\ exit' = exit
    BY <1>3 DEF LoadConfig, Exit, Goto
  <2>2. Done' /\ ~saved' /\ ev' = NoEvent /\ exit = Running /\ cmd' = cmd
    BY <2>1 DEF ProgressOK, Done, Delivering, callVars, argVars
  <2> QED BY <2>1, <2>2 DEF ProgressOK, Recording
<1>4. CASE Record
  <2>1. /\ step = "record" /\ UNCHANGED << cfg, argVars, callVars, saved, exit >>
        /\ step' = "save" /\ (cmd \in {"ping", "fail"} => pos[1] \in Configured)
    BY <1>4 DEF Record, At
  <2>2. Done' /\ ~saved' /\ ev' = NoEvent /\ exit = Running
    BY <2>1 DEF ProgressOK, Done, Delivering, callVars
  <2> QED BY <2>1, <2>2 DEF ProgressOK, argVars, Configured
<1>5. ASSUME NEW ok \in BOOLEAN, Save(ok)
      PROVE  ProgressOK'
  <2>1. /\ step = "save" /\ UNCHANGED << cfg, argVars, callVars, events >>
        /\ \/ saved' = TRUE /\ step' = "deliver" /\ exit' = exit
           \/ saved' = saved /\ step' = "done" /\ exit' = ExitRuntime
    BY <1>5 DEF Save, At, Exit
  <2>2. Done' /\ ~saved /\ ev' = NoEvent /\ exit = Running
    BY <2>1 DEF ProgressOK, Done, Delivering, callVars
  <2> QED BY <2>1, <2>2 DEF ProgressOK, argVars, Configured
<1>6. CASE DispatchNext
  <2>1. step = "deliver" /\ UNCHANGED << cfg, argVars, step, saved, exit >>
    BY <1>6 DEF DispatchNext, Call
  <2> QED BY <2>1 DEF ProgressOK, argVars, Configured
<1>7. CASE Finish
  <2>1. /\ step = "deliver" /\ Done /\ events = << >>
        /\ UNCHANGED << cfg, argVars, callVars, events, saved >>
        /\ step' = "done" /\ exit' = ExitOK
    BY <1>7 DEF Finish, At, Exit
  <2> QED BY <2>1 DEF ProgressOK, argVars, Configured, callVars, Done, Delivering
<1> QED BY <1>1, <1>2, <1>3, <1>4, <1>5, <1>6, <1>7 DEF Commanded

\* Every step of the program.
LEMMA ProgressStep ==
  ASSUME ProgressOK, [Next]_vars
  PROVE  ProgressOK'
<1>1. CASE UNCHANGED vars
  BY <1>1 DEF ProgressOK, vars, runVars, argVars, callVars, Done, Delivering, Configured
<1> QED BY <1>1, ProgressArguments, ProgressCommanded, ProgressDeliveries DEF Next

-----------------------------------------------------------------------------
(***************************************************************************)
(* The arguments of a command.  The loop of parseFlags keeps only what is  *)
(* left of them: that it takes each for what it is, a name, a flag or the  *)
(* value of the flag before, is a fact about the whole of the arguments    *)
(* read up to there.                                                       *)
(***************************************************************************)

\* Before each argument there is a last one that takes no value.
LEMMA LastNotTaking ==
  ASSUME cmdArgs \in Seq(ToSet(cmdArgs)), NEW i \in Nat
  PROVE  \E j \in 0..i : ~Takes(j) /\ \A k \in (j + 1)..i : Takes(k)
<1> DEFINE S == {n \in Nat : \E j \in 0..n : ~Takes(j) /\ \A k \in (j + 1)..n : Takes(k)}
<1>1. ~Takes(0)
  <2>1. DOMAIN cmdArgs = 1..Len(cmdArgs) OBVIOUS
  <2> QED BY <2>1 DEF Takes
<1> HIDE DEF Takes
<1>2. 0 \in S BY <1>1
<1>3. ASSUME NEW n \in Nat, n \in S
      PROVE  n + 1 \in S
  <2>1. CASE ~Takes(n + 1)
    <3>1. n + 1 \in 0..(n + 1) /\ (n + 1 + 1)..(n + 1) = {} OBVIOUS
    <3> QED BY <2>1, <3>1
  <2>2. CASE Takes(n + 1)
    <3>1. PICK j \in 0..n : ~Takes(j) /\ \A k \in (j + 1)..n : Takes(k) BY <1>3
    <3>2. \A k \in (j + 1)..(n + 1) : Takes(k)
      <4>1. \A k \in (j + 1)..(n + 1) : k = n + 1 \/ k \in (j + 1)..n OBVIOUS
      <4> QED BY <2>2, <3>1, <4>1
    <3>3. j \in 0..(n + 1) OBVIOUS
    <3> QED BY <3>1, <3>2, <3>3
  <2> QED BY <2>1, <2>2
<1> HIDE DEF S
<1>4. Nat \subseteq S BY <1>2, <1>3, SetInduction
<1> QED BY <1>4 DEF S

\* An argument is a value if the one before takes one and is none.
LEMMA ValueNext ==
  ASSUME cmdArgs \in Seq(ToSet(cmdArgs)), NEW i \in Nat \ {0}
  PROVE  IsValue(i + 1) <=> Takes(i) /\ ~IsValue(i)
<1>1. PICK j \in 0..i : ~Takes(j) /\ \A k \in (j + 1)..i : Takes(k) BY LastNotTaking
<1> DEFINE n == i - j
<1>2. n \in 0..i /\ j = i - n OBVIOUS
<1>3. Takes(i) <=> n # 0
  <2>1. n = 0 => j = i OBVIOUS
  <2>2. n # 0 => i \in (j + 1)..i OBVIOUS
  <2> QED BY <1>1, <2>1, <2>2
<1>4. IsValue(i + 1) <=> n % 2 = 1
  <2>1. ASSUME NEW m \in 1..i, ~Takes(i - m), \A k \in (i + 1 - m)..i : Takes(k)
        PROVE  m = n
    <3>1. CASE m < n
      <4>1. i - m \in (j + 1)..i BY <3>1
      <4> QED BY <1>1, <2>1, <4>1
    <3>2. CASE m > n
      <4>1. j \in (i + 1 - m)..i BY <3>2
      <4> QED BY <1>1, <2>1, <4>1
    <3> QED BY <3>1, <3>2
  <2>2. n # 0 => n \in 1..i /\ ~Takes(i - n) /\ \A k \in (i + 1 - n)..i : Takes(k) BY <1>1, <1>2
  <2>3. IsValue(i + 1) <=>
          \E m \in 1..i : m % 2 = 1 /\ ~Takes(i - m) /\ \A k \in (i + 1 - m)..i : Takes(k)
    <3>1. (i + 1) - 1 = i /\ \A m \in 1..i : (i + 1) - m - 1 = i - m OBVIOUS
    <3> QED BY <3>1 DEF IsValue
  <2>4. n % 2 = 1 => n # 0 OBVIOUS
  <2> HIDE DEF n
  <2> QED BY <2>1, <2>2, <2>3, <2>4
<1>5. n # 0 => (IsValue(i) <=> (n - 1) % 2 = 1)
  <2> SUFFICES ASSUME n # 0 PROVE IsValue(i) <=> (n - 1) % 2 = 1 OBVIOUS
  <2>1. ASSUME NEW m \in 1..(i - 1), ~Takes(i - m - 1), \A k \in (i - m)..(i - 1) : Takes(k)
        PROVE  m = n - 1
    <3>1. CASE m < n - 1
      <4>1. i - m - 1 \in (j + 1)..i BY <3>1
      <4> QED BY <1>1, <2>1, <4>1
    <3>2. CASE m > n - 1
      <4>1. j \in (i - m)..(i - 1) BY <3>2
      <4> QED BY <1>1, <2>1, <4>1
    <3> QED BY <3>1, <3>2
  <2>2. (n - 1) % 2 = 1 =>
           /\ n - 1 \in 1..(i - 1) /\ ~Takes(i - (n - 1) - 1)
           /\ \A k \in (i - (n - 1))..(i - 1) : Takes(k)
    <3>1. (n - 1) % 2 = 1 => n - 1 \in 1..(i - 1) BY <1>2
    <3>2. i - (n - 1) - 1 = j /\ i - (n - 1) = j + 1 BY <1>2
    <3> QED BY <1>1, <3>1, <3>2
  <2> HIDE DEF n
  <2> QED BY <2>1, <2>2 DEF IsValue
<1>6. n # 0 => ((n - 1) % 2 = 1 <=> n % 2 # 1) BY <1>2
<1>7. n = 0 => n % 2 # 1 OBVIOUS
<1> HIDE DEF n
<1> QED BY <1>3, <1>4, <1>5, <1>6, <1>7

\* The first argument is no value and nothing has ended before it.
LEMMA FirstFree == ~IsValue(1) /\ ~Ended(1)
<1>1. 1..(1 - 1) = {} OBVIOUS
<1> QED BY <1>1 DEF IsValue, Ended

\* The flags have ended after an argument if they had before, or it is "--".
LEMMA EndedNext ==
  ASSUME NEW i \in Nat \ {0}
  PROVE  Ended(i + 1) <=> Ended(i) \/ (cmdArgs[i].is = "--" /\ ~IsValue(i))
<1>1. \A k : k \in 1..(i + 1 - 1) <=> k \in 1..(i - 1) \/ k = i OBVIOUS
<1> QED BY <1>1 DEF Ended

\* Which arguments are names and which are flags.
LEMMA Kinds ==
  ASSUME cmdArgs \in Seq(ToSet(cmdArgs)), NEW i \in 1..Len(cmdArgs)
  PROVE  /\ ~Ended(i) => (i \in Named <=> cmdArgs[i].is = "word" /\ ~IsValue(i))
         /\ Ended(i) => i \in Named /\ i \notin GivenFlags
         /\ ~Ended(i) /\ ~IsValue(i) => (i \in GivenFlags <=> cmdArgs[i].is \in {"flag", "flag="})
         /\ IsValue(i) => i \notin GivenFlags
<1>1. i \in DOMAIN cmdArgs OBVIOUS
<1> QED BY <1>1 DEF Named, GivenFlags

\* All of them are positions.
LEMMA KindsIn ==
  ASSUME cmdArgs \in Seq(ToSet(cmdArgs))
  PROVE  /\ Named \subseteq 1..Len(cmdArgs) /\ GivenFlags \subseteq 1..Len(cmdArgs)
         /\ \A name, i : i \in FlagAt(name) <=> i \in GivenFlags /\ cmdArgs[i].name = name
         /\ Len(cmdArgs) \in Nat
<1>1. DOMAIN cmdArgs = 1..Len(cmdArgs) /\ Len(cmdArgs) \in Nat OBVIOUS
<1> QED BY <1>1 DEF Named, GivenFlags, FlagAt

\* After an argument that takes no value the next is free.
LEMMA FreeNext ==
  ASSUME NEW n \in Nat, ArgsRead(n), n < Len(cmdArgs), Free(n), ~Takes(n + 1), cmdArgs[n + 1].is # "--"
  PROVE  Free(n + 1)
<1>1. /\ IsValue(n + 1 + 1) <=> Takes(n + 1) /\ ~IsValue(n + 1)
      /\ Ended(n + 1 + 1) <=> Ended(n + 1) \/ (cmdArgs[n + 1].is = "--" /\ ~IsValue(n + 1))
  BY ValueNext, EndedNext DEF ArgsRead
<1> QED BY <1>1 DEF Free

\* One more argument that is no name.
LEMMA NamesPass ==
  ASSUME NEW n \in Nat, ArgsRead(n), n < Len(cmdArgs), NEW ps, NamesTo(n, ps), n + 1 \notin Named
  PROVE  NamesTo(n + 1, ps)
<1>1. \A i \in Named : i \in Nat /\ i # n + 1 BY KindsIn DEF ArgsRead
<1>2. \A i \in Named : i <= n + 1 <=> i <= n BY <1>1
<1>3. \A i \in Named : i > n => i > n + 1 BY <1>1
<1> HIDE DEF Named
<1> QED BY <1>2, <1>3 DEF NamesTo

\* One more that is.
LEMMA NamesMore ==
  ASSUME NEW n \in Nat, ArgsRead(n), n < Len(cmdArgs), NEW ps, NamesTo(n, ps), n + 1 \in Named
  PROVE  NamesTo(n + 1, Append(ps, cmdArgs[n + 1].text))
<1> DEFINE t == cmdArgs[n + 1].text
           qs == Append(ps, t)
<1>1. \A i \in Named : i \in Nat /\ (i <= n + 1 <=> i <= n \/ i = n + 1) BY KindsIn DEF ArgsRead
<1>2. t \in ArgTexts /\ ps \in Seq(ArgTexts)
  <2>1. n + 1 \in DOMAIN cmdArgs BY DEF ArgsRead
  <2> QED BY <2>1 DEF ArgTexts, NamesTo
<1> HIDE DEF t
<1>3. qs \in Seq(ArgTexts) /\ Len(qs) = Len(ps) + 1 /\ Len(ps) \in Nat BY <1>2
<1>4. CASE Len(ps) = 0
  <2>1. qs[1] = t /\ Len(qs) = 1 BY <1>2, <1>4
  <2>2. \A k \in Named : k <= n + 1 => k = n + 1 BY <1>1, <1>4 DEF NamesTo
  <2>3. \E i \in Named : /\ i <= n + 1 /\ qs[1] = cmdArgs[i].text
                         /\ \A k \in Named : k <= n + 1 => k = i
    BY <2>1, <2>2 DEF t
  <2> HIDE DEF qs
  <2>4. NamesTo(n + 1, qs) BY <1>3, <2>1, <2>3 DEF NamesTo
  <2> QED BY <2>4 DEF qs, t
<1>5. CASE Len(ps) = 1
  <2>1. PICK i \in Named : i <= n BY <1>5 DEF NamesTo
  <2>2. i # n + 1 /\ i <= n + 1 BY <1>1, <2>1
  <2> QED BY <1>3, <1>5, <2>2 DEF NamesTo, t
<1>6. CASE Len(ps) > 1
  <2>1. \E i, k \in Named : i # k /\ i <= n + 1 /\ k <= n + 1 BY <1>1, <1>6 DEF NamesTo
  <2>2. Len(qs) > 1 BY <1>3, <1>6
  <2> HIDE DEF qs
  <2>3. NamesTo(n + 1, qs) BY <1>3, <2>1, <2>2 DEF NamesTo
  <2> QED BY <2>3 DEF qs, t
<1>7. Len(ps) = 0 \/ Len(ps) = 1 \/ Len(ps) > 1
  <2>1. Len(ps) \in Nat BY <1>2
  <2>2. \A l \in Nat : l = 0 \/ l = 1 \/ l > 1 OBVIOUS
  <2> QED BY <2>1, <2>2, Zenon
<1> QED BY <1>4, <1>5, <1>6, <1>7, Zenon

\* One more that is no flag.
LEMMA FlagsPass ==
  ASSUME NEW n \in Nat, ArgsRead(n), n < Len(cmdArgs), NEW fs, FlagsTo(n, fs), n + 1 \notin GivenFlags
  PROVE  FlagsTo(n + 1, fs)
<1>1. \A i \in GivenFlags : i <= n + 1 <=> i <= n BY KindsIn DEF ArgsRead
<1>2. \A name : \A i \in FlagAt(name) : i \in GivenFlags BY DEF FlagAt
<1>3. \A name : \A i \in FlagAt(name) : LastTo(i, n + 1, name) <=> LastTo(i, n, name)
  BY <1>1, <1>2 DEF LastTo
<1> HIDE DEF GivenFlags, LastTo
<1> QED BY <1>1, <1>3 DEF FlagsTo

\* One more that is.
LEMMA FlagsMore ==
  ASSUME NEW n \in Nat, ArgsRead(n), n < Len(cmdArgs), NEW fs, FlagsTo(n, fs),
         n + 1 \in GivenFlags, FlagOK(n + 1)
  PROVE  FlagsTo(n + 1, T!With(fs, cmdArgs[n + 1].name, SaysAt(n + 1)))
<1> DEFINE i == n + 1
           own == cmdArgs[i].name
           gs == T!With(fs, own, SaysAt(i))
<1>1. /\ DOMAIN gs = DOMAIN fs \cup {own} /\ gs[own] = SaysAt(i)
      /\ \A name \in DOMAIN fs : name # own => gs[name] = fs[name]
  BY DEF T!With
<1> HIDE DEF gs
<1>2. \A k \in GivenFlags : k \in Nat /\ (k <= i <=> k <= n \/ k = i) BY KindsIn DEF ArgsRead
<1>3. \A name, k : k \in FlagAt(name) <=> k \in GivenFlags /\ cmdArgs[k].name = name
  BY KindsIn DEF ArgsRead
<1>4. i \in FlagAt(own) /\ LastTo(i, i, own) BY <1>2, <1>3 DEF LastTo
<1>5. \A name : name # own => \A k \in FlagAt(name) : LastTo(k, i, name) <=> LastTo(k, n, name)
  <2>1. \A name : name # own => \A k \in FlagAt(name) : k <= i <=> k <= n BY <1>2, <1>3
  <2> QED BY <2>1 DEF LastTo
<1>6. \A k \in GivenFlags : k <= i => FlagOK(k) /\ cmdArgs[k].name \in DOMAIN gs
  BY <1>1, <1>2 DEF FlagsTo
<1>7. \A name \in DOMAIN gs : \E k \in FlagAt(name) : LastTo(k, i, name) /\ gs[name] = SaysAt(k)
  <2> SUFFICES ASSUME NEW name \in DOMAIN gs
               PROVE  \E k \in FlagAt(name) : LastTo(k, i, name) /\ gs[name] = SaysAt(k)
    OBVIOUS
  <2>1. CASE name = own BY <1>1, <1>4, <2>1
  <2>2. CASE name # own
    <3>1. PICK k \in FlagAt(name) : LastTo(k, n, name) /\ fs[name] = SaysAt(k)
      BY <1>1, <2>2 DEF FlagsTo
    <3> QED BY <1>1, <1>5, <2>2, <3>1
  <2> QED BY <2>1, <2>2
<1>8. FlagsTo(i, gs) BY <1>6, <1>7 DEF FlagsTo
<1> QED BY <1>8 DEF gs

\* What is left of the arguments, as the loop goes on.
LEMMA RestNext ==
  ASSUME NEW n \in Nat, ArgsRead(n), RestAt(n, args)
  PROVE  /\ Len(args) = Len(cmdArgs) - n /\ Len(cmdArgs) \in Nat
         /\ args = << >> <=> n = Len(cmdArgs)
         /\ args # << >> => /\ Head(args) = cmdArgs[n + 1] /\ n < Len(cmdArgs)
                            /\ RestAt(n + 1, SubSeq(args, 2, Len(args)))
                            /\ Len(args) > 1 => /\ args[2] = cmdArgs[n + 2] /\ n + 1 < Len(cmdArgs)
                                                /\ RestAt(n + 2, SubSeq(args, 3, Len(args)))
                            /\ RestAt(Len(cmdArgs), SubSeq(args, Len(args) + 1, Len(args)))
<1> DEFINE L == Len(cmdArgs)
<1>1. L \in Nat /\ n \in 0..L /\ cmdArgs \in Seq(ToSet(cmdArgs)) BY DEF ArgsRead
<1>2. args \in Seq(ToSet(cmdArgs)) /\ Len(args) = L - n /\ \A k \in 1..(L - n) : args[k] = cmdArgs[n + k]
  <2>1. args = [k \in 1..(L - n) |-> cmdArgs[n + k]] BY DEF RestAt
  <2>2. L - n \in Nat /\ \A k \in 1..(L - n) : cmdArgs[n + k] \in ToSet(cmdArgs) BY <1>1
  <2> QED BY <2>1, <2>2
<1>3. args = << >> <=> n = L BY <1>1, <1>2
<1>4. ASSUME NEW m \in 1..(L - n)
      PROVE  RestAt(n + m, SubSeq(args, m + 1, Len(args)))
  <2>1. /\ SubSeq(args, m + 1, Len(args)) \in Seq(ToSet(cmdArgs))
        /\ Len(SubSeq(args, m + 1, Len(args))) = L - (n + m)
        /\ \A k \in 1..(L - (n + m)) : SubSeq(args, m + 1, Len(args))[k] = cmdArgs[(n + m) + k]
    <3> DEFINE N == L - (n + m)
               q == SubSeq(args, m + 1, Len(args))
    <3>1. N \in Nat /\ L - n = Len(args) BY <1>1, <1>2
    <3>2. q = [k \in 1..N |-> args[k + m]] BY <1>1, <1>2
    <3>3. \A k \in 1..N : args[k + m] = cmdArgs[(n + m) + k] /\ args[k + m] \in ToSet(cmdArgs)
      BY <1>1, <1>2
    <3> HIDE DEF N, q
    <3>4. q \in [1..N -> ToSet(cmdArgs)] /\ \A k \in 1..N : q[k] = cmdArgs[(n + m) + k]
      BY <3>2, <3>3, Zenon
    <3>5. q \in Seq(ToSet(cmdArgs)) /\ Len(q) = N BY <3>1, <3>4
    <3> QED BY <3>4, <3>5, Zenon DEF N, q
  <2> DEFINE r == SubSeq(args, m + 1, Len(args))
  <2> HIDE DEF r
  <2>2. r = [k \in 1..(L - (n + m)) |-> cmdArgs[(n + m) + k]]
    <3>1. r = [k \in 1..(L - (n + m)) |-> r[k]] BY <2>1 DEF r
    <3> QED BY <2>1, <3>1 DEF r
  <2> QED BY <2>2 DEF RestAt, r
<1>5. n < L => 1 \in 1..(L - n) /\ 1 + 1 = 2 BY <1>1
<1>6. n + 1 < L => 2 \in 1..(L - n) /\ 2 + 1 = 3 BY <1>1
<1>7. n < L => L - n \in 1..(L - n) /\ n + (L - n) = L /\ (L - n) + 1 = Len(args) + 1 BY <1>1, <1>2
<1>8. n < L => Head(args) = cmdArgs[n + 1] BY <1>1, <1>2
<1>9. n + 1 < L => args[2] = cmdArgs[n + 2] BY <1>1, <1>2
<1> QED
  <2>1. n < L => RestAt(n + 1, SubSeq(args, 2, Len(args))) BY <1>4, <1>5
  <2>2. n + 1 < L => RestAt(n + 2, SubSeq(args, 3, Len(args))) BY <1>4, <1>6
  <2>3. n < L => RestAt(L, SubSeq(args, Len(args) + 1, Len(args))) BY <1>4, <1>7
  <2>4. Len(args) > 1 => n + 1 < L BY <1>1, <1>2
  <2>5. args # << >> => n < L BY <1>1, <1>3
  <2> HIDE DEF L
  <2> QED BY <1>1, <1>2, <1>3, <1>8, <1>9, <2>1, <2>2, <2>3, <2>4, <2>5 DEF L

\* After "--" everything is a name.
LEMMA NamesEnd ==
  ASSUME NEW n \in Nat, ArgsRead(n), n < Len(cmdArgs), Free(n), cmdArgs[n + 1].is = "--",
         NEW ps, NamesTo(n, ps), NEW fs, FlagsTo(n, fs), NEW ts,
         ts = [k \in 1..(Len(cmdArgs) - n - 1) |-> cmdArgs[n + 1 + k].text]
  PROVE  NamesTo(Len(cmdArgs), ps \o ts) /\ FlagsTo(Len(cmdArgs), fs)
<1> DEFINE L == Len(cmdArgs)
           qs == ps \o ts
<1>1. L \in Nat /\ n + 1 \in 1..L /\ cmdArgs \in Seq(ToSet(cmdArgs)) BY DEF ArgsRead
<1>2. ~IsValue(n + 1) /\ ~Ended(n + 1) BY DEF Free
<1>3. \A i \in (n + 2)..L : Ended(i)
  <2>1. \A i \in (n + 2)..L : n + 1 \in 1..(i - 1) BY <1>1
  <2> QED BY <1>2, <2>1 DEF Ended
<1>4. /\ n + 1 \notin Named /\ n + 1 \notin GivenFlags
      /\ \A i \in (n + 2)..L : i \in Named /\ i \notin GivenFlags
  <2>1. \A i \in (n + 2)..L : i \in 1..L BY <1>1
  <2>2. n + 1 \notin Named /\ n + 1 \notin GivenFlags BY <1>1, <1>2, Kinds
  <2> QED BY <1>1, <1>3, <2>1, <2>2, Kinds
<1>5. \A i \in GivenFlags : i <= n /\ i <= L BY <1>1, <1>4, KindsIn
<1>6. FlagsTo(L, fs)
  <2>1. \A name : \A i \in FlagAt(name) : LastTo(i, n, name) => LastTo(i, L, name)
    <3>1. \A name : \A i \in FlagAt(name) : i <= n /\ i <= L BY <1>5 DEF FlagAt
    <3> QED BY <3>1 DEF LastTo
  <2> QED BY <1>5, <2>1 DEF FlagsTo
<1>7. /\ ps \in Seq(ArgTexts) /\ Len(ps) \in Nat /\ ts \in Seq(ArgTexts) /\ Len(ts) = L - n - 1
      /\ L - n - 1 \in Nat
  <2>1. \A k \in 1..(L - n - 1) : cmdArgs[n + 1 + k].text \in ArgTexts
    <3>1. \A k \in 1..(L - n - 1) : n + 1 + k \in DOMAIN cmdArgs BY <1>1
    <3> QED BY <3>1 DEF ArgTexts
  <2>2. L - n - 1 \in Nat /\ ps \in Seq(ArgTexts) BY <1>1 DEF NamesTo
  <2> QED BY <2>1, <2>2
<1>8. qs \in Seq(ArgTexts) /\ Len(qs) = Len(ps) + (L - n - 1) BY <1>7
<1>9. CASE n + 1 = L
  <2>1. ts = << >> /\ ps \o ts = ps BY <1>1, <1>7, <1>9
  <2>2. NamesTo(n + 1, ps) BY <1>4, NamesPass
  <2> QED BY <1>6, <1>9, <2>1, <2>2
<1>10. CASE n + 1 # L /\ Len(ps) = 0
  <2>1. L \in (n + 2)..L /\ L \in Named BY <1>1, <1>4, <1>10
  <2>2. CASE n + 2 = L
    <3>1. qs[1] = cmdArgs[L].text /\ Len(qs) = 1
      <4>1. L - n - 1 = 1 /\ n + 1 + 1 = L BY <1>1, <2>2
      <4>2. ts = [k \in 1..1 |-> cmdArgs[n + 1 + k].text] BY <4>1
      <4>3. ts[1] = cmdArgs[L].text
        <5>1. 1 \in 1..1 OBVIOUS
        <5> QED BY <4>1, <4>2, <5>1
      <4>4. ps = << >>
        <5>1. \A q \in Seq(ArgTexts) : Len(q) = 0 => q = << >> OBVIOUS
        <5> QED BY <1>7, <1>10, <5>1, Zenon
      <4>5. qs = ts BY <1>7, <4>4
      <4> QED BY <1>7, <4>1, <4>3, <4>5
    <3>2. \A k \in Named : k <= L => k = L
      <4>1. \A k \in Named : k > n /\ k # n + 1 /\ k \in Nat
        BY <1>1, <1>4, <1>10, KindsIn DEF NamesTo
      <4> QED BY <1>1, <2>2, <4>1
    <3>3. NamesTo(L, qs)
      <4> HIDE DEF qs, L
      <4>1. \E i \in Named : i <= L /\ qs[1] = cmdArgs[i].text /\ \A k \in Named : k <= L => k = i
        <5>1. L <= L BY <1>1
        <5> QED BY <2>1, <3>1, <3>2, <5>1, Zenon
      <4>2. Len(qs) = 1 /\ Len(qs) # 0 /\ ~(Len(qs) > 1) /\ qs \in Seq(ArgTexts)
        <5>1. \A l : l = 1 => l # 0 /\ ~(l > 1) OBVIOUS
        <5> QED BY <1>8, <3>1, <5>1, Zenon
      <4>3. NamesTo(L, qs) BY <4>1, <4>2, Zenon DEF NamesTo
      <4> QED BY <4>3 DEF L, qs
    <3> QED BY <1>6, <3>3
  <2>3. CASE n + 2 # L
    <3>1. L - 1 \in (n + 2)..L /\ L - 1 # L /\ L - 1 <= L /\ L <= L BY <1>1, <1>10, <2>3
    <3>2. L - 1 \in Named BY <1>4, <3>1
    <3>3. Len(qs) > 1 BY <1>1, <1>8, <1>10, <2>3
    <3>4. \E i, k \in Named : i # k /\ i <= L /\ k <= L BY <2>1, <3>1, <3>2
    <3> HIDE DEF qs
    <3>5. NamesTo(L, qs) BY <1>8, <3>3, <3>4 DEF NamesTo
    <3> QED BY <1>6, <3>5 DEF qs
  <2> QED BY <2>2, <2>3
<1>11. CASE n + 1 # L /\ Len(ps) # 0
  <2>1. L \in (n + 2)..L /\ L \in Named /\ L <= L BY <1>1, <1>4, <1>11
  <2>2. PICK i \in Named : i <= n
    <3>1. Len(ps) = 1 \/ Len(ps) > 1
      <4>1. \A l \in Nat : l # 0 => l = 1 \/ l > 1 OBVIOUS
      <4> QED BY <1>7, <1>11, <4>1, Zenon
    <3> QED BY <3>1 DEF NamesTo
  <2>3. i # L /\ i <= L BY <1>1, <2>2, KindsIn
  <2>4. Len(qs) > 1
    <3>1. \A a, b \in Nat : a # 0 /\ b # 0 => a + b > 1 OBVIOUS
    <3>2. L - n - 1 # 0 BY <1>1, <1>11
    <3> HIDE DEF qs, L
    <3> QED BY <1>7, <1>8, <1>11, <3>1, <3>2
  <2>5. \E j, k \in Named : j # k /\ j <= L /\ k <= L BY <2>1, <2>2, <2>3
  <2> HIDE DEF qs
  <2>6. NamesTo(L, qs) BY <1>8, <2>4, <2>5 DEF NamesTo
  <2> QED BY <1>6, <2>6 DEF qs
<1> QED BY <1>9, <1>10, <1>11

\* At the end, the arguments are accepted just if they follow the usage.
LEMMA ArgumentsEnd ==
  ASSUME ArgsRead(Len(cmdArgs)), NamesTo(Len(cmdArgs), pos), FlagsTo(Len(cmdArgs), flags)
  PROVE  /\ ArgumentsOK <=> FollowsUsage
         /\ FlagsAsGiven
         /\ ArgumentsOK /\ cmd \in {"ping", "fail"} => \A i \in Named : pos[1] = cmdArgs[i].text
<1> DEFINE L == Len(cmdArgs)
<1>1. /\ L \in Nat /\ Named \subseteq 1..L /\ GivenFlags \subseteq 1..L
      /\ \A i \in Named : i <= L
      /\ \A i \in GivenFlags : i <= L
  BY KindsIn DEF ArgsRead
<1>2. \A name, i : LastTo(i, L, name) <=> InForce(i, name) BY <1>1 DEF LastTo, InForce, FlagAt
<1>0. \A name : FlagAt(name) # {} => name \in DOMAIN flags BY <1>1 DEF FlagsTo, FlagAt
<1>3. FlagsAsGiven
  <2>1. \A name \in DOMAIN flags : \E i \in FlagAt(name) : InForce(i, name) /\ flags[name] = SaysAt(i)
    BY <1>2 DEF FlagsTo
  <2> QED BY <1>0, <2>1 DEF FlagsAsGiven
<1>4. /\ Len(pos) = 1 <=> \E i \in Named : Named = {i}
      /\ Len(pos) = 0 <=> Named = {}
      /\ Len(pos) = 1 => \A i \in Named : pos[1] = cmdArgs[i].text
  <2>1. Len(pos) \in Nat BY DEF NamesTo
  <2>2. Len(pos) = 0 => Named = {}
    <3>1. Len(pos) = 0 => \A i \in Named : i > L BY DEF NamesTo
    <3> QED BY <1>1, <3>1
  <2>3. Len(pos) = 1 => \E i \in Named : Named = {i} /\ pos[1] = cmdArgs[i].text BY <1>1 DEF NamesTo
  <2>4. Len(pos) > 1 => \E i, k \in Named : i # k BY DEF NamesTo
  <2>5. Len(pos) = 0 \/ Len(pos) = 1 \/ Len(pos) > 1
    <3>1. \A l \in Nat : l = 0 \/ l = 1 \/ l > 1 OBVIOUS
    <3> QED BY <2>1, <3>1, Zenon
  <2> QED BY <2>2, <2>3, <2>4, <2>5
<1>5. Len(pos) = (IF cmd \in {"ping", "fail"} THEN 1 ELSE 0) <=>
        IF cmd \in {"ping", "fail"} THEN \E i \in Named : Named = {i} ELSE Named = {}
  BY <1>4
<1>6. ("format" \in DOMAIN flags => flags["format"] \in Formats) <=>
        \A i \in GivenFlags : cmdArgs[i].name = "format" /\ InForce(i, "format") => SaysAt(i) \in Formats
  <2>1. \A i, k : InForce(i, "format") /\ InForce(k, "format") => i = k
    <3>1. \A i, k \in GivenFlags : i <= k /\ k <= i => i = k BY <1>1
    <3> QED BY <3>1 DEF InForce, FlagAt
  <2>2. \A i \in GivenFlags : InForce(i, "format") => "format" \in DOMAIN flags BY <1>0 DEF InForce
  <2>3. \A i : InForce(i, "format") => i \in GivenFlags /\ cmdArgs[i].name = "format"
    BY DEF InForce, FlagAt
  <2>4. "format" \in DOMAIN flags => \E i : InForce(i, "format") /\ flags["format"] = SaysAt(i)
    BY <1>3 DEF FlagsAsGiven
  <2> QED BY <2>1, <2>2, <2>3, <2>4
<1>7. \A i \in GivenFlags : FlagOK(i) BY <1>1 DEF FlagsTo
<1>8. FollowsUsage <=>
        /\ IF cmd \in {"ping", "fail"} THEN \E i \in Named : Named = {i} ELSE Named = {}
        /\ \A i \in GivenFlags : cmdArgs[i].name = "format" /\ InForce(i, "format") => SaysAt(i) \in Formats
  BY <1>7 DEF FollowsUsage, FlagOK
<1> QED BY <1>3, <1>4, <1>5, <1>6, <1>8 DEF ArgumentsOK

\* What the arguments of a command say does not change.
LEMMA SameUsage ==
  ASSUME cmd' = cmd, cmdArgs' = cmdArgs
  PROVE  /\ Named' = Named /\ GivenFlags' = GivenFlags
         /\ \A name : FlagAt(name)' = FlagAt(name)
         /\ FollowsUsage' <=> FollowsUsage
         /\ flags' = flags => (FlagsAsGiven' <=> FlagsAsGiven)
         /\ \A n : /\ ArgsRead(n)' <=> ArgsRead(n)
                   /\ Free(n)' <=> Free(n)
                   /\ \A s : /\ RestAt(n, s)' <=> RestAt(n, s)
                             /\ NamesTo(n, s)' <=> NamesTo(n, s)
                             /\ FlagsTo(n, s)' <=> FlagsTo(n, s)
<1>1. \A i : Takes(i)' <=> Takes(i) BY DEF Takes, FlagsOf
<1>2. \A i : IsValue(i)' <=> IsValue(i) BY <1>1 DEF IsValue
<1>3. \A i : Ended(i)' <=> Ended(i) BY <1>2 DEF Ended
<1>4. Named' = Named /\ GivenFlags' = GivenFlags BY <1>2, <1>3 DEF Named, GivenFlags
<1>5. \A name : FlagAt(name)' = FlagAt(name) BY <1>4 DEF FlagAt
<1>6. \A i : SaysAt(i)' = SaysAt(i) BY <1>1 DEF SaysAt
<1>7. \A i, name : InForce(i, name)' <=> InForce(i, name) BY <1>5 DEF InForce
<1>8. FollowsUsage' <=> FollowsUsage BY <1>1, <1>4, <1>6, <1>7 DEF FollowsUsage, FlagsOf
<1>9. flags' = flags => (FlagsAsGiven' <=> FlagsAsGiven)
  BY <1>5, <1>6, <1>7 DEF FlagsAsGiven, FlagsOf
<1>10. \A n : ArgsRead(n)' <=> ArgsRead(n) BY DEF ArgsRead
<1>11. \A n : Free(n)' <=> Free(n) BY <1>2, <1>3 DEF Free
<1>12. \A n, s : RestAt(n, s)' <=> RestAt(n, s) BY DEF RestAt
<1>13. ArgTexts' = ArgTexts BY DEF ArgTexts
<1>14. \A n, s : NamesTo(n, s)' <=> NamesTo(n, s) BY <1>4, <1>13 DEF NamesTo
<1>15. \A i : FlagOK(i)' <=> FlagOK(i) BY <1>1 DEF FlagOK, FlagsOf
<1>16. \A i, n, name : LastTo(i, n, name)' <=> LastTo(i, n, name) BY <1>5 DEF LastTo
<1>17. \A n, s : FlagsTo(n, s)' <=> FlagsTo(n, s) BY <1>4, <1>5, <1>6, <1>15, <1>16 DEF FlagsTo
<1> QED BY <1>4, <1>5, <1>8, <1>9, <1>10, <1>11, <1>12, <1>14, <1>17

\* Where the reading has come to after one more step of the loop.
LEMMA ReadingAt ==
  ASSUME cmd' = cmd, cmdArgs' = cmdArgs, NEW n \in 0..Len(cmdArgs),
         RestAt(n, args'), Free(n), NamesTo(n, pos'), FlagsTo(n, flags'), ArgsRead(n)
  PROVE  Reading'
<1>1. ArgsRead(n)' /\ Free(n)' BY SameUsage
<1>2. RestAt(n, args)' /\ NamesTo(n, pos)' /\ FlagsTo(n, flags)' BY SameUsage
<1> QED BY <1>1, <1>2 DEF Reading

\* The loop begins before the first argument.
LEMMA ReadingFirst ==
  ASSUME ArgsRead(0), args = cmdArgs, pos = << >>, flags = NoKeys
  PROVE  RestAt(0, args) /\ Free(0) /\ NamesTo(0, pos) /\ FlagsTo(0, flags)
<1>1. cmdArgs \in Seq(ToSet(cmdArgs)) /\ Len(cmdArgs) \in Nat BY DEF ArgsRead
<1>2. RestAt(0, args)
  <2>1. cmdArgs = [k \in 1..Len(cmdArgs) |-> cmdArgs[k]] BY <1>1
  <2>2. Len(cmdArgs) - 0 = Len(cmdArgs) /\ \A k \in 1..Len(cmdArgs) : 0 + k = k BY <1>1
  <2> QED BY <2>1, <2>2 DEF RestAt
<1>3. Free(0)
  <2>1. 0 + 1 = 1 OBVIOUS
  <2> QED BY <2>1, FirstFree DEF Free
<1>4. \A i \in Named : i > 0 BY <1>1, KindsIn
<1>5. \A i \in GivenFlags : ~(i <= 0) BY <1>1, KindsIn
<1>6. NamesTo(0, pos)
  <2>1. Len(pos) = 0 /\ pos \in Seq(ArgTexts) OBVIOUS
  <2>2. Len(pos) # 1 /\ ~(Len(pos) > 1) BY <2>1
  <2> QED BY <1>4, <2>1, <2>2, Zenon DEF NamesTo
<1>7. FlagsTo(0, flags) BY <1>5 DEF FlagsTo, NoKeys
<1> QED BY <1>2, <1>3, <1>6, <1>7

\* What the next argument is, where the loop looks at it.
LEMMA Looking ==
  ASSUME NEW n \in 0..Len(cmdArgs), ArgsRead(n), RestAt(n, args), Free(n), args # << >>
  PROVE  /\ n \in Nat /\ n < Len(cmdArgs) /\ n + 1 \in 1..Len(cmdArgs) /\ n + 1 \in 0..Len(cmdArgs)
         /\ Arg = cmdArgs[n + 1] /\ ArgsRead(n + 1)
         /\ Takes(n + 1) <=> Arg.is = "flag" /\ Known /\ TakesValue
         /\ Arg.is = "word" => n + 1 \in Named /\ n + 1 \notin GivenFlags
         /\ Arg.is \in {"flag", "flag="} => n + 1 \in GivenFlags /\ n + 1 \notin Named
<1>1. /\ n \in Nat /\ n < Len(cmdArgs) /\ Head(args) = cmdArgs[n + 1]
      /\ cmdArgs \in Seq(ToSet(cmdArgs))
  BY RestNext DEF ArgsRead
<1>2. /\ n + 1 \in 1..Len(cmdArgs) /\ n + 1 \in 0..Len(cmdArgs) /\ n + 1 \in DOMAIN cmdArgs BY <1>1
<1>3. ArgsRead(n + 1) BY <1>1, <1>2 DEF ArgsRead
<1>4. ~IsValue(n + 1) /\ ~Ended(n + 1) BY <1>1 DEF Free
<1>5. /\ n + 1 \in Named <=> Arg.is = "word"
      /\ n + 1 \in GivenFlags <=> Arg.is \in {"flag", "flag="}
  BY <1>1, <1>2, <1>4, Kinds DEF Arg
<1>6. Takes(n + 1) <=> Arg.is = "flag" /\ Known /\ TakesValue
  BY <1>1, <1>2 DEF Takes, Arg, Known, TakesValue
<1> QED BY <1>1, <1>2, <1>3, <1>5, <1>6 DEF Arg

\* A name.
LEMMA ReadName ==
  ASSUME Reading, Positional
  PROVE  Reading'
<1>1. PICK n \in 0..Len(cmdArgs) :
        ArgsRead(n) /\ RestAt(n, args) /\ Free(n) /\ NamesTo(n, pos) /\ FlagsTo(n, flags)
  BY DEF Reading
<1>2. /\ args # << >> /\ Arg.is = "word" /\ pos' = Append(pos, Arg.text)
      /\ args' = SubSeq(args, 2, Len(args)) /\ flags' = flags /\ cmd' = cmd /\ cmdArgs' = cmdArgs
  BY DEF Positional, ParsingFlags, Some, Drop
<1>3. /\ n \in Nat /\ n < Len(cmdArgs) /\ n + 1 \in 0..Len(cmdArgs)
      /\ Arg = cmdArgs[n + 1] /\ ArgsRead(n + 1)
      /\ ~Takes(n + 1) /\ n + 1 \in Named /\ n + 1 \notin GivenFlags
  BY <1>1, <1>2, Looking
<1>4. RestAt(n + 1, args') BY <1>1, <1>2, <1>3, RestNext
<1>5. Free(n + 1) BY <1>1, <1>2, <1>3, FreeNext
<1>6. NamesTo(n + 1, pos') BY <1>1, <1>2, <1>3, NamesMore
<1>7. FlagsTo(n + 1, flags') BY <1>1, <1>2, <1>3, FlagsPass
<1> QED BY <1>2, <1>3, <1>4, <1>5, <1>6, <1>7, ReadingAt

\* The rest, after "--".
LEMMA ReadRest ==
  ASSUME Reading, FlagsEnd
  PROVE  Reading'
<1>1. PICK n \in 0..Len(cmdArgs) :
        ArgsRead(n) /\ RestAt(n, args) /\ Free(n) /\ NamesTo(n, pos) /\ FlagsTo(n, flags)
  BY DEF Reading
<1> DEFINE ts == [i \in DOMAIN Tail(args) |-> Tail(args)[i].text]
           L == Len(cmdArgs)
<1>2. /\ args # << >> /\ Arg.is = "--" /\ pos' = pos \o ts
      /\ args' = SubSeq(args, Len(args) + 1, Len(args)) /\ flags' = flags
      /\ cmd' = cmd /\ cmdArgs' = cmdArgs
  BY DEF FlagsEnd, ParsingFlags, Some, Drop
<1>3. n \in Nat /\ n < L /\ Arg = cmdArgs[n + 1] /\ L \in Nat /\ Len(args) = L - n
  BY <1>1, <1>2, Looking, RestNext
<1>4. ts = [k \in 1..(L - n - 1) |-> cmdArgs[n + 1 + k].text]
  <2>1. args = [k \in 1..(L - n) |-> cmdArgs[n + k]] BY <1>1 DEF RestAt
  <2>2. args \in Seq(ToSet(cmdArgs)) /\ \A k \in 1..(L - n) : args[k] = cmdArgs[n + k]
    <3>1. L - n \in Nat /\ \A k \in 1..(L - n) : cmdArgs[n + k] \in ToSet(cmdArgs)
      BY <1>1, <1>3 DEF ArgsRead
    <3> QED BY <2>1, <3>1
  <2>3. DOMAIN Tail(args) = 1..(L - n - 1) BY <1>2, <1>3, <2>2
  <2>4. \A k \in 1..(L - n - 1) : Tail(args)[k] = cmdArgs[n + 1 + k]
    <3>1. \A k \in 1..(L - n - 1) : Tail(args)[k] = args[k + 1] BY <1>2, <1>3, <2>2
    <3>2. \A k \in 1..(L - n - 1) : k + 1 \in 1..(L - n) /\ n + (k + 1) = n + 1 + k BY <1>3
    <3> QED BY <2>2, <3>1, <3>2
  <2> QED BY <2>3, <2>4
<1> HIDE DEF ts
<1>5. NamesTo(L, pos') /\ FlagsTo(L, flags') BY <1>1, <1>2, <1>3, <1>4, NamesEnd
<1>6. RestAt(L, args') /\ ArgsRead(L) /\ Free(L) /\ L \in 0..L
  <2>1. RestAt(L, args') BY <1>1, <1>2, <1>3, RestNext
  <2> QED BY <1>1, <1>3, <2>1 DEF ArgsRead, Free
<1> QED BY <1>2, <1>5, <1>6, ReadingAt

\* A flag without a value of its own among the arguments.
LEMMA ReadFlag ==
  ASSUME Reading, FlagAlone \/ FlagEquals
  PROVE  Reading'
<1>1. PICK n \in 0..Len(cmdArgs) :
        ArgsRead(n) /\ RestAt(n, args) /\ Free(n) /\ NamesTo(n, pos) /\ FlagsTo(n, flags)
  BY DEF Reading
<1> DEFINE value == IF Arg.is = "flag=" THEN Arg.value ELSE "true"
<1>2. /\ args # << >> /\ Arg.is \in {"flag", "flag="} /\ Known
      /\ Arg.is = "flag" => ~TakesValue
      /\ Arg.is = "flag=" => TakesValue
      /\ args' = SubSeq(args, 2, Len(args)) /\ flags' = T!With(flags, Arg.name, value)
      /\ pos' = pos /\ cmd' = cmd /\ cmdArgs' = cmdArgs
  BY DEF FlagAlone, FlagEquals, Seen, ParsingFlags, IsFlag, Some, Drop
<1>3. /\ n \in Nat /\ n < Len(cmdArgs) /\ n + 1 \in 0..Len(cmdArgs)
      /\ Arg = cmdArgs[n + 1] /\ ArgsRead(n + 1)
      /\ ~Takes(n + 1) /\ n + 1 \notin Named /\ n + 1 \in GivenFlags
  BY <1>1, <1>2, Looking
<1>4. FlagOK(n + 1) /\ value = SaysAt(n + 1) BY <1>2, <1>3 DEF FlagOK, SaysAt, Known, TakesValue
<1> HIDE DEF value
<1>5. RestAt(n + 1, args') BY <1>1, <1>2, <1>3, RestNext
<1>6. Free(n + 1) BY <1>1, <1>2, <1>3, FreeNext
<1>7. NamesTo(n + 1, pos') BY <1>1, <1>2, <1>3, NamesPass
<1>8. FlagsTo(n + 1, flags')
  <2>1. FlagsTo(n + 1, T!With(flags, cmdArgs[n + 1].name, SaysAt(n + 1)))
    BY <1>1, <1>3, <1>4, FlagsMore
  <2> QED BY <1>2, <1>3, <1>4, <2>1
<1> QED BY <1>2, <1>3, <1>5, <1>6, <1>7, <1>8, ReadingAt

\* A flag whose value is the next argument.
LEMMA ReadFlagValue ==
  ASSUME Reading, FlagValue
  PROVE  Reading'
<1>1. PICK n \in 0..Len(cmdArgs) :
        ArgsRead(n) /\ RestAt(n, args) /\ Free(n) /\ NamesTo(n, pos) /\ FlagsTo(n, flags)
  BY DEF Reading
<1>2. /\ args # << >> /\ Arg.is = "flag" /\ Known /\ TakesValue /\ Len(args) > 1
      /\ args' = SubSeq(args, 3, Len(args)) /\ flags' = T!With(flags, Arg.name, args[2].text)
      /\ pos' = pos /\ cmd' = cmd /\ cmdArgs' = cmdArgs
  BY DEF FlagValue, Seen, ParsingFlags, IsFlag, Some, Drop
<1>3. /\ n \in Nat /\ n < Len(cmdArgs) /\ n + 1 \in 1..Len(cmdArgs)
      /\ Arg = cmdArgs[n + 1] /\ ArgsRead(n + 1)
      /\ Takes(n + 1) /\ n + 1 \notin Named /\ n + 1 \in GivenFlags
  BY <1>1, <1>2, Looking
<1>4. n + 1 < Len(cmdArgs) /\ args[2] = cmdArgs[n + 2] /\ RestAt(n + 2, args') /\ Len(cmdArgs) \in Nat
  BY <1>1, <1>2, <1>3, RestNext
<1>5. /\ n + 1 + 1 = n + 2 /\ n + 2 \in 1..Len(cmdArgs) /\ n + 2 \in 0..Len(cmdArgs)
      /\ n + 1 \in Nat /\ n + 1 \in Nat \ {0} /\ n + 2 \in Nat \ {0}
  BY <1>3, <1>4
<1>6. cmdArgs \in Seq(ToSet(cmdArgs)) /\ ArgsRead(n + 2) BY <1>1, <1>5 DEF ArgsRead
<1>7. IsValue(n + 2) /\ ~Ended(n + 2)
  <2>1. ~IsValue(n + 1) /\ ~Ended(n + 1) BY <1>1, <1>3 DEF Free
  <2>2. IsValue(n + 2) <=> Takes(n + 1) /\ ~IsValue(n + 1) BY <1>5, <1>6, ValueNext
  <2>3. Ended(n + 2) <=> Ended(n + 1) \/ (cmdArgs[n + 1].is = "--" /\ ~IsValue(n + 1))
    BY <1>5, EndedNext
  <2> QED BY <1>2, <1>3, <2>1, <2>2, <2>3
<1>8. n + 2 \notin Named /\ n + 2 \notin GivenFlags BY <1>5, <1>6, <1>7, Kinds
<1>9. Free(n + 2)
  <2>1. IsValue(n + 2 + 1) <=> Takes(n + 2) /\ ~IsValue(n + 2) BY <1>5, <1>6, ValueNext
  <2>2. Ended(n + 2 + 1) <=> Ended(n + 2) \/ (cmdArgs[n + 2].is = "--" /\ ~IsValue(n + 2))
    BY <1>5, EndedNext
  <2> QED BY <1>7, <2>1, <2>2 DEF Free
<1>10. NamesTo(n + 2, pos')
  <2>1. NamesTo(n + 1, pos) BY <1>1, <1>3, NamesPass
  <2>2. NamesTo(n + 1 + 1, pos) BY <1>3, <1>4, <1>5, <1>8, <2>1, NamesPass
  <2> QED BY <1>2, <1>5, <2>2
<1>11. FlagsTo(n + 2, flags')
  <2>1. FlagOK(n + 1) /\ SaysAt(n + 1) = args[2].text
    <3>1. SaysAt(n + 1) = cmdArgs[n + 1 + 1].text BY <1>3 DEF SaysAt
    <3> QED BY <1>2, <1>3, <1>4, <1>5, <3>1 DEF FlagOK, Known
  <2>2. FlagsTo(n + 1, T!With(flags, cmdArgs[n + 1].name, SaysAt(n + 1)))
    BY <1>1, <1>3, <2>1, FlagsMore
  <2>3. FlagsTo(n + 1, flags') BY <1>2, <1>3, <2>1, <2>2
  <2>4. FlagsTo(n + 1 + 1, flags') BY <1>3, <1>4, <1>5, <1>8, <2>3, FlagsPass
  <2> QED BY <1>5, <2>4
<1> QED BY <1>2, <1>4, <1>5, <1>6, <1>9, <1>10, <1>11, ReadingAt

\* A flag that is refused does not follow the usage.
LEMMA RefusedFlag ==
  ASSUME Reading, FlagRefused
  PROVE  ~FollowsUsage
<1>1. PICK n \in 0..Len(cmdArgs) :
        ArgsRead(n) /\ RestAt(n, args) /\ Free(n) /\ NamesTo(n, pos) /\ FlagsTo(n, flags)
  BY DEF Reading
<1>2. /\ args # << >> /\ Arg.is \in {"flag", "flag="}
      /\ Known => IF TakesValue THEN Arg.is = "flag" /\ Len(args) = 1 ELSE Arg.is = "flag="
  BY DEF FlagRefused, IsFlag, Some
<1>3. /\ n \in Nat /\ n < Len(cmdArgs)
      /\ Arg = cmdArgs[n + 1] /\ n + 1 \in GivenFlags
      /\ Takes(n + 1) <=> Arg.is = "flag" /\ Known /\ TakesValue
      /\ Len(args) = Len(cmdArgs) - n /\ Len(cmdArgs) \in Nat
  BY <1>1, <1>2, Looking, RestNext
<1>4. Len(args) = 1 => ~(n + 1 < Len(cmdArgs))
  <2>1. \A k, l \in Nat : l - k = 1 => ~(k + 1 < l) OBVIOUS
  <2> QED BY <1>3, <2>1, Zenon
<1>5. ASSUME FollowsUsage
      PROVE  FALSE
  <2>1. /\ Known
        /\ Arg.is = "flag=" => TakesValue
        /\ Takes(n + 1) => n + 1 < Len(cmdArgs)
    BY <1>3, <1>5 DEF FollowsUsage, Known, TakesValue
  <2> QED BY <1>2, <1>3, <1>4, <2>1
<1> QED BY <1>5

\* Once all are read the arguments are judged as a whole.
LEMMA ReadingEnds ==
  ASSUME Reading, args = << >>
  PROVE  /\ ArgumentsOK <=> FollowsUsage
         /\ ArgumentsOK => Understood
<1>1. PICK n \in 0..Len(cmdArgs) :
        ArgsRead(n) /\ RestAt(n, args) /\ NamesTo(n, pos) /\ FlagsTo(n, flags)
  BY DEF Reading
<1>2. n = Len(cmdArgs) BY <1>1, RestNext
<1> QED BY <1>1, <1>2, ArgumentsEnd DEF Understood

\* Each sequence is one over its own elements, and a part of one over the whole's.
LEMMA OwnElements ==
  ASSUME NEW S, NEW s \in Seq(S)
  PROVE  s \in Seq(ToSet(s))
<1> DEFINE E == ToSet(s)
           n == Len(s)
<1>1. n \in Nat /\ s = [k \in 1..n |-> s[k]] /\ DOMAIN s = 1..n OBVIOUS
<1>2. \A k \in 1..n : s[k] \in E BY <1>1 DEF ToSet
<1> HIDE DEF E, n
<1>3. s \in Seq(E) BY <1>1, <1>2
<1> QED BY <1>3 DEF E

\* A check is named to commands that parse flags.
LEMMA Recorders == \A c : c \in {"ping", "fail"} => c \in Flagged
BY DEF Flagged, Recording

\* The next program step of the arguments, with what is read of them.
LEMMA ReadingInit ==
  ASSUME Init
  PROVE  ReadingOK /\ UsageOK /\ ToldOK
<1>0. cmd \notin Flagged
  <2>1. cmd = "" BY DEF Init
  <2> QED BY <2>1, Zenon DEF Flagged, Recording
<1>1. /\ step = "global" /\ flags = NoKeys /\ pos = << >> /\ exit = Running
      /\ ev = NoEvent
      /\ \E input \in Inputs : args = input.argv
  BY DEF Init, Uncalled
<1>2. args \in Seq(ToSet(args)) BY <1>1, CommandAssumption
<1>3. exit # ExitBreach BY <1>1 DEF Running, ExitBreach
<1> QED BY <1>0, <1>1, <1>2, <1>3, Recorders DEF ReadingOK, UsageOK, ToldOK

\* Before the command is known.
LEMMA UsageGlobal ==
  ASSUME ProgressOK, ReadingOK, UsageOK, ToldOK,
         GlobalConfig \/ GlobalHelp \/ NoCommand \/ ChooseCommand
  PROVE  ReadingOK' /\ UsageOK' /\ ToldOK'
<1>1. /\ step = "global" /\ cmd \notin Flagged /\ flags = NoKeys /\ pos = << >>
      /\ args \in Seq(ToSet(args)) /\ flags' = flags /\ pos' = pos /\ ev' = ev
      /\ ev = NoEvent /\ exit = Running
  BY DEF GlobalConfig, GlobalHelp, NoCommand, ChooseCommand, ReadingOK, ProgressOK, Delivered,
         At, argVars, runVars, callVars
<1>2. CASE GlobalConfig
  <2>1. step' = step /\ exit' = exit /\ cmd' = cmd /\ args' = SubSeq(args, 3, Len(args)) /\ Len(args) > 1
    BY <1>2 DEF GlobalConfig, runVars, Drop
  <2>2. args' \in Seq(ToSet(args'))
    <3>1. args' \in Seq(ToSet(args)) BY <1>1, <2>1
    <3> QED BY <3>1, OwnElements
  <2>3. cmd' \notin Flagged /\ exit' # ExitBreach BY <1>1, <2>1 DEF Running, ExitBreach
  <2> QED BY <1>1, <2>1, <2>2, <2>3, Recorders DEF ReadingOK, UsageOK, ToldOK
<1>3. CASE GlobalHelp \/ NoCommand
  <2>1. step' = "done" /\ exit' \in {ExitOK, ExitUsage} /\ cmd' = cmd
    BY <1>3 DEF GlobalHelp, NoCommand, Exit, argVars
  <2>2. cmd' \notin Flagged /\ exit' # ExitBreach BY <1>1, <2>1 DEF ExitOK, ExitUsage, ExitBreach
  <2> QED BY <2>1, <2>2, Recorders DEF ReadingOK, UsageOK, ToldOK
<1>4. CASE ChooseCommand
  <2>1. /\ step' = "command" /\ exit' = exit /\ args # << >>
        /\ cmdArgs' = Tail(args) /\ args' = SubSeq(args, 2, Len(args))
    BY <1>4 DEF ChooseCommand, Goto, IsCommand, Some, Drop
  <2>2. args' = cmdArgs' /\ args' \in Seq(ToSet(args)) /\ Len(cmdArgs') \in Nat BY <1>1, <2>1
  <2>3. cmdArgs' \in Seq(ToSet(cmdArgs')) BY <2>2, OwnElements
  <2>4. ArgsRead(0)' BY <2>2, <2>3 DEF ArgsRead
  <2>5. exit' # ExitBreach BY <1>1, <2>1 DEF Running, ExitBreach
  <2>6. ReadingOK' BY <1>1, <2>1, <2>2, <2>4 DEF ReadingOK
  <2>7. UsageOK' /\ ToldOK' BY <1>1, <2>1, <2>5 DEF UsageOK, ToldOK, AtArguments, Loaded
  <2> QED BY <2>6, <2>7
<1> QED BY <1>2, <1>3, <1>4

\* The arguments of the command.
LEMMA UsageArguments ==
  ASSUME ProgressOK, ReadingOK, UsageOK, ToldOK,
         \/ CommandHelp \/ NoFlags \/ ParseFlags
         \/ Positional \/ FlagsEnd \/ FlagAlone \/ FlagEquals \/ FlagValue \/ FlagRefused
         \/ FlagsParsed
  PROVE  ReadingOK' /\ UsageOK' /\ ToldOK'
<1>1. /\ step \in {"command", "flags"} /\ cmd' = cmd /\ cmdArgs' = cmdArgs
      /\ ev' = ev /\ ev = NoEvent /\ cfg' = cfg /\ cfg = NoConfig /\ saved' = saved /\ ~saved
      /\ exit = Running
  BY DEF CommandHelp, NoFlags, ParseFlags, Positional, FlagsEnd, FlagAlone, FlagEquals, FlagValue,
         FlagRefused, FlagsParsed, ParsingFlags, Seen, At, Exit, Goto, argVars, runVars, callVars,
         ProgressOK, Delivered, BeforeConfig
<1>2. FollowsUsage' <=> FollowsUsage BY <1>1, SameUsage
<1>3. exit' # ExitBreach =>
        (ToldOK' <=> (cmd \in {"ping", "fail"} => step' \notin {"save", "deliver"} \/ events' = << >> \/ \E e : events' = << e >> /\ e.check = pos'[1]))
  BY <1>1 DEF ToldOK
<1>4. CASE CommandHelp \/ NoFlags
  <2>1. /\ step' \in {"done", "init", "config"} /\ exit' \in {exit, ExitOK, ExitUsage}
        /\ step' = "done" /\ cmd \in Flagged => exit' = ExitOK
        /\ step' # "done" => cmd \notin Flagged
    BY <1>4 DEF CommandHelp, NoFlags, Exit, Goto, At, Flagged, Recording
  <2>2. exit' # ExitBreach BY <1>1, <2>1 DEF Running, ExitOK, ExitUsage, ExitBreach
  <2>3. ReadingOK' /\ ToldOK' BY <1>3, <2>1, <2>2 DEF ReadingOK
  <2>4. UsageOK' BY <1>1, <2>1 DEF UsageOK, Refused, Loaded
  <2> QED BY <2>3, <2>4
<1>5. CASE ParseFlags
  <2>1. /\ step = "command" /\ step' = "flags" /\ exit' = exit
        /\ args' = args /\ pos' = pos /\ flags' = flags
    BY <1>5 DEF ParseFlags, Goto, At, argVars
  <2>2. /\ args = cmdArgs /\ ArgsRead(0) /\ flags = NoKeys /\ pos = << >> BY <2>1 DEF ReadingOK
  <2>3. RestAt(0, args) /\ Free(0) /\ NamesTo(0, pos) /\ FlagsTo(0, flags) BY <2>2, ReadingFirst
  <2>4. 0 \in 0..Len(cmdArgs) BY <2>2 DEF ArgsRead
  <2>5. Reading' BY <1>1, <2>1, <2>2, <2>3, <2>4, ReadingAt
  <2>6. exit' # ExitBreach BY <1>1, <2>1 DEF Running, ExitBreach
  <2> QED BY <1>3, <2>1, <2>5, <2>6 DEF ReadingOK, UsageOK, AtArguments, Loaded
<1>6. CASE Positional \/ FlagsEnd \/ FlagAlone \/ FlagEquals \/ FlagValue
  <2>1. step = "flags" /\ step' = step /\ exit' = exit
    BY <1>6 DEF Positional, FlagsEnd, FlagAlone, FlagEquals, FlagValue, Seen, ParsingFlags, At, runVars
  <2>2. Reading BY <2>1 DEF ReadingOK
  <2>3. Reading' BY <1>6, <2>2, ReadName, ReadRest, ReadFlag, ReadFlagValue
  <2>4. exit' # ExitBreach BY <1>1, <2>1 DEF Running, ExitBreach
  <2> QED BY <1>3, <2>1, <2>3, <2>4 DEF ReadingOK, UsageOK, AtArguments, Loaded
<1>7. CASE FlagRefused
  <2>1. step = "flags" /\ step' = "done" /\ exit' = ExitUsage
    BY <1>7 DEF FlagRefused, ParsingFlags, At, Exit
  <2>2. ~FollowsUsage BY <1>7, <2>1, RefusedFlag DEF ReadingOK
  <2>3. exit' # ExitBreach BY <2>1 DEF ExitUsage, ExitBreach
  <2>4. Refused' BY <1>1, <1>2, <2>1, <2>2 DEF Refused
  <2> QED BY <1>3, <2>1, <2>3, <2>4 DEF ReadingOK, UsageOK, Loaded
<1>8. CASE FlagsParsed
  <2>1. /\ step = "flags" /\ args = << >> /\ pos' = pos /\ flags' = flags
        /\ IF ArgumentsOK THEN step' = "config" /\ exit' = exit ELSE step' = "done" /\ exit' = ExitUsage
    BY <1>8 DEF FlagsParsed, ParsingFlags, At, Goto, Exit, Some, argVars
  <2>2. /\ ArgumentsOK <=> FollowsUsage
        /\ ArgumentsOK => Understood
    BY <2>1, ReadingEnds DEF ReadingOK
  <2>3. exit' # ExitBreach BY <1>1, <2>1 DEF Running, ExitUsage, ExitBreach
  <2>4. Understood => Understood' BY <1>1, <1>2, <2>1, SameUsage DEF Understood
  <2>5. CASE ArgumentsOK BY <1>3, <2>1, <2>2, <2>3, <2>4, <2>5 DEF ReadingOK, UsageOK, Loaded
  <2>6. CASE ~ArgumentsOK
    <3>1. Refused' BY <1>1, <1>2, <2>1, <2>2, <2>6 DEF Refused
    <3> QED BY <1>3, <2>1, <2>3, <2>6, <3>1 DEF ReadingOK, UsageOK, Loaded
  <2> QED BY <2>5, <2>6
<1> QED BY <1>4, <1>5, <1>6, <1>7, <1>8

\* The commands go by what the arguments say.
LEMMA UsageCommanded ==
  ASSUME ProgressOK, ReadingOK, UsageOK, ToldOK, Commanded \/ ServeCommand
  PROVE  ReadingOK' /\ UsageOK' /\ ToldOK'
<1>1. /\ cmd' = cmd /\ cmdArgs' = cmdArgs /\ flags' = flags /\ pos' = pos
      /\ step \notin AtArguments \cup {"done"} /\ step' \notin AtArguments
  BY DEF Commanded, ServeCommand, InitCommand, ConfigUnreadable, ReadConfig, ConfigRefused, LoadConfig,
         ReadClock, LoadState, Status, Save, RecordRefused, Record, DispatchNext, Finish, Call,
         At, Exit, Goto, argVars, runVars, AtArguments
<1>2. ReadingOK' BY <1>1 DEF ReadingOK, AtArguments
<1>3. Understood' <=> Understood BY <1>1, SameUsage DEF Understood
<1>4. cmd \in Flagged => Understood' BY <1>1, <1>3 DEF UsageOK
<1>5. UNCHANGED parseVars => (T!Parsed' <=> T!Parsed) /\ (Loads(doc)' <=> Loads(doc))
  BY DEF parseVars, T!Parsed, T!AtEnd, T!InArray
<1>6. exit = Running BY <1>1 DEF ProgressOK
<1>7. \/ UNCHANGED parseVars
      \/ step' = "config" /\ UNCHANGED << events, exit, callVars >>
  BY DEF Commanded, ServeCommand, InitCommand, ConfigUnreadable, ReadConfig, ConfigRefused, LoadConfig,
         ReadClock, LoadState, Status, Save, RecordRefused, Record, DispatchNext, Finish,
         At, runVars
<1>8. UsageOK'
  <2>1. step' \in Loaded => step \in Loaded \/ (T!Parsed /\ Loads(doc))
    BY <1>1 DEF Commanded, ServeCommand, InitCommand, ConfigUnreadable, ReadConfig, ConfigRefused,
                LoadConfig, ReadClock, LoadState, Status, Save, RecordRefused, Record, DispatchNext,
                Finish, At, Exit, Goto, runVars, Loaded
  <2>2. step' = "done" /\ exit' = ExitUsage => step = "clock"
    BY <1>6 DEF Commanded, ServeCommand, InitCommand, ConfigUnreadable, ReadConfig, ConfigRefused,
                LoadConfig, ReadClock, LoadState, Status, Save, RecordRefused, Record, DispatchNext,
                Finish, At, Exit, Goto, runVars, Running, ExitOK, ExitBreach, ExitUsage, ExitRuntime
  <2>3. step' \in Loaded \/ exit' = ExitUsage => UNCHANGED parseVars
    BY <1>6, <1>7 DEF Loaded, Running, ExitUsage
  <2>4. cmd \in Flagged /\ (step' \in Loaded \/ (step' = "done" /\ exit' = ExitUsage)) =>
          T!Parsed' /\ Loads(doc)'
    BY <1>5, <2>1, <2>2, <2>3 DEF UsageOK, Loaded
  <2> QED BY <1>1, <1>4, <2>4 DEF UsageOK
<1>9. exit' = ExitBreach => cmd = "status" /\ "fail-on-down" \in DOMAIN flags
  <2>1. exit' = ExitBreach => step = "status" /\ "fail-on-down" \in DOMAIN flags
    BY <1>6 DEF Commanded, ServeCommand, InitCommand, ConfigUnreadable, ReadConfig, ConfigRefused,
                LoadConfig, ReadClock, LoadState, Status, Save, RecordRefused, Record, DispatchNext,
                Finish, At, Exit, Goto, runVars, Running, ExitOK, ExitBreach, ExitUsage, ExitRuntime
  <2> QED BY <2>1 DEF ProgressOK
<1>10. ASSUME cmd \in {"ping", "fail"}
       PROVE  /\ step' \in {"save", "deliver"} => events' = << >> \/ \E e : events' = << e >> /\ e.check = pos[1]
              /\ ev' # NoEvent => ev'.check = pos[1]
  <2>1. CASE Record
    <3>1. events' = << >> \/ \E e : events' = << e >> /\ e.check = pos[1]
      BY <1>10, <2>1 DEF Record, Event
    <3>2. ev' = ev /\ ev = NoEvent BY <2>1 DEF Record, At, callVars, ProgressOK, Delivered
    <3> QED BY <3>1, <3>2
  <2>2. CASE DispatchNext
    <3>1. /\ step = "deliver" /\ events # << >> /\ ev' = Head(events) /\ events' = Tail(events)
      BY <2>2 DEF DispatchNext, Call
    <3>2. PICK e : events = << e >> /\ e.check = pos[1] BY <1>10, <3>1 DEF ToldOK
    <3> QED BY <3>1, <3>2
  <2>3. CASE ~Record /\ ~DispatchNext
    <3>1. /\ ev' = ev
          /\ step' \in {"save", "deliver"} => step \in {"save", "deliver"} /\ events' = events
      BY <2>3 DEF Commanded, ServeCommand, InitCommand, ConfigUnreadable, ReadConfig, ConfigRefused,
                  LoadConfig, ReadClock, LoadState, Status, Save, RecordRefused, Finish,
                  At, Exit, Goto, runVars, callVars
    <3> QED BY <1>10, <3>1 DEF ToldOK
  <2> QED BY <2>1, <2>2, <2>3
<1>11. ToldOK' BY <1>1, <1>9, <1>10 DEF ToldOK
<1> QED BY <1>2, <1>8, <1>11

\* Deliveries have no part in it.
LEMMA UsageDeliveries ==
  ASSUME ProgressOK, ReadingOK, UsageOK, ToldOK, Deliveries
  PROVE  ReadingOK' /\ UsageOK' /\ ToldOK'
<1>1. ~Done /\ UNCHANGED << cfg, ev >>
  BY DEF Deliveries, Delivery, Own, Others, Tick, Skip, Deliver, AnswerTooLate, Killed, RunReturns,
         Answer, ChildExits, StartFails, Forks, OffspringEnds, Child, Return, Webhook, Command,
         Watched, Delivering, Done
<1>2. UNCHANGED << parseVars, argVars, runVars >> /\ step = "deliver"
  BY <1>1 DEF Deliveries, ProgressOK
<1>3. /\ cmd' = cmd /\ cmdArgs' = cmdArgs /\ flags' = flags /\ pos' = pos /\ step' = step
      /\ events' = events /\ exit' = exit /\ ev' = ev
  BY <1>1, <1>2 DEF argVars, runVars
<1>4. Understood' <=> Understood BY <1>3, SameUsage DEF Understood
<1>5. (T!Parsed' <=> T!Parsed) /\ (Loads(doc)' <=> Loads(doc))
  BY <1>2 DEF parseVars, T!Parsed, T!AtEnd, T!InArray
<1>6. ReadingOK' /\ ToldOK' BY <1>2, <1>3 DEF ReadingOK, ToldOK
<1>7. UsageOK' BY <1>2, <1>3, <1>4, <1>5 DEF UsageOK
<1> QED BY <1>6, <1>7

\* Every step of the program.
LEMMA UsageStep ==
  ASSUME ProgressOK, ReadingOK, UsageOK, ToldOK, [Next]_vars
  PROVE  ReadingOK' /\ UsageOK' /\ ToldOK'
<1>1. CASE UNCHANGED vars
  <2>1. /\ cmd' = cmd /\ cmdArgs' = cmdArgs /\ flags' = flags /\ pos' = pos /\ step' = step
        /\ events' = events /\ exit' = exit /\ ev' = ev /\ args' = args /\ cfg' = cfg /\ saved' = saved
    BY <1>1 DEF vars, argVars, runVars, callVars
  <2>2. /\ Understood' <=> Understood
        /\ FollowsUsage' <=> FollowsUsage
    BY <2>1, SameUsage DEF Understood
  <2>3. Refused' <=> Refused BY <2>1, <2>2 DEF Refused
  <2>4. (T!Parsed' <=> T!Parsed) /\ (Loads(doc)' <=> Loads(doc))
    BY <1>1 DEF vars, parseVars, T!Parsed, T!AtEnd, T!InArray
  <2>5. UsageOK' BY <2>1, <2>2, <2>3, <2>4 DEF UsageOK
  <2>6. ArgsRead(0)' <=> ArgsRead(0) BY <2>1, SameUsage
  <2>7. Reading => Reading' BY <2>1, ReadingAt DEF Reading
  <2>8. ReadingOK' /\ ToldOK' BY <2>1, <2>6, <2>7 DEF ReadingOK, ToldOK
  <2> QED BY <2>5, <2>8
<1> QED BY <1>1, UsageGlobal, UsageArguments, UsageCommanded, UsageDeliveries DEF Next, Arguments

\* What has happened by the end is what the arguments say.
LEMMA UnderstoodTells ==
  ASSUME ProgressOK, UsageOK, ToldOK
  PROVE  ExitTellsWhatHappened
<1>1. /\ exit # Running => step = "done"
      /\ saved \/ ev # NoEvent => step \in Delivered
      /\ step \in AtArguments => cfg = NoConfig
      /\ ev # NoEvent => saved
  BY DEF ProgressOK, AtArguments, BeforeConfig, Delivered
<1>2. ArgumentsUnderstood
  <2> SUFFICES ASSUME cmd \in Flagged
               PROVE  /\ cfg # NoConfig \/ exit = ExitRuntime => FollowsUsage /\ FlagsAsGiven
                      /\ exit = ExitUsage => ~FollowsUsage \/ (T!Parsed /\ Loads(doc))
    BY DEF ArgumentsUnderstood, Flagged
  <2>1. exit \in {ExitUsage, ExitRuntime} => step = "done"
    BY <1>1 DEF Running, ExitUsage, ExitRuntime
  <2>2. cfg # NoConfig \/ exit = ExitRuntime => Understood
    BY <1>1, <2>1 DEF UsageOK, Refused, ExitOK, ExitUsage, ExitRuntime
  <2>3. exit = ExitUsage => ~FollowsUsage \/ (T!Parsed /\ Loads(doc))
    BY <2>1 DEF UsageOK, Refused, ExitOK, ExitUsage
  <2> QED BY <2>2, <2>3 DEF Understood
<1>3. saved /\ cmd \in {"ping", "fail"} => \A i \in Named :
        cmdArgs[i].text \in Configured /\ (ev # NoEvent => ev.check = cmdArgs[i].text)
  <2> SUFFICES ASSUME saved, cmd \in {"ping", "fail"}, NEW i \in Named
               PROVE  cmdArgs[i].text \in Configured /\ (ev # NoEvent => ev.check = cmdArgs[i].text)
    OBVIOUS
  <2>1. Understood
    <3>1. cmd \in Flagged BY Recorders
    <3> QED BY <1>1, <3>1 DEF UsageOK, Refused, Delivered, AtArguments
  <2>2. pos[1] = cmdArgs[i].text BY <2>1 DEF Understood
  <2>3. pos[1] \in Configured BY DEF ProgressOK
  <2> QED BY <2>2, <2>3 DEF ToldOK
<1>4. exit = ExitBreach => FlagAt("fail-on-down") # {}
  <2> SUFFICES ASSUME exit = ExitBreach PROVE FlagAt("fail-on-down") # {} OBVIOUS
  <2>1. step = "done" BY <1>1 DEF Running, ExitBreach
  <2>2. cmd \in Flagged /\ "fail-on-down" \in DOMAIN flags BY DEF ToldOK, Flagged
  <2>3. Understood BY <2>1, <2>2 DEF UsageOK, Refused, ExitOK, ExitUsage, ExitBreach
  <2> QED BY <2>2, <2>3 DEF Understood, FlagsAsGiven
<1>5. /\ exit \in {ExitBreach, ExitUsage, ExitRuntime} => ~saved /\ ev = NoEvent
      /\ ev # NoEvent => saved
      /\ exit = ExitOK /\ cfg # NoConfig /\ cmd \in Recording => saved /\ events = << >> /\ Done
  BY DEF ProgressOK, Running, ExitOK, Done, Delivering
<1> QED BY <1>2, <1>3, <1>4, <1>5 DEF ExitTellsWhatHappened

\* For all arguments: a command goes to work, or fails, just if its arguments, taken
\* as they were typed, follow its usage, with the flags that they give.  A run that
\* does not exit 0 has changed nothing and told nobody; nobody is told what is not
\* saved; one that exits 0 has done what it was asked to, to the check that its
\* arguments name.
THEOREM ExitAlwaysTells == Spec => []ExitTellsWhatHappened
<1> DEFINE IInv == ProgressOK /\ ReadingOK /\ UsageOK /\ ToldOK
<1>1. Init => IInv BY ProgressInit, ReadingInit
<1>2. IInv /\ [Next]_vars => IInv' BY ProgressStep, UsageStep
<1>3. IInv => ExitTellsWhatHappened BY UnderstoodTells
<1> QED BY <1>1, <1>2, <1>3, PTL DEF Spec

-----------------------------------------------------------------------------
(***************************************************************************)
(* The parser's tables.                                                    *)
(***************************************************************************)

\* A value put into a table that leads only to tables that are there.
LEMMA PutOK ==
  ASSUME NEW d, TablesOK(d), NEW loc, NEW key, NEW value, ValueOK(d, loc, key, value)
  PROVE  TablesOK(T!Put(d, loc, key, value)) /\ DOMAIN T!Put(d, loc, key, value) = DOMAIN d
<1> DEFINE new == T!Put(d, loc, key, value)
<1>1. /\ DOMAIN new = DOMAIN d /\ new = [l \in DOMAIN d |-> new[l]]
      /\ \A l \in DOMAIN d : l # loc => new[l] = d[l]
      /\ loc \in DOMAIN d => new[loc] = T!With(d[loc], key, value)
  BY DEF T!Put, TablesOK
<1> HIDE DEF new
<1>2. ASSUME NEW l \in DOMAIN new, NEW k \in DOMAIN new[l]
      PROVE  ValueOK(new, l, k, new[l][k])
  <2>1. CASE l # loc \/ k # key
    <3>1. k \in DOMAIN d[l] /\ new[l][k] = d[l][k] BY <1>1, <1>2, <2>1 DEF T!With
    <3> QED BY <1>1, <1>2, <3>1 DEF TablesOK, ValueOK
  <2>2. CASE l = loc /\ k = key
    <3>1. new[l][k] = value BY <1>1, <1>2, <2>2 DEF T!With
    <3> QED BY <1>1, <2>2, <3>1 DEF ValueOK
  <2> QED BY <2>1, <2>2
<1> QED BY <1>1, <1>2 DEF TablesOK, new

\* A table that is made: the value in the table above it leads there.
LEMMA NewTableOK ==
  ASSUME NEW d, TablesOK(d), NEW loc, NEW key, NEW value, NEW new,
         ValueOK([l \in DOMAIN d \cup {new} |-> << >>], loc, key, value)
  PROVE  LET e == T!NewTable(d, loc, key, value, new)
         IN  TablesOK(e) /\ new \in DOMAIN e
<1> DEFINE p == T!Put(d, loc, key, value)
           e == T!NewTable(d, loc, key, value, new)
<1>1. /\ DOMAIN p = DOMAIN d
      /\ \A l \in DOMAIN d : l # loc => p[l] = d[l]
      /\ loc \in DOMAIN d => p[loc] = T!With(d[loc], key, value)
  BY DEF T!Put, TablesOK
<1>2. e = T!With(p, new, << >>) BY DEF T!NewTable, T!NoKeys
<1> HIDE DEF p, e
<1>3. /\ DOMAIN e = DOMAIN d \cup {new} /\ e = [l \in DOMAIN e |-> e[l]]
      /\ \A l \in DOMAIN d : l # new => e[l] = p[l]
      /\ e[new] = << >>
  BY <1>1, <1>2 DEF T!With
<1>4. ASSUME NEW l \in DOMAIN e, NEW k \in DOMAIN e[l]
      PROVE  ValueOK(e, l, k, e[l][k])
  <2>1. l # new /\ l \in DOMAIN d BY <1>3, <1>4
  <2>2. CASE l # loc \/ k # key
    <3>1. k \in DOMAIN d[l] /\ e[l][k] = d[l][k] BY <1>1, <1>3, <1>4, <2>1, <2>2 DEF T!With
    <3>2. ValueOK(d, l, k, d[l][k]) BY <2>1, <3>1 DEF TablesOK
    <3> QED BY <1>3, <3>1, <3>2 DEF ValueOK
  <2>3. CASE l = loc /\ k = key
    <3>1. e[l][k] = value BY <1>1, <1>3, <1>4, <2>1, <2>3 DEF T!With
    <3> QED BY <1>3, <2>3, <3>1 DEF ValueOK
  <2> QED BY <2>2, <2>3
<1>5. Root \in DOMAIN e BY <1>3 DEF TablesOK
<1> QED BY <1>3, <1>4, <1>5 DEF TablesOK, e

\* One segment of it leads on to a table that is there.
LEMMA DescendOK ==
  ASSUME NEW way, WayOK(way), NEW key
  PROVE  WayOK(T!Descend(way, key))
<1> DEFINE t == way.doc[way.at]
           new == Append(way.at, << key, 0 >>)
           made == T!NewTable(way.doc, way.at, key, T!Table, new)
<1>1. TablesOK(made) /\ new \in DOMAIN made
  <2>1. ValueOK([l \in DOMAIN way.doc \cup {new} |-> << >>], way.at, key, T!Table)
    BY DEF ValueOK, T!Table
  <2> HIDE DEF new
  <2> QED BY <2>1, NewTableOK DEF WayOK
<1>2. ASSUME key \in DOMAIN t
      PROVE  ValueOK(way.doc, way.at, key, t[key])
  BY <1>2 DEF WayOK, TablesOK
<1>3. CASE ~way.ok BY <1>3 DEF T!Descend
<1>4. CASE way.ok /\ key \notin DOMAIN t
  <2>1. T!Descend(way, key) = [way EXCEPT !.doc = made, !.at = new] BY <1>4 DEF T!Descend
  <2> HIDE DEF made, new
  <2> QED BY <1>1, <2>1 DEF WayOK
<1>5. CASE way.ok /\ key \in DOMAIN t /\ t[key].is = "table"
  <2>1. T!Descend(way, key) = [way EXCEPT !.at = Append(@, << key, 0 >>)] BY <1>5 DEF T!Descend
  <2>2. Append(way.at, << key, 0 >>) \in DOMAIN way.doc BY <1>2, <1>5 DEF ValueOK
  <2> QED BY <2>1, <2>2 DEF WayOK
<1>6. CASE way.ok /\ key \in DOMAIN t /\ t[key].is = "tables"
  <2>1. T!Descend(way, key) = [way EXCEPT !.at = Append(@, << key, t[key].size >>)]
    BY <1>6 DEF T!Descend
  <2>2. Append(way.at, << key, t[key].size >>) \in DOMAIN way.doc
    <3>1. t[key].size \in 1..t[key].size BY <1>2, <1>6 DEF ValueOK
    <3> QED BY <1>2, <1>6, <3>1 DEF ValueOK
  <2> QED BY <2>1, <2>2 DEF WayOK
<1>7. CASE way.ok /\ key \in DOMAIN t /\ t[key].is \notin {"table", "tables"}
  <2>1. T!Descend(way, key) = [way EXCEPT !.ok = FALSE] BY <1>7 DEF T!Descend
  <2> QED BY <2>1 DEF WayOK
<1> QED BY <1>3, <1>4, <1>5, <1>6, <1>7

\* The recursive function of Ways obeys its own equations.
LEMMA WaysIs ==
  ASSUME NEW d, NEW path \in Seq(STRING)
  PROVE  T!Ways(d, path) = [i \in 0..Len(path) |->
           IF i = 0 THEN [doc |-> d, at |-> Root, ok |-> TRUE]
           ELSE T!Descend(T!Ways(d, path)[i - 1], path[i])]
<1> DEFINE first == [doc |-> d, at |-> Root, ok |-> TRUE]
           Is(f, n) == f = [i \in 0..n |->
             IF i = 0 THEN first ELSE T!Descend(f[i - 1], path[i])]
           Ns == {n \in Nat : \E f : Is(f, n)}
<1>1. 0 \in Ns
  <2>1. Is([i \in 0..0 |-> first], 0) OBVIOUS
  <2> QED BY <2>1
<1>2. ASSUME NEW n \in Nat, n \in Ns
      PROVE  n + 1 \in Ns
  <2>1. PICK f : Is(f, n) BY <1>2
  <2> DEFINE g == [i \in 0..(n + 1) |->
               IF i = n + 1 THEN T!Descend(f[n], path[i]) ELSE f[i]]
  <2> HIDE DEF first
  <2>2. \A i \in 0..(n + 1) :
          g[i] = IF i = 0 THEN first ELSE T!Descend(g[i - 1], path[i])
    <3> SUFFICES ASSUME NEW i \in 0..(n + 1)
                 PROVE g[i] = IF i = 0 THEN first ELSE T!Descend(g[i - 1], path[i])
      OBVIOUS
    <3>1. CASE i = n + 1 BY <3>1
    <3>2. CASE i # n + 1
      <4>1. i \in 0..n /\ g[i] = f[i] /\ (i # 0 => i - 1 \in 0..n /\ g[i - 1] = f[i - 1]) BY <3>2
      <4> HIDE DEF g
      <4> QED BY <2>1, <4>1
    <3> QED BY <3>1, <3>2
  <2>3. g = [i \in 0..(n + 1) |-> g[i]] OBVIOUS
  <2> HIDE DEF g
  <2>4. Is(g, n + 1) BY <2>2, <2>3
  <2>5. \E h : Is(h, n + 1) BY <2>4
  <2> HIDE DEF Is
  <2> QED BY <2>5
<1>3. Len(path) \in Nat BY LenProperties
<1>4. \E f : Is(f, Len(path))
  <2> HIDE DEF Ns, Is
  <2>1. Nat \subseteq Ns BY <1>1, <1>2, SetInduction
  <2> QED BY <1>3, <2>1 DEF Ns
<1>5. T!Ways(d, path) = CHOOSE f : Is(f, Len(path)) BY DEF T!Ways, T!Root, Root
<1> HIDE DEF Is
<1>6. Is(T!Ways(d, path), Len(path)) BY <1>4, <1>5
<1> QED BY <1>6 DEF Is

\* Wherever a header leads, there is a table.
LEMMA WaysOK ==
  ASSUME NEW d, TablesOK(d), NEW path \in Seq(STRING), path # << >>
  PROVE  WayOK(T!Ways(d, path)[Len(path) - 1])
<1> DEFINE ways == T!Ways(d, path)
           Ns == {i \in Nat : i <= Len(path) => WayOK(ways[i])}
<1>1. Len(path) \in Nat /\ Len(path) - 1 \in 0..Len(path) BY LenProperties, EmptySeq
<1>2. ways = [i \in 0..Len(path) |->
        IF i = 0 THEN [doc |-> d, at |-> Root, ok |-> TRUE] ELSE T!Descend(ways[i - 1], path[i])]
  BY WaysIs
<1> HIDE DEF ways
<1>3. 0 \in Ns
  <2>1. ways[0] = [doc |-> d, at |-> Root, ok |-> TRUE] BY <1>1, <1>2
  <2> QED BY <2>1 DEF WayOK, TablesOK
<1>4. ASSUME NEW n \in Nat, n \in Ns
      PROVE  n + 1 \in Ns
  <2>1. SUFFICES ASSUME n + 1 <= Len(path)
                 PROVE  WayOK(ways[n + 1])
    OBVIOUS
  <2>2. WayOK(ways[n]) BY <1>1, <1>4, <2>1
  <2>3. n + 1 \in 0..Len(path) /\ n + 1 # 0 /\ (n + 1) - 1 = n BY <1>1, <2>1
  <2>4. ways[n + 1] = T!Descend(ways[n], path[n + 1]) BY <1>2, <2>3
  <2> QED BY <2>2, <2>4, DescendOK
<1>5. Len(path) - 1 \in Ns
  <2> HIDE DEF Ns
  <2>1. Nat \subseteq Ns BY <1>3, <1>4, SetInduction
  <2> QED BY <1>1, <2>1
<1> QED BY <1>1, <1>5 DEF ways

\* The table that a header opens is there from now on.
LEMMA EnterOK ==
  ASSUME NEW way, WayOK(way), NEW value, NEW position,
         \/ value = T!Table /\ position = 0
         \/ /\ value = T!Tables(position) /\ position \in Nat \ {0}
            /\ \A i \in 1..(position - 1) :
                 Append(way.at, << T!Last(T!Line.path), i >>) \in DOMAIN way.doc,
         T!Enter(way, value, position)
  PROVE  TablesOK(doc')
<1> DEFINE last == T!Last(T!Line.path)
           new == Append(way.at, << last, position >>)
<1>1. doc' = T!NewTable(way.doc, way.at, last, value, new) BY DEF T!Enter
<1>2. ValueOK([l \in DOMAIN way.doc \cup {new} |-> << >>], way.at, last, value)
  BY DEF ValueOK, T!Table, T!Tables
<1> HIDE DEF last, new
<1> QED BY <1>1, <1>2, NewTableOK DEF WayOK

\* Every line leaves the tables as they ought to be.
LEMMA ParsedStep ==
  ASSUME ParsedOK, T!ParseLine
  PROVE  ParsedOK'
<1>1. file' = file /\ at' \in {at, at + 1}
  BY DEF T!ParseLine, T!BlankLine, T!OpenTable, T!TableRefused, T!OpenArrayTable,
         T!ArrayTableRefused, T!SetScalar, T!SetArray, T!MoreOfArray, T!AssignRefused,
         T!LineRefused, T!Unterminated, T!Enter, T!Scanned, T!Proceed, T!Fail
<1>2. ASSUME NEW kind \in {"table", "tables"}, NEW within \in BOOLEAN, T!Reads(kind, within)
      PROVE  WayOK(T!Way)
  <2>1. T!Line.path \in Seq(STRING) /\ T!Line.path # << >>
    <3>1. at \in 1..Len(file) /\ 1..Len(file) = DOMAIN file
      BY <1>2, LenProperties DEF T!Reads, ParsedOK, LinesOK
    <3> QED BY <1>2, <3>1 DEF T!Reads, T!Line, ParsedOK, LinesOK
  <2> QED BY <2>1, WaysOK DEF T!Way, ParsedOK
<1>3. TablesOK(doc')
  <2>1. CASE doc' = doc BY <2>1 DEF ParsedOK
  <2>2. CASE T!OpenTable
    <3>1. WayOK(T!Way) /\ T!Enter(T!Way, T!Table, 0) BY <1>2, <2>2 DEF T!OpenTable
    <3> QED BY <3>1, EnterOK
  <2>3. CASE T!OpenArrayTable
    <3> DEFINE n == T!Named(T!Way).size
    <3>1. WayOK(T!Way) /\ T!Enter(T!Way, T!Tables(n + 1), n + 1) /\ T!Named(T!Way).is = "tables"
      BY <1>2, <2>3 DEF T!OpenArrayTable
    <3>2. /\ n \in Nat
          /\ \A i \in 1..n : Append(T!Way.at, << T!Last(T!Line.path), i >>) \in DOMAIN T!Way.doc
      <4> DEFINE t == T!Way.doc[T!Way.at]
      <4>1. CASE T!Last(T!Line.path) \in DOMAIN t
        <5>1. ValueOK(T!Way.doc, T!Way.at, T!Last(T!Line.path), T!Named(T!Way))
          BY <3>1, <4>1 DEF WayOK, TablesOK, T!Named
        <5> QED BY <3>1, <5>1 DEF ValueOK
      <4>2. CASE T!Last(T!Line.path) \notin DOMAIN t BY <4>2 DEF T!Named, T!Tables
      <4> QED BY <4>1, <4>2
    <3>3. n + 1 \in Nat \ {0} /\ (n + 1) - 1 = n BY <3>2
    <3> HIDE DEF n
    <3> QED BY <3>1, <3>2, <3>3, EnterOK
  <2>4. ASSUME NEW key, NEW value, T!Store(key, value),
               value.is \notin {"table", "tables"}, value.is = "string" => value.text \in Text
        PROVE  TablesOK(doc')
    BY <2>4, PutOK DEF T!Store, ValueOK, ParsedOK
  <2>5. CASE T!SetScalar
    <3>1. at \in 1..Len(file) /\ 1..Len(file) = DOMAIN file /\ file[at].kind = "set"
      BY <2>5, LenProperties DEF T!SetScalar, T!Reads, ParsedOK, LinesOK
    <3>2. T!Line.toks[1].is = "string" => T!Line.toks[1].text \in Text
      <4>1. 1 \in 1..Len(file[at].toks) BY <2>5 DEF T!SetScalar, T!Line
      <4> QED BY <3>1, <4>1 DEF T!Line, ParsedOK, LinesOK
    <3> QED BY <2>4, <2>5, <3>2 DEF T!SetScalar, T!IsScalar
  <2>6. ASSUME NEW a, NEW toks, T!Scanned(a, toks)
        PROVE  TablesOK(doc')
    <3>1. \A items : T!Array(items).is \notin {"table", "tables", "string"} BY DEF T!Array
    <3>2. doc' = doc \/ \E key, items : T!Store(key, T!Array(items)) BY <2>6 DEF T!Scanned, T!Fail
    <3> QED BY <2>1, <2>4, <3>1, <3>2
  <2>7. CASE T!SetArray \/ T!MoreOfArray BY <2>6, <2>7 DEF T!SetArray, T!MoreOfArray
  <2>8. CASE \/ T!BlankLine \/ T!TableRefused \/ T!ArrayTableRefused \/ T!AssignRefused
             \/ T!LineRefused \/ T!Unterminated
    BY <2>1, <2>8 DEF T!BlankLine, T!TableRefused, T!ArrayTableRefused, T!AssignRefused,
                      T!LineRefused, T!Unterminated, T!Fail
  <2> QED BY <2>2, <2>3, <2>5, <2>7, <2>8 DEF T!ParseLine
<1> QED BY <1>1, <1>3 DEF ParsedOK

-----------------------------------------------------------------------------
(***************************************************************************)
(* The configuration in force.                                             *)
(***************************************************************************)

\* A function on the first numbers is a list of its values.
LEMMA ListIs ==
  ASSUME NEW n \in Nat, NEW s, s = [i \in 1..n |-> s[i]], NamesOK(s)
  PROVE  s \in Seq(ToSet(s)) /\ DistinctNames(s)
<1>1. DOMAIN s = 1..n /\ \A i \in 1..n : s[i] \in ToSet(s) BY DEF ToSet
<1>2. s \in Seq(ToSet(s)) BY <1>1, SeqDef
<1>3. DistinctNames(s) BY <1>1 DEF DistinctNames, NamesOK
<1> QED BY <1>2, <1>3

\* The decoder asks for as many tables as there are.
LEMMA SizeIs ==
  ASSUME TablesOK(doc), Decodable(doc), NEW key \in {"check", "alert"}
  PROVE  Size(doc, key) \in Nat
<1>1. CASE key \notin DOMAIN doc[Root] BY <1>1 DEF Size
<1>2. CASE key \in DOMAIN doc[Root]
  <2>1. TopKeys[key] = "tables" /\ HasType(doc[Root][key], TopKeys[key])
    BY <1>2 DEF Decodable, Decodes, TopKeys
  <2>2. doc[Root][key].is = "tables" BY <2>1 DEF HasType
  <2>3. ValueOK(doc, Root, key, doc[Root][key]) BY <1>2 DEF TablesOK
  <2> QED BY <1>2, <2>2, <2>3 DEF Size, ValueOK
<1> QED BY <1>1, <1>2

\* A timeout is what the file says, or the default.
LEMMA TimeoutIs ==
  ASSUME TablesOK(doc), Decodable(doc), NEW i \in 1..Size(doc, "alert")
  PROVE  DecodeAlert(Nth(doc, "alert", i)).timeout \in Nat
<1> DEFINE t == Nth(doc, "alert", i)
<1>1. DecodeAlert(t).timeout = Dur(t, "timeout", DefaultTimeout) BY DEF DecodeAlert
<1>2. CASE "timeout" \notin DOMAIN t BY <1>1, <1>2, ConfigFileAssumption DEF Dur
<1>3. CASE "timeout" \in DOMAIN t
  <2>1. t["timeout"].is = "string" /\ Lasts[t["timeout"].text] # NoDuration
    <3>1. Decodes(t, AlertKeys) BY DEF Decodable
    <3>2. HasType(t["timeout"], AlertKeys["timeout"]) /\ AlertKeys["timeout"] = "duration"
      BY <1>3, <3>1 DEF Decodes, AlertKeys
    <3> QED BY <3>2 DEF HasType
  <2>2. << << "alert", i >> >> \in DOMAIN doc
    <3>1. "alert" \in DOMAIN doc[Root] /\ i \in 1..doc[Root]["alert"].size BY DEF Size
    <3>2. TopKeys["alert"] = "tables" /\ HasType(doc[Root]["alert"], TopKeys["alert"])
      BY <3>1 DEF Decodable, Decodes, TopKeys
    <3>3. doc[Root]["alert"].is = "tables" /\ ValueOK(doc, Root, "alert", doc[Root]["alert"])
      BY <3>1, <3>2 DEF HasType, TablesOK
    <3>4. Append(Root, << "alert", i >>) \in DOMAIN doc BY <3>1, <3>3 DEF ValueOK
    <3> QED BY <3>4 DEF Root
  <2>3. ValueOK(doc, << << "alert", i >> >>, "timeout", t["timeout"])
    BY <1>3, <2>2 DEF TablesOK, Nth
  <2>4. Lasts[t["timeout"].text] \in Nat BY <2>1, <2>3, ConfigFileAssumption DEF ValueOK
  <2> QED BY <1>1, <1>3, <2>4 DEF Dur
<1> QED BY <1>2, <1>3

\* A configuration that is accepted is one.
LEMMA DecodedOK ==
  ASSUME TablesOK(doc), Loads(doc)
  PROVE  ConfigOK(Decode(doc))
<1> DEFINE c == Decode(doc)
<1>1. Decodable(doc) /\ NamesOK(c.checks) /\ NamesOK(c.alerts) BY DEF Loads, Validate
<1>2. Size(doc, "check") \in Nat /\ Size(doc, "alert") \in Nat BY <1>1, SizeIs
<1>3. /\ c.checks = [i \in 1..Size(doc, "check") |-> c.checks[i]]
      /\ c.alerts = [i \in 1..Size(doc, "alert") |-> c.alerts[i]]
  BY DEF Decode
<1>4. \A i \in DOMAIN c.alerts : c.alerts[i].timeout \in Nat
  <2>1. c.alerts = [i \in 1..Size(doc, "alert") |-> DecodeAlert(Nth(doc, "alert", i))] BY DEF Decode
  <2> QED BY <1>1, <2>1, TimeoutIs
<1> HIDE DEF c
<1>5. c.checks \in Seq(ToSet(c.checks)) /\ DistinctNames(c.checks) BY <1>1, <1>2, <1>3, ListIs
<1>6. c.alerts \in Seq(ToSet(c.alerts)) /\ DistinctNames(c.alerts) BY <1>1, <1>2, <1>3, ListIs
<1> QED BY <1>4, <1>5, <1>6 DEF ConfigOK, c

-----------------------------------------------------------------------------
(***************************************************************************)
(* The delivery of an event.                                               *)
(***************************************************************************)

\* Passing over the first channel or not.
LEMMA FirstIs ==
  ASSUME NEW A, NEW q \in Seq(A), q # << >>, DistinctNames(q), NEW type
  PROVE  /\ Head(q) \in A /\ Tail(q) \in Seq(A) /\ DistinctNames(Tail(q))
         /\ \A j \in DOMAIN Tail(q) :
              \E k \in DOMAIN q : Tail(q)[j] = q[k] /\ q[k].name # Head(q).name
         /\ Wanted(q, type) =
              Wanted(Tail(q), type) \cup
                (IF Contains(Head(q).events, type) THEN {Head(q).name} ELSE {})
         /\ \E k \in DOMAIN q : q[k] = Head(q)
<1>1. /\ Len(q) \in Nat \ {0} /\ DOMAIN q = 1..Len(q)
      /\ Head(q) = q[1] /\ Tail(q) \in Seq(A) /\ Len(Tail(q)) = Len(q) - 1
      /\ DOMAIN Tail(q) = 1..(Len(q) - 1)
      /\ \A i \in 1..(Len(q) - 1) : Tail(q)[i] = q[i + 1]
  BY LenProperties, EmptySeq, HeadTailProperties
<1> DEFINE h == Head(q)
           r == Tail(q)
           n == Len(q)
<1>2. q[1] \in A BY <1>1, ElementOfSeq
<1> HIDE DEF h, r, n
<1>3. /\ n \in Nat \ {0} /\ DOMAIN q = 1..n /\ h = q[1] /\ DOMAIN r = 1..(n - 1)
      /\ \A i \in 1..(n - 1) : r[i] = q[i + 1]
  BY <1>1 DEF h, r, n
<1>4. DistinctNames(r)
  <2> SUFFICES ASSUME NEW i \in 1..(n - 1), NEW j \in 1..(n - 1), r[i].name = r[j].name
               PROVE  i = j
    BY <1>3 DEF DistinctNames
  <2>1. i + 1 \in 1..n /\ j + 1 \in 1..n /\ q[i + 1].name = q[j + 1].name BY <1>3
  <2>2. i + 1 = j + 1 BY <1>3, <2>1 DEF DistinctNames
  <2> QED BY <2>2
<1>5. ASSUME NEW j \in DOMAIN r
      PROVE  \E k \in DOMAIN q : r[j] = q[k] /\ q[k].name # h.name
  <2>1. j \in 1..(n - 1) /\ j + 1 \in 1..n /\ 1 \in 1..n /\ j + 1 # 1 BY <1>3, <1>5
  <2>2. r[j] = q[j + 1] /\ q[j + 1].name # h.name BY <1>3, <2>1 DEF DistinctNames
  <2> QED BY <1>3, <2>1, <2>2
<1>6. Wanted(q, type) = Wanted(r, type) \cup (IF Contains(h.events, type) THEN {h.name} ELSE {})
  <2>1. ASSUME NEW x \in Wanted(q, type)
        PROVE  x \in Wanted(r, type) \/ (Contains(h.events, type) /\ x = h.name)
    <3>1. PICK k \in 1..n : Contains(q[k].events, type) /\ x = q[k].name BY <1>3, <2>1 DEF Wanted
    <3>2. CASE k = 1 BY <1>3, <3>1, <3>2
    <3>3. CASE k # 1
      <4>1. k - 1 \in 1..(n - 1) /\ r[k - 1] = q[k] BY <1>3, <3>3
      <4> QED BY <1>3, <3>1, <4>1 DEF Wanted
    <3> QED BY <3>2, <3>3
  <2>2. ASSUME NEW x \in Wanted(r, type)
        PROVE  x \in Wanted(q, type)
    <3>1. PICK k \in 1..(n - 1) : Contains(r[k].events, type) /\ x = r[k].name
      BY <1>3, <2>2 DEF Wanted
    <3>2. k + 1 \in 1..n /\ r[k] = q[k + 1] BY <1>3
    <3> QED BY <1>3, <3>1, <3>2 DEF Wanted
  <2>3. Contains(h.events, type) => h.name \in Wanted(q, type)
    <3>1. 1 \in DOMAIN q BY <1>3
    <3> QED BY <1>3, <3>1 DEF Wanted
  <2> QED BY <2>1, <2>2, <2>3
<1>7. \E k \in DOMAIN q : q[k] = h
  <2>1. 1 \in DOMAIN q /\ q[1] = h BY <1>3
  <2> QED BY <2>1
<1>8. h \in A /\ r \in Seq(A) BY <1>1, <1>2 DEF h, r
<1> QED BY <1>4, <1>5, <1>6, <1>7, <1>8 DEF h, r

\* A channel that does not subscribe is passed over.
LEMMA SkipOK ==
  ASSUME NEW A, NEW S, NEW t, NEW q, NEW type, OnTheWay(A, S, t, q, type), q # << >>,
         ~Contains(Head(q).events, type)
  PROVE  OnTheWay(A, S, t, Tail(q), type)
<1> DEFINE h == Head(q)
           r == Tail(q)
<1>1. q \in Seq(A) /\ DistinctNames(q) BY DEF OnTheWay
<1>2. /\ r \in Seq(A) /\ DistinctNames(r)
      /\ \A j \in DOMAIN r : \E k \in DOMAIN q : r[j] = q[k] /\ q[k].name # h.name
      /\ Wanted(q, type) = Wanted(r, type) \cup (IF Contains(h.events, type) THEN {h.name} ELSE {})
  BY <1>1, FirstIs
<1>3. ~Contains(h.events, type) OBVIOUS
<1> HIDE DEF h, r
<1>4. Wanted(q, type) = Wanted(r, type) BY <1>2, <1>3
<1>5. \A i \in DOMAIN t : \A j \in DOMAIN r : t[i] # r[j].name BY <1>2 DEF OnTheWay
<1>6. OnTheWay(A, S, t, r, type) BY <1>2, <1>4, <1>5 DEF OnTheWay
<1> QED BY <1>6 DEF r

\* One that does is tried.
LEMMA DeliverOK ==
  ASSUME NEW A, NEW S, NEW t, NEW q, NEW type, OnTheWay(A, S, t, q, type), q # << >>,
         Contains(Head(q).events, type)
  PROVE  /\ OnTheWay(A, S, Append(t, Head(q).name), Tail(q), type)
         /\ ToSet(Append(t, Head(q).name)) = ToSet(t) \cup {Head(q).name}
<1> DEFINE h == Head(q)
           r == Tail(q)
           u == Append(t, h.name)
           B == {a.name : a \in A}
<1>1. /\ h \in A /\ r \in Seq(A) /\ DistinctNames(r)
      /\ \A j \in DOMAIN r : \E k \in DOMAIN q : r[j] = q[k] /\ q[k].name # h.name
      /\ Wanted(q, type) = Wanted(r, type) \cup {h.name}
      /\ \E k \in DOMAIN q : q[k] = h
  BY FirstIs DEF OnTheWay
<1> HIDE DEF h, r
<1>2. t \in Seq(B) /\ h.name \in B BY <1>1 DEF OnTheWay
<1>3. /\ u \in Seq(B) /\ Len(t) \in Nat /\ DOMAIN t = 1..Len(t) /\ DOMAIN u = 1..(Len(t) + 1)
      /\ \A i \in 1..Len(t) : u[i] = t[i]
      /\ u[Len(t) + 1] = h.name
  BY <1>2, AppendProperties, LenProperties
<1> HIDE DEF u, B
<1>4. ToSet(u) = ToSet(t) \cup {h.name}
  <2>1. \A i \in DOMAIN u : i \in 1..Len(t) \/ i = Len(t) + 1 BY <1>3
  <2>2. \A i \in DOMAIN t : i \in DOMAIN u BY <1>3
  <2>3. Len(t) + 1 \in DOMAIN u BY <1>3
  <2> QED BY <1>3, <2>1, <2>2, <2>3 DEF ToSet
<1>5. \A i \in DOMAIN t : t[i] # h.name BY <1>1 DEF OnTheWay
<1>6. \A i, j \in DOMAIN u : u[i] = u[j] => i = j
  <2> SUFFICES ASSUME NEW i \in DOMAIN u, NEW j \in DOMAIN u, u[i] = u[j]
               PROVE  i = j
    OBVIOUS
  <2>1. (i \in DOMAIN t \/ i = Len(t) + 1) /\ (j \in DOMAIN t \/ j = Len(t) + 1) BY <1>3
  <2> QED BY <1>3, <1>5, <2>1 DEF OnTheWay
<1>7. \A i \in DOMAIN u : \A j \in DOMAIN r : u[i] # r[j].name
  <2>1. \A i \in DOMAIN u : i \in DOMAIN t \/ u[i] = h.name BY <1>3
  <2>2. \A i \in DOMAIN t : \A j \in DOMAIN r : t[i] # r[j].name BY <1>1 DEF OnTheWay
  <2>3. \A j \in DOMAIN r : h.name # r[j].name BY <1>1
  <2> QED BY <1>3, <2>1, <2>2, <2>3
<1>8. S = ToSet(u) \cup Wanted(r, type) BY <1>1, <1>4 DEF OnTheWay
<1>9. OnTheWay(A, S, u, r, type) BY <1>1, <1>3, <1>6, <1>7, <1>8 DEF OnTheWay, B
<1> QED BY <1>4, <1>9 DEF u, h, r

\* The list that counts is that of the one check of this name.
LEMMA CheckByNameIs ==
  ASSUME NEW c, ConfigOK(c), NEW name
  PROVE  LET chk == CheckByName(c, name)
         IN  /\ \A i \in DOMAIN c.checks :
                  c.checks[i].name = name => c.checks[i].alerts = chk.alerts
             /\ chk.alerts # << >> => \E i \in DOMAIN c.checks :
                  c.checks[i].name = name /\ c.checks[i].alerts = chk.alerts
<1>1. CASE name \in Names(c.checks)
  <2> DEFINE k == CHOOSE i \in DOMAIN c.checks : c.checks[i].name = name
  <2>1. k \in DOMAIN c.checks /\ c.checks[k].name = name BY <1>1 DEF Names
  <2>2. CheckByName(c, name) = c.checks[k] BY <1>1 DEF CheckByName
  <2> HIDE DEF k
  <2> QED BY <2>1, <2>2 DEF ConfigOK, DistinctNames
<1>2. CASE name \notin Names(c.checks) BY <1>2 DEF CheckByName, Names
<1> QED BY <1>1, <1>2

\* A call starts with the channels that the check names, or all.
LEMMA CallOK ==
  ASSUME NEW c, ConfigOK(c), NEW e
  PROVE  OnTheWay(ToSet(c.alerts), Audience(c, e), << >>,
                  AlertsFor(c, CheckByName(c, e.check)), e.type)
<1> DEFINE chk == CheckByName(c, e.check)
           A == ToSet(c.alerts)
           W == {al \in A : al.name \in ToSet(chk.alerts)}
           q == AlertsFor(c, chk)
<1>1. /\ \A i \in DOMAIN c.checks :
           c.checks[i].name = e.check => c.checks[i].alerts = chk.alerts
      /\ chk.alerts # << >> => \E i \in DOMAIN c.checks :
           c.checks[i].name = e.check /\ c.checks[i].alerts = chk.alerts
  BY CheckByNameIs
<1>2. c.alerts \in Seq(A) /\ DistinctNames(c.alerts) /\ DOMAIN c.alerts = 1..Len(c.alerts)
  BY LenProperties DEF ConfigOK
<1>3. q = IF chk.alerts = << >> THEN c.alerts ELSE Keep(c.alerts, W) BY DEF AlertsFor, Listed
<1>4. \A i \in DOMAIN c.alerts : c.alerts[i] \in A BY DEF ToSet
<1>5. \A i \in DOMAIN c.alerts : c.alerts[i] \in W <=> c.alerts[i].name \in ToSet(chk.alerts)
  BY <1>4
<1> HIDE DEF chk, W, q
<1>6. /\ q \in Seq(A) /\ DistinctNames(q)
      /\ \A a \in DOMAIN q : \E j \in DOMAIN c.alerts :
           q[a] = c.alerts[j] /\ (chk.alerts # << >> => c.alerts[j].name \in ToSet(chk.alerts))
      /\ \A j \in DOMAIN c.alerts :
           (chk.alerts # << >> => c.alerts[j].name \in ToSet(chk.alerts)) =>
             \E a \in DOMAIN q : q[a] = c.alerts[j]
  <2>1. CASE chk.alerts = << >> BY <1>2, <1>3, <2>1
  <2>2. CASE chk.alerts # << >>
    <3> HIDE DEF A
    <3>1. q \in Seq(A) /\ Selects(q, c.alerts, W, Len(c.alerts)) BY <1>2, <1>3, <2>2, KeepSelects
    <3>2. \A j, k \in DOMAIN c.alerts : c.alerts[j] = c.alerts[k] => j = k BY <1>2 DEF DistinctNames
    <3>3. \A a, b \in DOMAIN q : q[a] = q[b] => a = b BY <1>2, <3>1, <3>2 DEF Selects
    <3>4. /\ \A a \in DOMAIN q : \E j \in DOMAIN c.alerts : c.alerts[j] \in W /\ q[a] = c.alerts[j]
          /\ \A j \in DOMAIN c.alerts : c.alerts[j] \in W => \E a \in DOMAIN q : q[a] = c.alerts[j]
      BY <1>2, <3>1 DEF Selects
    <3>5. DistinctNames(q)
      <4> SUFFICES ASSUME NEW a \in DOMAIN q, NEW b \in DOMAIN q, q[a].name = q[b].name
                   PROVE  a = b
        BY DEF DistinctNames
      <4>1. PICK j \in DOMAIN c.alerts : q[a] = c.alerts[j] BY <3>4
      <4>2. PICK k \in DOMAIN c.alerts : q[b] = c.alerts[k] BY <3>4
      <4>3. j = k BY <1>2, <4>1, <4>2 DEF DistinctNames
      <4> QED BY <3>3, <4>1, <4>2, <4>3
    <3> QED BY <1>5, <2>2, <3>1, <3>4, <3>5
  <2> QED BY <2>1, <2>2
<1>7. Audience(c, e) = Wanted(q, e.type)
  <2>1. ASSUME NEW x \in Audience(c, e)
        PROVE  x \in Wanted(q, e.type)
    <3>1. PICK j \in DOMAIN c.alerts : c.alerts[j].name = x /\ Contains(c.alerts[j].events, e.type)
      BY <2>1 DEF Audience
    <3>2. chk.alerts # << >> => c.alerts[j].name \in ToSet(chk.alerts)
      BY <1>1, <2>1, <3>1 DEF Audience
    <3>3. PICK a \in DOMAIN q : q[a] = c.alerts[j] BY <1>6, <3>2
    <3> QED BY <3>1, <3>3 DEF Wanted
  <2>2. ASSUME NEW x \in Wanted(q, e.type)
        PROVE  x \in Audience(c, e)
    <3>1. PICK a \in DOMAIN q : Contains(q[a].events, e.type) /\ x = q[a].name BY <2>2 DEF Wanted
    <3>2. PICK j \in DOMAIN c.alerts :
            q[a] = c.alerts[j] /\ (chk.alerts # << >> => c.alerts[j].name \in ToSet(chk.alerts))
      BY <1>6
    <3>3. x \in Names(c.alerts) BY <3>1, <3>2 DEF Names
    <3>4. \A i \in DOMAIN c.checks :
            c.checks[i].name = e.check /\ c.checks[i].alerts # << >> =>
              x \in ToSet(c.checks[i].alerts)
      BY <1>1, <3>1, <3>2
    <3> QED BY <3>1, <3>2, <3>3, <3>4 DEF Audience
  <2> QED BY <2>1, <2>2
<1>8. << >> \in Seq({a.name : a \in A}) /\ DOMAIN << >> = {} /\ ToSet(<< >>) = {}
  BY EmptySeq DEF ToSet
<1>9. OnTheWay(A, Audience(c, e), << >>, q, e.type) BY <1>6, <1>7, <1>8 DEF OnTheWay
<1> QED BY <1>9 DEF q, chk

\* What the loop has made of it at its end, and on the way.
LEMMA TriedIs ==
  ASSUME NEW A, NEW S, NEW t, NEW q, NEW type, OnTheWay(A, S, t, q, type)
  PROVE  /\ Cardinality(ToSet(t)) = Len(t)
         /\ ToSet(t) \subseteq S
         /\ q = << >> => ToSet(t) = S
<1>1. /\ Len(t) \in Nat /\ DOMAIN t = 1..Len(t) /\ t = [i \in 1..Len(t) |-> t[i]]
      /\ \A i, j \in DOMAIN t : t[i] = t[j] => i = j
  <2>1. t \in Seq({a.name : a \in A}) /\ \A i, j \in DOMAIN t : t[i] = t[j] => i = j BY DEF OnTheWay
  <2> HIDE DEF OnTheWay
  <2> QED BY <2>1, LenProperties
<1>2. t \in Bijection(1..Len(t), ToSet(t))
  BY <1>1 DEF Bijection, Injection, Surjection, IsInjective, ToSet
<1>3. Cardinality(ToSet(t)) = Len(t) BY <1>1, <1>2, FS_CountingElements DEF ExistsBijection
<1>4. q = << >> => Wanted(q, type) = {} BY DEF Wanted
<1> QED BY <1>3, <1>4 DEF OnTheWay

-----------------------------------------------------------------------------
(***************************************************************************)
(* Each channel is tried once.                                             *)
(***************************************************************************)

\* Nothing is read, nothing is called.
LEMMA DispatchInit ==
  ASSUME Init
  PROVE  DispatchOK
<1>1. ParsedOK
  <2>1. PICK input \in Inputs : T!Start(input.file) BY DEF Init
  <2>2. LinesOK(file) BY <2>1, CommandAssumption DEF T!Start, LinesOK
  <2>3. at = 1 /\ doc = [loc \in {Root} |-> << >>] BY <2>1 DEF T!Start, T!Root, Root, T!NoKeys
  <2>4. TablesOK(doc) BY <2>3 DEF TablesOK
  <2> QED BY <2>2, <2>3, <2>4 DEF ParsedOK
<1>2. ChannelsOK BY DEF Init, Uncalled, ChannelsOK, AfterConfig, Delivering
<1> QED BY <1>1, <1>2, ProgressInit DEF DispatchOK

\* Only the parser touches what it has read.
LEMMA ParsedNext ==
  ASSUME ParsedOK, [Next]_vars
  PROVE  ParsedOK'
<1>1. CASE ReadConfig BY <1>1, ParsedStep DEF ReadConfig
<1>2. CASE UNCHANGED parseVars BY <1>2 DEF parseVars, ParsedOK
<1>3. Arguments \/ ServeCommand \/ Deliveries => UNCHANGED parseVars
  BY DEF Arguments, GlobalConfig, GlobalHelp, NoCommand, ChooseCommand, CommandHelp, NoFlags,
         ParseFlags, Positional, FlagsEnd, FlagAlone, FlagEquals, FlagValue, FlagRefused,
         FlagsParsed, ParsingFlags, At, ServeCommand, Deliveries
<1>4. Commanded => ReadConfig \/ UNCHANGED parseVars
  BY DEF Commanded, InitCommand, ConfigUnreadable, ConfigRefused, LoadConfig, ReadClock, LoadState,
         Status, Save, RecordRefused, Record, DispatchNext, Finish, At
<1> QED BY <1>1, <1>2, <1>3, <1>4 DEF Next, vars

\* A step of the loop, or of the delivery that it waits for.
LEMMA ChannelsDeliveries ==
  ASSUME ChannelsOK, Deliveries
  PROVE  ChannelsOK'
<1>1. UNCHANGED << cfg, ev, step >>
  BY DEF Deliveries, Delivery, Own, Others, Tick, Skip, Deliver, AnswerTooLate, Killed, RunReturns,
         Answer, ChildExits, StartFails, Forks, OffspringEnds, Child, Return, runVars
<1>2. CASE Tick BY <1>1, <1>2 DEF Tick, ChannelsOK, Delivering
<1>3. CASE Skip
  <2>1. /\ ~Delivering /\ todo # << >> /\ ~Contains(Head(todo).events, ev.type)
        /\ todo' = Tail(todo) /\ UNCHANGED << cur, errs, tried >>
    BY <1>3 DEF Skip, WantsEvent
  <2>2. ev # NoEvent => OnTheWay(ToSet(cfg.alerts), Audience(cfg, ev), tried, todo', ev.type)
    BY <2>1, SkipOK DEF ChannelsOK
  <2> QED BY <1>1, <2>1, <2>2 DEF ChannelsOK, Delivering
<1>4. CASE Deliver
  <2>1. /\ todo # << >> /\ Contains(Head(todo).events, ev.type)
        /\ todo' = Tail(todo) /\ errs' = errs /\ tried' = Append(tried, Head(todo).name)
        /\ cur' = [al |-> Head(todo), since |-> clock, at |-> "running", held |-> FALSE, ok |-> FALSE]
    BY <1>4 DEF Deliver, WantsEvent
  <2>2. ev # NoEvent =>
          /\ OnTheWay(ToSet(cfg.alerts), Audience(cfg, ev), tried', todo', ev.type)
          /\ ToSet(tried') = ToSet(tried) \cup {Head(todo).name}
    BY <2>1, DeliverOK DEF ChannelsOK
  <2>3. cur'.al = Head(todo) BY <2>1
  <2>4. cur' = [al |-> cur'.al, since |-> cur'.since, at |-> cur'.at, held |-> cur'.held,
                ok |-> cur'.ok]
    BY <2>1
  <2> QED BY <1>1, <2>1, <2>2, <2>3, <2>4 DEF ChannelsOK
<1>5. ASSUME NEW ok, Delivering, Return(ok)
      PROVE  ChannelsOK'
  BY <1>1, <1>5 DEF Return, ChannelsOK, Delivering
<1>6. ASSUME NEW now, Delivering, Child(now), now.al = cur.al,
             now = [al |-> now.al, since |-> now.since, at |-> now.at, held |-> now.held,
                    ok |-> now.ok]
      PROVE  ChannelsOK'
  BY <1>1, <1>6 DEF Child, ChannelsOK, Delivering
<1>7. CASE \/ \E ok \in BOOLEAN : Answer(ok)
           \/ AnswerTooLate \/ StartFails \/ RunReturns
  BY <1>5, <1>7 DEF Answer, AnswerTooLate, StartFails, RunReturns, Webhook, Command, Watched
<1>8. CASE (\E ok \in BOOLEAN : ChildExits(ok)) \/ Killed \/ Forks \/ OffspringEnds
  <2>1. Delivering /\ \E ok \in BOOLEAN :
          \/ Child([cur EXCEPT !.at = "exited", !.ok = ok])
          \/ Child([cur EXCEPT !.held = TRUE]) \/ Child([cur EXCEPT !.held = FALSE])
    BY <1>8 DEF ChildExits, Killed, Forks, OffspringEnds, Command, Watched
  <2>2. cur = [al |-> cur.al, since |-> cur.since, at |-> cur.at, held |-> cur.held, ok |-> cur.ok]
    BY <2>1 DEF ChannelsOK
  <2>3. ASSUME NEW ok, NEW h, NEW now,
               now = [cur EXCEPT !.at = "exited", !.ok = ok] \/ now = [cur EXCEPT !.held = h]
        PROVE  /\ now.al = cur.al
               /\ now = [al |-> now.al, since |-> now.since, at |-> now.at, held |-> now.held,
                         ok |-> now.ok]
    BY <2>2, <2>3
  <2> QED BY <1>6, <2>1, <2>3
<1> QED BY <1>2, <1>3, <1>4, <1>7, <1>8 DEF Deliveries, Delivery, Own, Others

\* A step of the program: it loads a configuration before it dispatches, and
\* begins a call when the call before has returned.
LEMMA ChannelsProgram ==
  ASSUME ProgressOK, ParsedOK, ChannelsOK, Arguments \/ Commanded \/ ServeCommand
  PROVE  ChannelsOK'
<1>1. CASE UNCHANGED << cfg, callVars >> /\ (step' \in AfterConfig => step \in AfterConfig)
  BY <1>1 DEF callVars, ChannelsOK, Delivering
<1>2. CASE LoadConfig
  <2>1. step = "config" /\ Loads(doc) /\ cfg' = Decode(doc) /\ UNCHANGED callVars
    BY <1>2 DEF LoadConfig
  <2>2. ev = NoEvent /\ ~Delivering BY <2>1 DEF ProgressOK, Delivered, Done
  <2>3. ConfigOK(cfg') BY <2>1, DecodedOK DEF ParsedOK
  <2> QED BY <2>1, <2>2, <2>3 DEF ChannelsOK, callVars, Delivering
<1>3. CASE DispatchNext
  <2> DEFINE e == Head(events)
  <2>1. /\ step = "deliver" /\ ~Delivering
        /\ todo' = AlertsFor(cfg, CheckByName(cfg, e.check)) /\ ev' = e
        /\ errs' = {} /\ tried' = << >> /\ UNCHANGED << cfg, cur, step >>
    BY <1>3 DEF DispatchNext, Call, Done
  <2> HIDE DEF e
  <2>2. ConfigOK(cfg) BY <2>1 DEF ChannelsOK, AfterConfig
  <2>3. OnTheWay(ToSet(cfg.alerts), Audience(cfg, ev'), tried', todo', ev'.type)
    BY <2>1, <2>2, CallOK
  <2> QED BY <2>1, <2>2, <2>3 DEF ChannelsOK, Delivering
<1>4. Arguments =>
        UNCHANGED << cfg, callVars >> /\ (step' \in AfterConfig => step \in AfterConfig)
  <2>1. Arguments => UNCHANGED << cfg, callVars >>
    BY DEF Arguments, GlobalConfig, GlobalHelp, NoCommand, ChooseCommand, CommandHelp, NoFlags,
           ParseFlags, Positional, FlagsEnd, FlagAlone, FlagEquals, FlagValue, FlagRefused,
           FlagsParsed, ParsingFlags, At
  <2>2. Arguments => step' = step \/ step' \in {"done", "command", "init", "config", "flags"}
    BY DEF Arguments, GlobalConfig, GlobalHelp, NoCommand, ChooseCommand, CommandHelp, NoFlags,
           ParseFlags, Positional, FlagsEnd, FlagAlone, FlagEquals, FlagValue, FlagRefused,
           FlagsParsed, Seen, Exit, Goto, runVars
  <2> QED BY <2>1, <2>2 DEF AfterConfig
<1>5. Commanded \/ ServeCommand =>
        \/ LoadConfig \/ DispatchNext
        \/ UNCHANGED << cfg, callVars >> /\ (step' \in AfterConfig => step \in AfterConfig)
  BY DEF Commanded, InitCommand, ConfigUnreadable, ReadConfig, ConfigRefused, ReadClock, LoadState,
         Status, Save, RecordRefused, Record, Finish, ServeCommand, At, Exit, Goto, runVars,
         AfterConfig
<1> QED BY <1>1, <1>2, <1>3, <1>4, <1>5

\* Every step keeps all of it.
LEMMA DispatchStep ==
  ASSUME DispatchOK, [Next]_vars
  PROVE  DispatchOK'
<1>1. ProgressOK' /\ ParsedOK' BY ProgressStep, ParsedNext DEF DispatchOK
<1>2. ChannelsOK'
  <2>1. CASE UNCHANGED vars BY <2>1 DEF DispatchOK, ChannelsOK, vars, runVars, callVars, Delivering
  <2> QED BY <2>1, ChannelsDeliveries, ChannelsProgram DEF DispatchOK, Next
<1> QED BY <1>1, <1>2 DEF DispatchOK

\* Whatever fails or times out, the channels that ought to hear of an event are
\* each tried exactly once and no other is; errors are returned only for these.
THEOREM EachAlwaysTriedOnce == Spec => []EachTriedOnce
<1>1. Init => DispatchOK BY DispatchInit
<1>2. DispatchOK /\ [Next]_vars => DispatchOK' BY DispatchStep
<1>3. DispatchOK => EachTriedOnce
  <2> SUFFICES ASSUME DispatchOK, ev # NoEvent
               PROVE  EachTriedOnce
    BY DEF EachTriedOnce
  <2>1. OnTheWay(ToSet(cfg.alerts), Audience(cfg, ev), tried, todo, ev.type)
        /\ errs \subseteq ToSet(tried)
    BY DEF DispatchOK, ChannelsOK
  <2>2. Subscribed = Audience(cfg, ev) BY DEF Subscribed, Audience, WantsEvent
  <2>3. /\ Cardinality(ToSet(tried)) = Len(tried) /\ ToSet(tried) \subseteq Audience(cfg, ev)
        /\ todo = << >> => ToSet(tried) = Audience(cfg, ev)
    BY <2>1, TriedIs
  <2> QED BY <2>1, <2>2, <2>3 DEF EachTriedOnce, Done
<1> QED BY <1>1, <1>2, <1>3, PTL DEF Spec

-----------------------------------------------------------------------------
(***************************************************************************)
(* How long a delivery takes.                                              *)
(***************************************************************************)

\* The recursive function of TimeoutSums obeys its own equations.
LEMMA SumsAre ==
  ASSUME NEW A, NEW s \in Seq(A)
  PROVE  \A N : TimeoutSums(s, N) = [i \in 0..Len(s) |->
           IF i = 0 THEN 0
           ELSE TimeoutSums(s, N)[i - 1] + IF s[i].name \in N THEN s[i].timeout ELSE 0]
<1> TAKE N
<1> DEFINE Own1(i) == IF s[i].name \in N THEN s[i].timeout ELSE 0
           Is(f, n) == f = [i \in 0..n |-> IF i = 0 THEN 0 ELSE f[i - 1] + Own1(i)]
           Ns == {n \in Nat : \E f : Is(f, n)}
<1>1. 0 \in Ns
  <2>1. Is([i \in 0..0 |-> 0], 0) OBVIOUS
  <2> QED BY <2>1
<1>2. ASSUME NEW n \in Nat, n \in Ns
      PROVE  n + 1 \in Ns
  <2>1. PICK f : Is(f, n) BY <1>2
  <2> DEFINE g == [i \in 0..(n + 1) |-> IF i = n + 1 THEN f[n] + Own1(i) ELSE f[i]]
  <2> HIDE DEF Own1
  <2>2. \A i \in 0..(n + 1) : g[i] = IF i = 0 THEN 0 ELSE g[i - 1] + Own1(i)
    <3> SUFFICES ASSUME NEW i \in 0..(n + 1)
                 PROVE g[i] = IF i = 0 THEN 0 ELSE g[i - 1] + Own1(i)
      OBVIOUS
    <3>1. CASE i = n + 1 BY <3>1
    <3>2. CASE i # n + 1
      <4>1. i \in 0..n /\ g[i] = f[i] /\ (i # 0 => i - 1 \in 0..n /\ g[i - 1] = f[i - 1]) BY <3>2
      <4> HIDE DEF g
      <4> QED BY <2>1, <4>1
    <3> QED BY <3>1, <3>2
  <2>3. g = [i \in 0..(n + 1) |-> g[i]] OBVIOUS
  <2> HIDE DEF g
  <2>4. Is(g, n + 1) BY <2>2, <2>3
  <2>5. \E h : Is(h, n + 1) BY <2>4
  <2> HIDE DEF Is
  <2> QED BY <2>5
<1>3. Len(s) \in Nat BY LenProperties
<1>4. \E f : Is(f, Len(s))
  <2> HIDE DEF Ns, Is
  <2>1. Nat \subseteq Ns BY <1>1, <1>2, SetInduction
  <2> QED BY <1>3, <2>1 DEF Ns
<1>5. TimeoutSums(s, N) = CHOOSE f : Is(f, Len(s)) BY DEF TimeoutSums
<1> HIDE DEF Is
<1>6. Is(TimeoutSums(s, N), Len(s)) BY <1>4, <1>5
<1> QED BY <1>6 DEF Is

\* The sum is a number, and one more channel adds its timeout.
LEMMA TimeoutsMore ==
  ASSUME NEW A, NEW s \in Seq(A), DistinctNames(s), \A i \in DOMAIN s : s[i].timeout \in Nat,
         NEW N, NEW k \in DOMAIN s, s[k].name \notin N
  PROVE  /\ Timeouts(s, N) \in Nat
         /\ Timeouts(s, N \cup {s[k].name}) = Timeouts(s, N) + s[k].timeout
<1> DEFINE M == N \cup {s[k].name}
           f == TimeoutSums(s, N)
           g == TimeoutSums(s, M)
           x == s[k].timeout
           Ns == {i \in Nat : i <= Len(s) =>
                    f[i] \in Nat /\ g[i] = IF i < k THEN f[i] ELSE f[i] + x}
<1>1. Len(s) \in Nat /\ DOMAIN s = 1..Len(s) /\ k \in 1..Len(s) /\ x \in Nat BY LenProperties
<1> HIDE DEF M
<1>2. /\ f = [i \in 0..Len(s) |->
           IF i = 0 THEN 0 ELSE f[i - 1] + IF s[i].name \in N THEN s[i].timeout ELSE 0]
      /\ g = [i \in 0..Len(s) |->
           IF i = 0 THEN 0 ELSE g[i - 1] + IF s[i].name \in M THEN s[i].timeout ELSE 0]
  <2>1. \A K : TimeoutSums(s, K) = [i \in 0..Len(s) |->
          IF i = 0 THEN 0
          ELSE TimeoutSums(s, K)[i - 1] + IF s[i].name \in K THEN s[i].timeout ELSE 0]
    BY SumsAre
  <2> QED BY <2>1, Zenon
<1> USE DEF M
<1> HIDE DEF f, g
<1>3. 0 \in Ns BY <1>1, <1>2
<1>4. ASSUME NEW n \in Nat, n \in Ns
      PROVE  n + 1 \in Ns
  <2> SUFFICES ASSUME n + 1 <= Len(s)
               PROVE  f[n + 1] \in Nat /\ g[n + 1] = IF n + 1 < k THEN f[n + 1] ELSE f[n + 1] + x
    OBVIOUS
  <2>1. n + 1 \in 0..Len(s) /\ n + 1 # 0 /\ (n + 1) - 1 = n /\ n <= Len(s) /\ n + 1 \in DOMAIN s
    BY <1>1
  <2>2. f[n] \in Nat /\ g[n] = IF n < k THEN f[n] ELSE f[n] + x BY <1>4, <2>1
  <2>3. /\ f[n + 1] = f[n] + IF s[n + 1].name \in N THEN s[n + 1].timeout ELSE 0
        /\ g[n + 1] = g[n] + IF s[n + 1].name \in M THEN s[n + 1].timeout ELSE 0
    BY <1>2, <2>1
  <2>4. s[n + 1].timeout \in Nat BY <2>1
  <2>5. CASE n + 1 = k BY <1>1, <2>2, <2>3, <2>4, <2>5
  <2>6. CASE n + 1 # k
    <3>1. s[n + 1].name \in M <=> s[n + 1].name \in N BY <2>1, <2>6 DEF DistinctNames
    <3> HIDE DEF M
    <3> QED BY SMTT(30), <1>1, <2>2, <2>3, <2>4, <2>6, <3>1
  <2> QED BY <2>5, <2>6
<1>5. Len(s) \in Ns
  <2> HIDE DEF Ns
  <2>1. Nat \subseteq Ns BY <1>3, <1>4, SetInduction
  <2> QED BY <1>1, <2>1
<1>6. f[Len(s)] \in Nat /\ g[Len(s)] = f[Len(s)] + x BY <1>1, <1>5
<1> QED BY <1>6 DEF Timeouts, f, g

\* No timeout, no time.
LEMMA TimeoutsNone ==
  ASSUME NEW A, NEW s \in Seq(A)
  PROVE  Timeouts(s, {}) = 0
<1> DEFINE f == TimeoutSums(s, {})
           Ns == {i \in Nat : i <= Len(s) => f[i] = 0}
<1>1. Len(s) \in Nat BY LenProperties
<1>2. f = [i \in 0..Len(s) |->
        IF i = 0 THEN 0 ELSE f[i - 1] + IF s[i].name \in {} THEN s[i].timeout ELSE 0]
  <2>1. \A K : TimeoutSums(s, K) = [i \in 0..Len(s) |->
          IF i = 0 THEN 0
          ELSE TimeoutSums(s, K)[i - 1] + IF s[i].name \in K THEN s[i].timeout ELSE 0]
    BY SumsAre
  <2> QED BY <2>1, Zenon
<1> HIDE DEF f
<1>3. 0 \in Ns BY <1>1, <1>2
<1>4. ASSUME NEW n \in Nat, n \in Ns
      PROVE  n + 1 \in Ns
  <2> SUFFICES ASSUME n + 1 <= Len(s)
               PROVE  f[n + 1] = 0
    OBVIOUS
  <2>1. n + 1 \in 0..Len(s) /\ n + 1 # 0 /\ (n + 1) - 1 = n /\ n <= Len(s) BY <1>1
  <2>2. f[n + 1] = f[n] + 0 BY <1>2, <2>1
  <2> QED BY <1>4, <2>1, <2>2
<1>5. Len(s) \in Ns
  <2> HIDE DEF Ns
  <2>1. Nat \subseteq Ns BY <1>3, <1>4, SetInduction
  <2> QED BY <1>1, <2>1
<1> QED BY <1>1, <1>5 DEF Timeouts, f

\* The clock goes on only while a delivery is within its timeout; a delivery
\* adds its own.
LEMMA ClockDeliveries ==
  ASSUME ChannelsOK, ClockOK, LingeredOK, Deliveries
  PROVE  ClockOK' /\ LingeredOK'
<1>1. UNCHANGED << cfg, ev >>
  BY DEF Deliveries, Delivery, Own, Others, Tick, Skip, Deliver, AnswerTooLate, Killed, RunReturns,
         Answer, ChildExits, StartFails, Forks, OffspringEnds, Child, Return
<1>2. CASE Tick
  <2>1. /\ clock' = clock + 1 /\ UNCHANGED << cur, tried, lingered >> /\ Delivering
        /\ clock < cur.since + cur.al.timeout \/ (cur.at = "exited" /\ cur.held)
    BY <1>2 DEF Tick, Watched, Deadline
  <2> QED BY <1>1, <2>1 DEF ClockOK, LingeredOK, Delivering
<1>3. CASE Skip BY <1>1, <1>3 DEF Skip, ClockOK, LingeredOK, Delivering
<1>4. CASE Deliver
  <2> DEFINE al == Head(todo)
             T0 == Timeouts(cfg.alerts, ToSet(tried))
  <2>1. /\ ~Delivering /\ todo # << >> /\ Contains(al.events, ev.type)
        /\ tried' = Append(tried, al.name) /\ UNCHANGED << clock, lingered >>
        /\ cur' = [al |-> al, since |-> clock, at |-> "running", held |-> FALSE, ok |-> FALSE]
    BY <1>4 DEF Deliver, WantsEvent
  <2>2. cur'.al = al /\ cur'.since = clock /\ cur'.at = "running" BY <2>1
  <2>3. ASSUME ev # NoEvent
        PROVE  /\ al.timeout \in Nat /\ T0 \in Nat
               /\ Timeouts(cfg.alerts, ToSet(tried')) = T0 + al.timeout
    <3>1. /\ OnTheWay(ToSet(cfg.alerts), Audience(cfg, ev), tried, todo, ev.type)
          /\ ConfigOK(cfg)
      BY <2>3 DEF ChannelsOK
    <3>2. /\ todo \in Seq(ToSet(cfg.alerts)) /\ DistinctNames(todo)
          /\ \A i \in DOMAIN tried : \A j \in DOMAIN todo : tried[i] # todo[j].name
      BY <3>1 DEF OnTheWay
    <3>3. al \in ToSet(cfg.alerts) /\ \E j \in DOMAIN todo : todo[j] = al BY <2>1, <3>2, FirstIs
    <3>4. ToSet(tried') = ToSet(tried) \cup {al.name} BY <2>1, <3>1, DeliverOK
    <3> HIDE DEF al
    <3>5. PICK k \in DOMAIN cfg.alerts : cfg.alerts[k] = al BY <3>3 DEF ToSet
    <3>6. al.name \notin ToSet(tried) BY <3>2, <3>3 DEF ToSet
    <3> QED BY <3>1, <3>4, <3>5, <3>6, TimeoutsMore DEF ConfigOK
  <2> HIDE DEF al, T0
  <2>4. lingered = FALSE /\ ev # NoEvent => clock \in Nat /\ clock <= T0 BY <2>1 DEF ClockOK, T0
  <2>5. lingered' = FALSE /\ ev' # NoEvent =>
          /\ Timeouts(cfg'.alerts, ToSet(tried')) \in Nat
          /\ clock' \in Nat /\ cur'.since \in Nat /\ cur'.al.timeout \in Nat
          /\ clock' <= cur'.since + cur'.al.timeout
          /\ cur'.since + cur'.al.timeout <= Timeouts(cfg'.alerts, ToSet(tried'))
    BY <1>1, <2>1, <2>2, <2>3, <2>4
  <2>6. Delivering' => cur'.at # "exited" BY <2>2
  <2>7. cur' # NoDelivery \/ (lingered' = FALSE /\ ev' # NoEvent =>
          clock' <= Timeouts(cfg'.alerts, ToSet(tried')))
    BY <1>1, <2>1, <2>2, <2>3, <2>4
  <2> QED BY <2>1, <2>5, <2>6, <2>7 DEF ClockOK, LingeredOK, Delivering
<1>5. ASSUME NEW ok, Delivering, Return(ok)
      PROVE  ClockOK' /\ LingeredOK'
  <2>1. cur' = NoDelivery /\ UNCHANGED << clock, tried, lingered >> BY <1>5 DEF Return
  <2>2. lingered = FALSE /\ ev # NoEvent =>
          /\ clock \in Nat /\ clock <= Timeouts(cfg.alerts, ToSet(tried))
          /\ Timeouts(cfg.alerts, ToSet(tried)) \in Nat
    <3> SUFFICES ASSUME lingered = FALSE, ev # NoEvent
                 PROVE  /\ clock \in Nat /\ clock <= Timeouts(cfg.alerts, ToSet(tried))
                        /\ Timeouts(cfg.alerts, ToSet(tried)) \in Nat
      OBVIOUS
    <3> QED BY <1>5 DEF ClockOK
  <2> QED BY <1>1, <2>1, <2>2 DEF ClockOK, LingeredOK, Delivering
<1>6. ASSUME NEW now, Delivering, Child(now), now.since = cur.since, now.al = cur.al
      PROVE  ClockOK' /\ LingeredOK'
  <2>1. /\ cur' = now /\ UNCHANGED << clock, tried >>
        /\ lingered' = (lingered \/ (now.at = "exited" /\ now.held))
    BY <1>6 DEF Child
  <2>2. lingered' \in BOOLEAN BY <2>1
  <2>3. lingered' = FALSE => lingered = FALSE /\ (now.at = "exited" => ~now.held)
    BY <2>1 DEF LingeredOK
  <2>4. ASSUME lingered' = FALSE, ev' # NoEvent
        PROVE  /\ clock \in Nat /\ Timeouts(cfg.alerts, ToSet(tried)) \in Nat
               /\ cur.since \in Nat /\ cur.al.timeout \in Nat
               /\ clock <= cur.since + cur.al.timeout
               /\ cur.since + cur.al.timeout <= Timeouts(cfg.alerts, ToSet(tried))
    BY <1>1, <1>6, <2>3, <2>4 DEF ClockOK
  <2>5. ASSUME lingered' = FALSE, ev' # NoEvent
        PROVE  clock <= Timeouts(cfg.alerts, ToSet(tried))
    <3>1. /\ clock \in Nat /\ Timeouts(cfg.alerts, ToSet(tried)) \in Nat
          /\ cur.since \in Nat /\ cur.al.timeout \in Nat
          /\ clock <= cur.since + cur.al.timeout
          /\ cur.since + cur.al.timeout <= Timeouts(cfg.alerts, ToSet(tried))
      BY <2>4, <2>5
    <3> QED BY <3>1
  <2> QED BY <1>1, <1>6, <2>1, <2>2, <2>3, <2>4, <2>5 DEF ClockOK, LingeredOK
<1>7. CASE \/ \E ok \in BOOLEAN : Answer(ok)
           \/ AnswerTooLate \/ StartFails \/ RunReturns
  BY <1>5, <1>7 DEF Answer, AnswerTooLate, StartFails, RunReturns, Webhook, Command, Watched
<1>8. CASE (\E ok \in BOOLEAN : ChildExits(ok)) \/ Killed \/ Forks \/ OffspringEnds
  <2>1. Delivering /\ \E ok \in BOOLEAN :
          \/ Child([cur EXCEPT !.at = "exited", !.ok = ok])
          \/ Child([cur EXCEPT !.held = TRUE]) \/ Child([cur EXCEPT !.held = FALSE])
    BY <1>8 DEF ChildExits, Killed, Forks, OffspringEnds, Command, Watched
  <2>2. cur = [al |-> cur.al, since |-> cur.since, at |-> cur.at, held |-> cur.held, ok |-> cur.ok]
    BY <2>1 DEF ChannelsOK
  <2>3. ASSUME NEW ok, NEW h, NEW now,
               now = [cur EXCEPT !.at = "exited", !.ok = ok] \/ now = [cur EXCEPT !.held = h]
        PROVE  now.since = cur.since /\ now.al = cur.al
    BY <2>2, <2>3
  <2> QED BY <1>6, <2>1, <2>3
<1> QED BY <1>2, <1>3, <1>4, <1>7, <1>8 DEF Deliveries, Delivery, Own, Others

\* A call starts the clock; nothing else in the program touches it.
LEMMA ClockProgram ==
  ASSUME ProgressOK, ChannelsOK, ClockOK, LingeredOK, Arguments \/ Commanded \/ ServeCommand
  PROVE  ClockOK' /\ LingeredOK'
<1>1. CASE UNCHANGED << cfg, callVars >> BY <1>1 DEF callVars, ClockOK, LingeredOK, Delivering
<1>2. CASE LoadConfig
  <2>1. step = "config" /\ UNCHANGED callVars BY <1>2 DEF LoadConfig
  <2> QED BY <2>1 DEF ProgressOK, Delivered, ClockOK, LingeredOK, callVars
<1>3. CASE DispatchNext
  <2>1. /\ step = "deliver" /\ ~Delivering /\ clock' = 0 /\ tried' = << >> /\ lingered' = FALSE
        /\ UNCHANGED << cfg, cur >>
    BY <1>3 DEF DispatchNext, Call, Done
  <2>2. ConfigOK(cfg) BY <2>1 DEF ChannelsOK, AfterConfig
  <2>3. Timeouts(cfg.alerts, {}) = 0 BY <2>2, TimeoutsNone DEF ConfigOK
  <2>4. ToSet(tried') = {} BY <2>1 DEF ToSet
  <2>5. /\ clock' \in Nat /\ Timeouts(cfg'.alerts, ToSet(tried')) \in Nat
        /\ clock' <= Timeouts(cfg'.alerts, ToSet(tried'))
    <3>1. Timeouts(cfg'.alerts, ToSet(tried')) = 0
      <4>1. cfg' = cfg BY <2>1
      <4> QED BY <2>3, <2>4, <4>1, Zenon
    <3> QED BY <2>1, <3>1
  <2>6. ~Delivering' BY <2>1 DEF Delivering
  <2> QED BY <2>1, <2>5, <2>6 DEF ClockOK, LingeredOK
<1>4. Arguments => UNCHANGED << cfg, callVars >>
  BY DEF Arguments, GlobalConfig, GlobalHelp, NoCommand, ChooseCommand, CommandHelp, NoFlags,
         ParseFlags, Positional, FlagsEnd, FlagAlone, FlagEquals, FlagValue, FlagRefused,
         FlagsParsed, ParsingFlags, At
<1>5. Commanded \/ ServeCommand => LoadConfig \/ DispatchNext \/ UNCHANGED << cfg, callVars >>
  BY DEF Commanded, InitCommand, ConfigUnreadable, ReadConfig, ConfigRefused, ReadClock, LoadState,
         Status, Save, RecordRefused, Record, Finish, ServeCommand, At
<1> QED BY <1>1, <1>2, <1>3, <1>4, <1>5

\* When no command leaves a process behind, Dispatch takes no longer than the
\* timeouts of the channels it has tried together, whatever the receivers do.
THEOREM AlwaysBoundedIfNoneLingers == Spec => []BoundedIfNoneLingers
<1> DEFINE Inv == DispatchOK /\ ClockOK /\ LingeredOK
<1>1. Init => Inv
  <2> SUFFICES ASSUME Init
               PROVE  Inv
    OBVIOUS
  <2>1. ev = NoEvent /\ lingered = FALSE BY DEF Init, Uncalled
  <2> QED BY <2>1, DispatchInit DEF ClockOK, LingeredOK
<1>2. Inv /\ [Next]_vars => Inv'
  <2> SUFFICES ASSUME Inv, [Next]_vars
               PROVE  Inv'
    OBVIOUS
  <2>1. CASE UNCHANGED vars
    BY <2>1, DispatchStep DEF ClockOK, LingeredOK, vars, callVars, Delivering
  <2>2. CASE Next BY <2>2, DispatchStep, ClockDeliveries, ClockProgram DEF Next, DispatchOK
  <2> QED BY <2>1, <2>2
<1>3. Inv => BoundedIfNoneLingers
  <2> SUFFICES ASSUME Inv, ~lingered, ev # NoEvent
               PROVE  clock <= Timeouts(cfg.alerts, ToSet(tried))
    BY DEF BoundedIfNoneLingers, BoundedByTimeouts
  <2>1. lingered = FALSE BY DEF LingeredOK
  <2>2. CASE ~Delivering BY <2>1, <2>2 DEF ClockOK
  <2>3. CASE Delivering
    <3>1. /\ clock \in Nat /\ Timeouts(cfg.alerts, ToSet(tried)) \in Nat
          /\ cur.since \in Nat /\ cur.al.timeout \in Nat
          /\ clock <= cur.since + cur.al.timeout
          /\ cur.since + cur.al.timeout <= Timeouts(cfg.alerts, ToSet(tried))
      BY <2>1, <2>3 DEF ClockOK
    <3> QED BY <3>1
  <2> QED BY <2>2, <2>3
<1> QED BY <1>1, <1>2, <1>3, PTL DEF Spec

-----------------------------------------------------------------------------
(***************************************************************************)
(* Positions and locations.                                                *)
(***************************************************************************)

\* What a segment is made of.
LEMMA SegIs ==
  /\ \A key \in Keys, num \in Nat : Seg(key, num) \in Segments
  /\ \A key, num : Seg(key, num)[1] = key /\ Seg(key, num)[2] = num
  /\ \A x \in Segments : x[1] \in Keys /\ x[2] \in Nat /\ x = Seg(x[1], x[2])
<1>1. \A key \in Keys, num \in Nat : Seg(key, num) \in Segments BY DEF Seg, Segments
<1>2. \A key, num : Seg(key, num)[1] = key /\ Seg(key, num)[2] = num BY DEF Seg
<1>3. \A x \in Segments : x[1] \in Keys /\ x[2] \in Nat /\ x = Seg(x[1], x[2]) BY DEF Seg, Segments
<1> QED BY <1>1, <1>2, <1>3

\* What a prefix is.
LEMMA PrefixIs ==
  ASSUME NEW p \in Paths, NEW q \in Paths
  PROVE  /\ IsPrefix(p, q) <=> Len(p) <= Len(q) /\ \A i \in 1..Len(p) : p[i] = q[i]
         /\ IsStrictPrefix(p, q) <=> IsPrefix(p, q) /\ Len(p) < Len(q)
<1>1. /\ Len(p) \in Nat /\ Len(q) \in Nat /\ SubSeq(p, 1, Len(p)) = p
      /\ \A i \in 1..Len(p) : p[i] \in Keys
      /\ \A i \in 1..Len(q) : q[i] \in Keys
  BY LenProperties, SubSeqFull, ElementOfSeq DEF Paths
<1>2. ASSUME Len(p) <= Len(q)
      PROVE  /\ SubSeq(q, 1, Len(p)) \in Paths /\ Len(SubSeq(q, 1, Len(p))) = Len(p)
             /\ \A i \in 1..Len(p) : SubSeq(q, 1, Len(p))[i] = q[i]
  <2>1. \A i \in 1..Len(p) : q[i] \in Keys BY <1>1, <1>2
  <2>2. /\ SubSeq(q, 1, Len(p)) \in Seq(Keys)
        /\ Len(SubSeq(q, 1, Len(p))) = IF 1 <= Len(p) THEN Len(p) - 1 + 1 ELSE 0
        /\ \A i \in 1..(Len(p) - 1 + 1) : SubSeq(q, 1, Len(p))[i] = q[1 + i - 1]
    BY <1>1, <2>1, SubSeqProperties
  <2> QED BY <1>1, <2>2 DEF Paths
<1>3. IsPrefix(p, q) <=> Len(p) <= Len(q) /\ \A i \in 1..Len(p) : p[i] = q[i]
  <2>1. ASSUME Len(p) <= Len(q), \A i \in 1..Len(p) : p[i] = q[i]
        PROVE  p = SubSeq(q, 1, Len(p))
    BY <1>1, <1>2, <2>1, SeqEqual DEF Paths
  <2> QED BY <1>1, <1>2, <2>1 DEF IsPrefix
<1>4. ASSUME Len(p) = Len(q), \A i \in 1..Len(p) : p[i] = q[i]
      PROVE  p = q
  BY <1>1, <1>4, SeqEqual DEF Paths
<1> QED BY <1>1, <1>3, <1>4 DEF IsStrictPrefix

\* A sequence with one element more.
LEMMA ThenIs ==
  ASSUME NEW S, NEW q \in Seq(S), NEW e \in S
  PROVE  /\ Then(q, e) \in Seq(S) /\ Len(Then(q, e)) = Len(q) + 1 /\ Len(q) \in Nat
         /\ \A i \in 1..Len(q) : Then(q, e)[i] = q[i]
         /\ Then(q, e)[Len(q) + 1] = e
         /\ SubSeq(Then(q, e), 1, Len(q)) = q
         /\ Then(q, e) # << >> /\ Front(Then(q, e)) = q /\ Last(Then(q, e)) = e
<1> DEFINE r == Then(q, e)
           s == SubSeq(r, 1, Len(q))
<1>1. /\ r \in Seq(S) /\ r # << >> /\ Len(r) = Len(q) + 1 /\ Len(q) \in Nat
      /\ \A i \in 1..Len(q) : r[i] = q[i]
      /\ r[Len(q) + 1] = e
  BY AppendProperties, LenProperties DEF Then
<1> HIDE DEF r
<1>2. s \in Seq(S) /\ Len(s) = Len(q) /\ \A i \in 1..Len(q) : s[i] = r[i] BY <1>1, BeginIs
<1> HIDE DEF s
<1>3. s = q BY <1>1, <1>2, SeqEqual
<1> QED BY <1>1, <1>3 DEF r, s, Front, Last

\* A path or location with one element more, ...
LEMMA PathThen ==
  ASSUME NEW q \in Paths, NEW e \in Keys
  PROVE  /\ Then(q, e) \in Paths /\ Len(Then(q, e)) = Len(q) + 1 /\ Len(q) \in Nat
         /\ \A i \in 1..Len(q) : Then(q, e)[i] = q[i]
         /\ Then(q, e)[Len(q) + 1] = e
         /\ SubSeq(Then(q, e), 1, Len(q)) = q
         /\ Then(q, e) # << >> /\ Front(Then(q, e)) = q /\ Last(Then(q, e)) = e
BY ZenonT(40), ThenIs DEF Paths

\* A location and one more segment.
LEMMA LocThen ==
  ASSUME NEW q \in Locs, NEW e \in Segments
  PROVE  /\ Then(q, e) \in Locs /\ Len(Then(q, e)) = Len(q) + 1 /\ Len(q) \in Nat
         /\ \A i \in 1..Len(q) : Then(q, e)[i] = q[i]
         /\ Then(q, e)[Len(q) + 1] = e
         /\ SubSeq(Then(q, e), 1, Len(q)) = q
         /\ Then(q, e) # << >> /\ Front(Then(q, e)) = q /\ Last(Then(q, e)) = e
BY ZenonT(40), ThenIs DEF Locs

\* ... which tells what it is made of.
LEMMA LocSame ==
  ASSUME NEW q \in Locs, NEW e \in Segments, NEW r \in Locs, NEW x \in Segments
  PROVE  Then(q, e) = Then(r, x) <=> q = r /\ e = x
<1>1. /\ Front(Then(q, e)) = q /\ Last(Then(q, e)) = e
      /\ Front(Then(r, x)) = r /\ Last(Then(r, x)) = x
  BY LocThen
<1> QED BY <1>1

\* Their beginnings.
LEMMA PathBegins ==
  ASSUME NEW q \in Paths, NEW m \in 0..Len(q)
  PROVE  /\ SubSeq(q, 1, m) \in Paths /\ Len(SubSeq(q, 1, m)) = m
         /\ \A i \in 1..m : SubSeq(q, 1, m)[i] = q[i]
         /\ \A i \in 0..m : SubSeq(SubSeq(q, 1, m), 1, i) = SubSeq(q, 1, i)
BY BeginIs DEF Paths

\* The beginnings of a location.
LEMMA LocBegins ==
  ASSUME NEW q \in Locs, NEW m \in 0..Len(q)
  PROVE  /\ SubSeq(q, 1, m) \in Locs /\ Len(SubSeq(q, 1, m)) = m
         /\ \A i \in 1..m : SubSeq(q, 1, m)[i] = q[i]
         /\ \A i \in 0..m : SubSeq(SubSeq(q, 1, m), 1, i) = SubSeq(q, 1, i)
BY BeginIs DEF Locs

\* [[q]] counts up, [[p]] above it begins again, and nothing else matters.
LEMMA PositionStep ==
  ASSUME NEW f, Written(f), NEW q \in Paths, NEW n \in Nat
  PROVE  /\ Position(f, q, 0) = 0 /\ Position(f, q, n) \in Nat
         /\ LET line == f[n + 1] IN
            Position(f, q, n + 1) =
              IF line.kind = "tables" /\ line.path = q THEN Position(f, q, n) + 1
              ELSE IF line.kind = "tables" /\ IsStrictPrefix(line.path, q) THEN 0
              ELSE Position(f, q, n)
<1> DEFINE Resets(k) == f[k].kind = "tables" /\ IsStrictPrefix(f[k].path, q)
           Counts(k) == f[k].kind = "tables" /\ f[k].path = q
           E(j) == {i \in 1..j : Counts(i) /\ ~ \E k \in (i + 1)..j : Resets(k)}
<1>1. \A j : Position(f, q, j) = Cardinality(E(j))
  <2> SUFFICES ASSUME NEW j PROVE Position(f, q, j) = Cardinality(E(j)) OBVIOUS
  <2>1. E(j) = {i \in 1..j :
    /\ f[i].kind = "tables" /\ f[i].path = q
    /\ ~ \E k \in (i + 1)..j : f[k].kind = "tables" /\ IsStrictPrefix(f[k].path, q)}
    BY Zenon
  <2> QED BY <2>1 DEF Position
<1>2. \A k : Counts(k) => ~Resets(k) BY DEF IsStrictPrefix
<1> HIDE DEF Resets, Counts
<1>3. IsFiniteSet(E(n)) /\ E(n) \subseteq 1..n
  <2>1. IsFiniteSet(1..n) BY FS_Interval
  <2>2. E(n) \in SUBSET (1..n) OBVIOUS
  <2> HIDE DEF E
  <2> QED BY <2>1, <2>2, FS_Subset
<1>4. E(0) = {} /\ Cardinality({}) = 0 BY FS_EmptySet
<1>5. Cardinality(E(n)) \in Nat
  <2> HIDE DEF E
  <2> QED BY <1>3, FS_CardinalityType
<1>6. CASE Counts(n + 1)
  <2>1. E(n + 1) = E(n) \cup {n + 1}
    <3>1. ~Resets(n + 1) BY <1>2, <1>6
    <3> QED BY <1>6, <3>1
  <2>2. n + 1 \notin E(n) BY <1>3
  <2>3. Cardinality(E(n) \cup {n + 1}) = Cardinality(E(n)) + 1
    <3> HIDE DEF E
    <3> QED BY <1>3, <2>2, FS_AddElement
  <2> HIDE DEF E
  <2> QED BY <1>1, <1>4, <1>5, <1>6, <2>1, <2>3 DEF Counts
<1>7. CASE ~Counts(n + 1) /\ Resets(n + 1)
  <2>1. E(n + 1) = {}
    <3>1. \A i \in 1..n : n + 1 \in (i + 1)..(n + 1) OBVIOUS
    <3> QED BY <1>7, <3>1
  <2> HIDE DEF E
  <2> QED BY <1>1, <1>4, <1>5, <1>7, <2>1 DEF Counts, Resets
<1>8. CASE ~Counts(n + 1) /\ ~Resets(n + 1)
  <2>1. E(n + 1) = E(n) BY <1>8
  <2> HIDE DEF E
  <2> QED BY <1>1, <1>4, <1>5, <1>8, <2>1 DEF Counts, Resets
<1> QED BY <1>6, <1>7, <1>8

\* Its keys are those of the path, and its beginnings are where these lead.
LEMMA LiveIs ==
  ASSUME NEW f, Written(f), NEW q \in Paths, NEW n \in Nat
  PROVE  /\ Live(f, q, n) \in Locs /\ Len(Live(f, q, n)) = Len(q)
         /\ \A m \in 1..Len(q) :
              Live(f, q, n)[m] = Seg(q[m], Position(f, SubSeq(q, 1, m), n))
         /\ \A m \in 0..Len(q) : SubSeq(Live(f, q, n), 1, m) = Live(f, SubSeq(q, 1, m), n)
<1> DEFINE live(r) == Live(f, r, n)
<1>0. Len(q) \in Nat BY LenProperties DEF Paths
<1>1. ASSUME NEW r \in Paths
      PROVE  /\ live(r) \in Locs /\ Len(live(r)) = Len(r)
             /\ \A m \in 1..Len(r) : live(r)[m] = Seg(r[m], Position(f, SubSeq(r, 1, m), n))
  <2>1. Len(r) \in Nat /\ \A m \in 1..Len(r) : r[m] \in Keys
    BY LenProperties, ElementOfSeq DEF Paths
  <2>2. \A m \in 1..Len(r) : Position(f, SubSeq(r, 1, m), n) \in Nat
    <3> SUFFICES ASSUME NEW m \in 1..Len(r) PROVE Position(f, SubSeq(r, 1, m), n) \in Nat OBVIOUS
    <3>1. SubSeq(r, 1, m) \in Paths BY <2>1, BeginIs DEF Paths
    <3> QED BY <3>1, PositionStep
  <2>3. live(r) = [m \in 1..Len(r) |-> Seg(r[m], Position(f, SubSeq(r, 1, m), n))] BY DEF Live
  <2>4. /\ \A m \in 1..Len(r) : live(r)[m] = Seg(r[m], Position(f, SubSeq(r, 1, m), n))
        /\ live(r) \in [1..Len(r) -> Segments]
    BY <2>1, <2>2, <2>3, SegIs
  <2> HIDE DEF live
  <2>5. live(r) \in Seq(Segments) /\ Len(live(r)) = Len(r) BY <2>1, <2>4
  <2> QED BY <2>4, <2>5 DEF Locs
<1>2. ASSUME NEW m \in 0..Len(q)
      PROVE  SubSeq(live(q), 1, m) = live(SubSeq(q, 1, m))
  <2> DEFINE r == SubSeq(q, 1, m)
             s == SubSeq(live(q), 1, m)
  <2>1. /\ r \in Paths /\ Len(r) = m /\ \A i \in 1..m : r[i] = q[i]
        /\ \A i \in 0..m : SubSeq(r, 1, i) = SubSeq(q, 1, i)
    BY BeginIs DEF Paths
  <2>2. s \in Locs /\ Len(s) = m /\ \A i \in 1..m : s[i] = live(q)[i]
    <3>1. live(q) \in Seq(Segments) /\ m \in 0..Len(live(q)) BY <1>1 DEF Locs
    <3> HIDE DEF live
    <3> QED BY <3>1, BeginIs DEF Locs
  <2>3. /\ live(r) \in Locs /\ Len(live(r)) = m
        /\ \A i \in 1..m : live(r)[i] = Seg(r[i], Position(f, SubSeq(r, 1, i), n))
    <3> HIDE DEF live, r
    <3> QED BY <1>1, <2>1
  <2>4. \A i \in 1..m : live(q)[i] = Seg(q[i], Position(f, SubSeq(q, 1, i), n)) BY <1>0, <1>1
  <2> HIDE DEF live, r, s
  <2>5. \A i \in 1..m : s[i] = live(r)[i]
    <3> SUFFICES ASSUME NEW i \in 1..m PROVE s[i] = live(r)[i] OBVIOUS
    <3>1. i \in 1..Len(q) /\ i \in 0..m BY <1>0
    <3>2. SubSeq(r, 1, i) = SubSeq(q, 1, i) /\ r[i] = q[i] BY <2>1, <3>1
    <3>3. s[i] = Seg(q[i], Position(f, SubSeq(q, 1, i), n)) BY <2>2, <2>4, <3>1
    <3>4. live(r)[i] = Seg(r[i], Position(f, SubSeq(r, 1, i), n)) BY <2>3
    <3> QED BY <3>2, <3>3, <3>4
  <2>6. s = live(r) BY <2>2, <2>3, <2>5, SeqEqual DEF Locs
  <2> QED BY <2>6 DEF r, s
<1> QED BY <1>1, <1>2

\* Paths that lead to the same place are the same.
LEMMA LiveSame ==
  ASSUME NEW f, Written(f), NEW q \in Paths, NEW r \in Paths, NEW n \in Nat, NEW m \in Nat,
         Live(f, q, n) = Live(f, r, m)
  PROVE  q = r
<1>1. /\ Len(q) = Len(r)
      /\ \A i \in 1..Len(q) : Live(f, q, n)[i] = Seg(q[i], Position(f, SubSeq(q, 1, i), n))
      /\ \A i \in 1..Len(r) : Live(f, r, m)[i] = Seg(r[i], Position(f, SubSeq(r, 1, i), m))
  <2>1. /\ Len(Live(f, q, n)) = Len(q)
        /\ \A i \in 1..Len(q) : Live(f, q, n)[i] = Seg(q[i], Position(f, SubSeq(q, 1, i), n))
    BY LiveIs
  <2>2. /\ Len(Live(f, r, m)) = Len(r)
        /\ \A i \in 1..Len(r) : Live(f, r, m)[i] = Seg(r[i], Position(f, SubSeq(r, 1, i), m))
    BY LiveIs
  <2> QED BY <2>1, <2>2
<1>2. \A i \in 1..Len(q) : q[i] = r[i]
  <2> SUFFICES ASSUME NEW i \in 1..Len(q) PROVE q[i] = r[i] OBVIOUS
  <2>1. Seg(q[i], Position(f, SubSeq(q, 1, i), n)) = Seg(r[i], Position(f, SubSeq(r, 1, i), m))
    BY <1>1
  <2>2. \A key, num : Seg(key, num)[1] = key BY SegIs
  <2> HIDE DEF Seg
  <2> QED BY <2>1, <2>2
<1> QED BY <1>1, <1>2, SeqEqual DEF Paths

\* One segment more.
LEMMA LiveThen ==
  ASSUME NEW f, Written(f), NEW q \in Paths, NEW key \in Keys, NEW n \in Nat
  PROVE  /\ Then(q, key) \in Paths /\ Len(Then(q, key)) = Len(q) + 1
         /\ Live(f, Then(q, key), n) =
              Then(Live(f, q, n), Seg(key, Position(f, Then(q, key), n)))
<1> DEFINE r == Then(q, key)
           x == Position(f, r, n)
           a == Then(Live(f, q, n), Seg(key, x))
<1>1. /\ r \in Paths /\ Len(r) = Len(q) + 1 /\ Len(q) \in Nat
      /\ \A i \in 1..Len(q) : r[i] = q[i]
      /\ r[Len(q) + 1] = key
  BY ThenIs DEF Paths
<1> HIDE DEF r
<1>2. x \in Nat BY <1>1, PositionStep
<1>3. SubSeq(r, 1, Len(q) + 1) = r BY <1>1, SubSeqFull DEF Paths
<1>4. \A i \in 1..Len(q) : SubSeq(r, 1, i) = SubSeq(q, 1, i)
  <2>1. SubSeq(r, 1, Len(q)) = q
    <3>1. /\ SubSeq(r, 1, Len(q)) \in Seq(Keys) /\ Len(SubSeq(r, 1, Len(q))) = Len(q)
          /\ \A i \in 1..Len(q) : SubSeq(r, 1, Len(q))[i] = r[i]
      BY <1>1, BeginIs DEF Paths
    <3> QED BY <1>1, <3>1, SeqEqual DEF Paths
  <2>2. \A i \in 0..Len(q) : SubSeq(SubSeq(r, 1, Len(q)), 1, i) = SubSeq(r, 1, i)
    BY <1>1, BeginIs DEF Paths
  <2> QED BY <1>1, <2>1, <2>2
<1>5. /\ Live(f, q, n) \in Locs /\ Len(Live(f, q, n)) = Len(q)
      /\ \A m \in 1..Len(q) : Live(f, q, n)[m] = Seg(q[m], Position(f, SubSeq(q, 1, m), n))
  BY LiveIs
<1>6. /\ Live(f, r, n) \in Locs /\ Len(Live(f, r, n)) = Len(r)
      /\ \A m \in 1..Len(r) : Live(f, r, n)[m] = Seg(r[m], Position(f, SubSeq(r, 1, m), n))
  BY <1>1, LiveIs
<1>7. Seg(key, x) \in Segments BY <1>2, SegIs
<1> HIDE DEF x
<1>8. /\ a \in Locs /\ Len(a) = Len(q) + 1 /\ a[Len(q) + 1] = Seg(key, x)
      /\ \A i \in 1..Len(q) : a[i] = Live(f, q, n)[i]
  <2>1. Live(f, q, n) \in Seq(Segments) BY <1>5 DEF Locs
  <2>2. /\ a \in Seq(Segments) /\ Len(a) = Len(Live(f, q, n)) + 1
        /\ \A i \in 1..Len(Live(f, q, n)) : a[i] = Live(f, q, n)[i]
        /\ a[Len(Live(f, q, n)) + 1] = Seg(key, x)
    BY <1>7, <2>1, ThenIs
  <2> HIDE DEF a
  <2> QED BY <1>5, <2>2 DEF Locs
<1> HIDE DEF a
<1>9. ASSUME NEW i \in 1..Len(a)
      PROVE  a[i] = Live(f, r, n)[i]
  <2>1. CASE i \in 1..Len(q)
    <3>1. Live(f, r, n)[i] = Seg(q[i], Position(f, SubSeq(q, 1, i), n))
      <4>1. Live(f, r, n)[i] = Seg(r[i], Position(f, SubSeq(r, 1, i), n)) BY <1>1, <1>6, <2>1
      <4>2. r[i] = q[i] /\ SubSeq(r, 1, i) = SubSeq(q, 1, i) BY <1>1, <1>4, <2>1
      <4> QED BY <4>1, <4>2
    <3> QED BY <1>5, <1>8, <2>1, <3>1
  <2>2. CASE i = Len(q) + 1 BY <1>1, <1>3, <1>6, <1>8, <2>2 DEF x
  <2> QED BY <1>1, <1>8, <1>9, <2>1, <2>2
<1>10. a = Live(f, r, n) BY <1>1, <1>6, <1>8, <1>9, SeqEqual DEF Locs
<1> QED BY <1>1, <1>10 DEF a, r, x

\* A line that begins no element of an array that the path goes through changes
\* nothing of where it leads.
LEMMA LiveUnmoved ==
  ASSUME NEW f, Written(f), NEW q \in Paths, NEW n \in Nat, n + 1 \in DOMAIN f,
         f[n + 1].kind # "tables" \/ ~IsPrefix(f[n + 1].path, q)
  PROVE  Live(f, q, n + 1) = Live(f, q, n)
<1>1. Len(q) \in Nat BY LenProperties DEF Paths
<1>2. ASSUME NEW m \in 1..Len(q)
      PROVE  Position(f, SubSeq(q, 1, m), n + 1) = Position(f, SubSeq(q, 1, m), n)
  <2> DEFINE r == SubSeq(q, 1, m)
             p == f[n + 1].path
  <2>1. r \in Paths /\ Len(r) = m /\ \A i \in 1..m : r[i] = q[i] BY <1>1, BeginIs DEF Paths
  <2> HIDE DEF r
  <2>2. ASSUME f[n + 1].kind = "tables"
        PROVE  ~IsPrefix(p, r)
    <3>1. p \in Paths BY <2>2 DEF Written, Paths
    <3> HIDE DEF p
    <3>2. Len(p) \in Nat BY <3>1, LenProperties DEF Paths
    <3>3. IsPrefix(p, q) <=> Len(p) <= Len(q) /\ \A i \in 1..Len(p) : p[i] = q[i] BY <3>1, PrefixIs
    <3>4. IsPrefix(p, r) <=> Len(p) <= Len(r) /\ \A i \in 1..Len(p) : p[i] = r[i]
      BY <2>1, <3>1, PrefixIs
    <3>5. ~IsPrefix(p, q) BY <2>2 DEF p
    <3> QED BY <1>1, <2>1, <3>2, <3>3, <3>4, <3>5
  <2>3. IsPrefix(r, r) BY <2>1, PrefixIs
  <2>4. Position(f, r, n + 1) = Position(f, r, n)
    BY ZenonT(40), <2>1, <2>2, <2>3, PositionStep DEF IsStrictPrefix
  <2> QED BY <2>4 DEF r
<1> QED BY <1>2 DEF Live

\* A sequence is its front and its last element.
LEMMA FrontIs ==
  ASSUME NEW S, NEW q \in Seq(S), q # << >>
  PROVE  /\ Front(q) \in Seq(S) /\ Last(q) \in S /\ q = Then(Front(q), Last(q))
         /\ Len(q) \in Nat \ {0} /\ Len(Front(q)) = Len(q) - 1
<1> DEFINE r == SubSeq(q, 1, Len(q) - 1)
           e == q[Len(q)]
           a == Then(r, e)
<1>1. Len(q) \in Nat \ {0} /\ q[Len(q)] \in S /\ e \in S
  <2>1. Len(q) \in Nat \ {0} BY EmptySeq
  <2> QED BY <2>1, ElementOfSeq
<1>2. r \in Seq(S) /\ Len(r) = Len(q) - 1 /\ \A i \in 1..(Len(q) - 1) : r[i] = q[i]
  <2>1. Len(q) - 1 \in 0..Len(q) BY <1>1
  <2> QED BY <2>1, BeginIs
<1> HIDE DEF r, e
<1>3. /\ a \in Seq(S) /\ Len(a) = Len(r) + 1 /\ a[Len(r) + 1] = e
      /\ \A i \in 1..Len(r) : a[i] = r[i]
  <2>1. ASSUME NEW u \in Seq(S), NEW x \in S
        PROVE  /\ Then(u, x) \in Seq(S) /\ Len(Then(u, x)) = Len(u) + 1 /\ Then(u, x)[Len(u) + 1] = x
               /\ \A i \in 1..Len(u) : Then(u, x)[i] = u[i]
    BY ThenIs
  <2> QED BY <1>1, <1>2, <2>1
<1> HIDE DEF a
<1>4. a = q BY <1>1, <1>2, <1>3, SeqEqual DEF e
<1> QED BY <1>1, <1>2, <1>4 DEF a, r, e, Front, Last

\* Each beginning is the one before it and an element more.
LEMMA BeginThen ==
  ASSUME NEW S, NEW q \in Seq(S), NEW m \in 1..Len(q)
  PROVE  SubSeq(q, 1, m) = Then(SubSeq(q, 1, m - 1), q[m])
<1> DEFINE r == SubSeq(q, 1, m)
<1>0. Len(q) \in Nat BY LenProperties
<1>1. /\ r \in Seq(S) /\ Len(r) = m /\ r[m] = q[m]
      /\ SubSeq(r, 1, m - 1) = SubSeq(q, 1, m - 1)
  BY <1>0, BeginIs
<1> HIDE DEF r
<1>2. r # << >> BY <1>1, EmptySeq
<1>3. r = Then(Front(r), Last(r)) BY <1>1, <1>2, FrontIs
<1> QED BY <1>1, <1>3 DEF r, Front, Last

\* [[p]] opens the next element of p: whatever goes through it leads there.
LEMMA LiveMoved ==
  ASSUME NEW f, Written(f), NEW q \in Paths, NEW n \in Nat, n + 1 \in DOMAIN f,
         f[n + 1].kind = "tables", IsPrefix(f[n + 1].path, q)
  PROVE  LET p == f[n + 1].path
             l == Then(Live(f, Front(p), n), Seg(Last(p), Position(f, p, n) + 1))
         IN  SubSeq(Live(f, q, n + 1), 1, Len(p)) = l /\ Live(f, p, n + 1) = l
<1> DEFINE p == f[n + 1].path
<1>1. p \in Paths /\ p # << >> /\ IsPrefix(p, q) BY DEF Written, Paths
<1> HIDE DEF p
<1>2. /\ Front(p) \in Paths /\ Last(p) \in Keys /\ p = Then(Front(p), Last(p))
      /\ Len(p) \in Nat \ {0} /\ Len(Front(p)) = Len(p) - 1
  BY <1>1, FrontIs DEF Paths
<1>3. Len(q) \in Nat /\ Len(p) \in 0..Len(q) /\ \A i \in 1..Len(p) : p[i] = q[i]
  BY <1>1, <1>2, PrefixIs, LenProperties DEF Paths
<1>4. SubSeq(q, 1, Len(p)) = p
  <2>1. /\ SubSeq(q, 1, Len(p)) \in Seq(Keys) /\ Len(SubSeq(q, 1, Len(p))) = Len(p)
        /\ \A i \in 1..Len(p) : SubSeq(q, 1, Len(p))[i] = q[i]
    BY <1>3, BeginIs DEF Paths
  <2> QED BY <1>1, <1>3, <2>1, SeqEqual DEF Paths
<1>5. SubSeq(Live(f, q, n + 1), 1, Len(p)) = Live(f, p, n + 1)
  <2>1. ASSUME NEW k \in Nat
        PROVE  \A m \in 0..Len(q) : SubSeq(Live(f, q, k), 1, m) = Live(f, SubSeq(q, 1, m), k)
    BY LiveIs
  <2>2. SubSeq(Live(f, q, n + 1), 1, Len(p)) = Live(f, SubSeq(q, 1, Len(p)), n + 1) BY <1>3, <2>1
  <2> QED BY <1>4, <2>2
<1>6. Live(f, p, n + 1) =
        Then(Live(f, Front(p), n + 1), Seg(Last(p), Position(f, p, n + 1)))
  <2>1. ASSUME NEW r \in Paths, NEW key \in Keys
        PROVE  Live(f, Then(r, key), n + 1) =
                 Then(Live(f, r, n + 1), Seg(key, Position(f, Then(r, key), n + 1)))
    BY LiveThen
  <2> QED BY <1>2, <2>1
<1>7. Live(f, Front(p), n + 1) = Live(f, Front(p), n)
  <2>1. ~IsPrefix(p, Front(p)) BY <1>1, <1>2, PrefixIs
  <2> QED BY <1>2, <2>1, LiveUnmoved DEF p
<1>8. Position(f, p, n + 1) = Position(f, p, n) + 1 BY <1>1, PositionStep DEF p
<1> QED BY <1>5, <1>6, <1>7, <1>8 DEF p

-----------------------------------------------------------------------------
(***************************************************************************)
(* The tables.                                                             *)
(***************************************************************************)

\* A header, and where its path leads.
LEMMA LocationIs ==
  ASSUME NEW f, Written(f), NEW n \in 0..Len(f), NEW j \in HeaderLines(f, n)
  PROVE  /\ f[j].path \in Paths /\ f[j].path # << >> /\ Len(f[j].path) \in Nat \ {0}
         /\ DOMAIN f[j].path = 1..Len(f[j].path) /\ j \in Nat \ {0}
         /\ Location(f, j) = Live(f, f[j].path, j)
<1>1. j \in 1..Len(f) /\ DOMAIN f = 1..Len(f) BY LenProperties DEF Written, HeaderLines
<1>2. f[j].path \in Paths /\ f[j].path # << >> BY <1>1 DEF Written, HeaderLines, Paths
<1>3. Len(f[j].path) \in Nat \ {0} /\ DOMAIN f[j].path = 1..Len(f[j].path)
  BY <1>2, EmptySeq, LenProperties DEF Paths
<1> QED BY <1>1, <1>2, <1>3 DEF Location, Live, Seg

\* The locations are where the beginnings of the paths lead.
LEMMA LocationsAre ==
  ASSUME NEW f, Written(f), NEW n \in 0..Len(f)
  PROVE  /\ \A l : l \in Locations(f, n) <=>
              \/ l = Root
              \/ \E j \in HeaderLines(f, n) : \E m \in 1..Len(f[j].path) :
                   l = Live(f, SubSeq(f[j].path, 1, m), j)
         /\ IsTree(Locations(f, n))
<1> DEFINE locs == Locations(f, n)
<1>1. ASSUME NEW j \in HeaderLines(f, n), NEW m \in 0..Len(f[j].path)
      PROVE  /\ SubSeq(Location(f, j), 1, m) = Live(f, SubSeq(f[j].path, 1, m), j)
             /\ SubSeq(f[j].path, 1, m) \in Paths /\ Len(SubSeq(f[j].path, 1, m)) = m
             /\ Live(f, SubSeq(f[j].path, 1, m), j) \in Locs
             /\ Len(Live(f, SubSeq(f[j].path, 1, m), j)) = m
             /\ \A i \in 0..m : SubSeq(Live(f, SubSeq(f[j].path, 1, m), j), 1, i) =
                                   Live(f, SubSeq(f[j].path, 1, i), j)
  <2> DEFINE p == f[j].path
             b == SubSeq(p, 1, m)
  <2>1. p \in Paths /\ j \in Nat /\ Location(f, j) = Live(f, p, j) BY LocationIs
  <2> HIDE DEF p
  <2>2. m \in 0..Len(p) BY DEF p
  <2>3. b \in Paths /\ Len(b) = m /\ \A i \in 0..m : SubSeq(b, 1, i) = SubSeq(p, 1, i)
    BY <2>1, <2>2, BeginIs DEF Paths
  <2>4. SubSeq(Live(f, p, j), 1, m) = Live(f, b, j) BY <2>1, <2>2, LiveIs
  <2> HIDE DEF b
  <2>5. /\ Live(f, b, j) \in Locs /\ Len(Live(f, b, j)) = m
        /\ \A i \in 0..m : SubSeq(Live(f, b, j), 1, i) = Live(f, SubSeq(b, 1, i), j)
    BY <2>1, <2>3, LiveIs
  <2> QED BY <2>1, <2>3, <2>4, <2>5 DEF b, p
<1>2. ASSUME NEW l
      PROVE  l \in locs <=>
              \/ l = Root
              \/ \E j \in HeaderLines(f, n) : \E m \in 1..Len(f[j].path) :
                   l = Live(f, SubSeq(f[j].path, 1, m), j)
  <2>1. l \in locs <=>
              \/ l = Root
              \/ \E j \in HeaderLines(f, n) : \E m \in DOMAIN f[j].path :
                   l = SubSeq(Location(f, j), 1, m)
    <3> DEFINE BeginsAt(j) == {SubSeq(Location(f, j), 1, m) : m \in DOMAIN f[j].path}
    <3>1. locs = {Root} \cup UNION {BeginsAt(j) : j \in HeaderLines(f, n)} BY Zenon DEF Locations
    <3>2. \A j : l \in BeginsAt(j) <=> \E m \in DOMAIN f[j].path : l = SubSeq(Location(f, j), 1, m)
      OBVIOUS
    <3> HIDE DEF locs, BeginsAt
    <3>3. l \in locs <=> l = Root \/ \E j \in HeaderLines(f, n) : l \in BeginsAt(j) BY <3>1
    <3> QED BY <3>2, <3>3
  <2>2. ASSUME NEW j \in HeaderLines(f, n)
        PROVE  /\ DOMAIN f[j].path = 1..Len(f[j].path) /\ Len(f[j].path) \in Nat
               /\ \A m \in 1..Len(f[j].path) :
                    SubSeq(Location(f, j), 1, m) = Live(f, SubSeq(f[j].path, 1, m), j)
    BY <1>1, LocationIs
  <2> QED BY <2>1, <2>2
<1>3. IsTree(locs)
  <2> HIDE DEF locs
  <2>1. Root \in locs BY <1>2
  <2>2. ASSUME NEW l \in locs
        PROVE  l \in Locs /\ \A m \in 0..Len(l) : SubSeq(l, 1, m) \in locs
    <3>1. CASE l = Root
      <4>1. Root \in Locs /\ Len(Root) = 0 BY EmptySeq DEF Root, Locs
      <4>2. SubSeq(Root, 1, 0) = Root BY SubSeqEmpty DEF Root
      <4>3. \A m \in 0..Len(Root) : m = 0 BY <4>1
      <4> QED BY <2>1, <3>1, <4>1, <4>2, <4>3
    <3>2. CASE l # Root
      <4>0. PICK j \in HeaderLines(f, n) : \E m \in 1..Len(f[j].path) :
                   l = Live(f, SubSeq(f[j].path, 1, m), j)
        BY <1>2, <3>2
      <4>1. PICK m \in 1..Len(f[j].path) : l = Live(f, SubSeq(f[j].path, 1, m), j) BY <4>0
      <4>2. Len(f[j].path) \in Nat BY LocationIs
      <4>3. /\ Live(f, SubSeq(f[j].path, 1, m), j) \in Locs
            /\ Len(Live(f, SubSeq(f[j].path, 1, m), j)) = m
            /\ \A i \in 0..m : SubSeq(Live(f, SubSeq(f[j].path, 1, m), j), 1, i) =
                                   Live(f, SubSeq(f[j].path, 1, i), j)
        BY <1>1, <4>2
      <4>4. ASSUME NEW i \in 0..m
            PROVE  SubSeq(l, 1, i) \in locs
        <5>1. CASE i = 0
          <6>1. SubSeq(l, 1, 0) = Root BY SubSeqEmpty DEF Root
          <6> QED BY <2>1, <5>1, <6>1
        <5>2. CASE i # 0
          <6>1. i \in 1..Len(f[j].path) /\ SubSeq(l, 1, i) = Live(f, SubSeq(f[j].path, 1, i), j)
            BY <4>1, <4>2, <4>3, <5>2
          <6> QED BY <1>2, <6>1
        <5> QED BY <5>1, <5>2
      <4> QED BY <4>1, <4>3, <4>4
    <3> QED BY <3>1, <3>2
  <2> QED BY <2>1, <2>2 DEF IsTree
<1> QED BY <1>2, <1>3

\* The tables next below one.
LEMMA BelowIs ==
  ASSUME NEW locs, IsTree(locs), NEW t \in Locs
  PROVE  Below(locs, t) = {x \in Segments : Then(t, x) \in locs}
<1>1. ASSUME NEW l \in locs, l # Root, Front(l) = t
      PROVE  Last(l) \in Segments /\ l = Then(t, Last(l))
  <2>1. l \in Seq(Segments) /\ l # << >> BY <1>1 DEF IsTree, Locs, Root
  <2> QED BY <1>1, <2>1, FrontIs
<1>2. ASSUME NEW x \in Segments
      PROVE  /\ Then(t, x) # Root /\ Front(Then(t, x)) = t /\ Last(Then(t, x)) = x
  BY ThenIs DEF Locs, Root
<1> QED BY <1>1, <1>2 DEF Below

\* The tables that stand at a key.
LEMMA PositionsAre ==
  ASSUME NEW locs, IsTree(locs), NEW t \in Locs, NEW key \in Keys
  PROVE  /\ \A y : y \in Positions(locs, t, key) <=> y \in Nat /\ Then(t, Seg(key, y)) \in locs
         /\ key \in {x[1] : x \in Below(locs, t)} <=> Positions(locs, t, key) # {}
<1>1. Below(locs, t) = {x \in Segments : Then(t, x) \in locs} BY BelowIs
<1>2. ASSUME NEW y
      PROVE  y \in Positions(locs, t, key) <=> y \in Nat /\ Then(t, Seg(key, y)) \in locs
  <2>1. y \in Positions(locs, t, key) <=> \E x \in Segments : Then(t, x) \in locs /\ x[1] = key /\ x[2] = y
    BY <1>1 DEF Positions
  <2>2. \A x \in Segments : x = Seg(x[1], x[2]) /\ x[2] \in Nat BY SegIs
  <2>3. y \in Nat => Seg(key, y) \in Segments /\ Seg(key, y)[1] = key /\ Seg(key, y)[2] = y BY SegIs
  <2> QED BY <2>1, <2>2, <2>3
<1> QED BY <1>1, <1>2 DEF Positions

\* A table that is added.
LEMMA TreeMake ==
  ASSUME NEW locs, IsTree(locs), NEW values, Placed(values, locs),
         NEW t \in locs, NEW key \in Keys, NEW num \in Nat, NEW new, NEW value,
         << t, key >> \notin DOMAIN values, new = Then(t, Seg(key, num)), new \notin locs,
         value = Stands(Positions(locs, t, key) \cup {num})
  PROVE  /\ IsTree(locs \cup {new})
         /\ Tree(locs \cup {new}, values) = Grown(locs, Tree(locs, values), t, key, value, new)
<1> DEFINE all == locs \cup {new}
           d   == Tree(locs, values)
           ps  == Positions(locs, t, key) \cup {num}
           made == [l \in all |-> IF l = new THEN << >>
                     ELSE IF l = t THEN [k \in DOMAIN d[t] \cup {key} |-> IF k = key THEN value ELSE d[t][k]]
                     ELSE d[l]]
<1>v. value = IF ps = {0} THEN Table ELSE Tables(Max(ps)) BY DEF Stands
<1>0. Seg(key, num) \in Segments /\ t \in Locs BY SegIs DEF IsTree
<1>1. /\ new \in Locs /\ Len(new) = Len(t) + 1 /\ Len(t) \in Nat
      /\ \A i \in 0..Len(t) : SubSeq(new, 1, i) = SubSeq(t, 1, i)
      /\ SubSeq(new, 1, Len(t) + 1) = new
      /\ \A l \in Locs : \A x \in Segments : Then(l, x) = new <=> l = t /\ x = Seg(key, num)
  <2>1. /\ new \in Seq(Segments) /\ Len(new) = Len(t) + 1 /\ Len(t) \in Nat
        /\ SubSeq(new, 1, Len(t)) = t
    BY <1>0, LocThen DEF Locs
  <2>2. \A l \in Locs : \A x \in Segments : Then(l, x) = new <=> l = t /\ x = Seg(key, num)
    <3>1. ASSUME NEW e \in Segments, NEW l \in Locs, NEW x \in Segments
          PROVE  Then(l, x) = Then(t, e) <=> l = t /\ x = e
      BY <1>0, LocSame
    <3> QED BY <1>0, <3>1
  <2>3. SubSeq(new, 1, Len(new)) = new BY <2>1, SubSeqFull
  <2>4. \A i \in 0..Len(t) : SubSeq(SubSeq(new, 1, Len(t)), 1, i) = SubSeq(new, 1, i)
    <3>1. Len(t) \in 0..Len(new) BY <2>1
    <3> QED BY <2>1, <3>1, BeginIs
  <2> QED BY <2>1, <2>2, <2>3, <2>4 DEF Locs
<1>2. IsTree(all)
  <2>1. ASSUME NEW m \in 0..Len(new)
        PROVE  SubSeq(new, 1, m) \in all
    <3>1. CASE m = Len(t) + 1 BY <1>1, <3>1
    <3>2. CASE m \in 0..Len(t) BY <1>1, <3>2 DEF IsTree
    <3> QED BY <1>1, <3>1, <3>2
  <2> QED BY <1>1, <2>1 DEF IsTree
<1>3. /\ \A l \in locs \ {t} : Below(all, l) = Below(locs, l)
      /\ Below(all, t) = Below(locs, t) \cup {Seg(key, num)}
      /\ Below(all, new) = {}
  <2>1. \A l \in Locs : /\ Below(all, l) = {x \in Segments : Then(l, x) \in all}
                        /\ Below(locs, l) = {x \in Segments : Then(l, x) \in locs}
    <3> SUFFICES ASSUME NEW l \in Locs
                 PROVE  /\ Below(all, l) = {x \in Segments : Then(l, x) \in all}
                        /\ Below(locs, l) = {x \in Segments : Then(l, x) \in locs}
      OBVIOUS
    <3> HIDE DEF all
    <3> QED BY <1>2, BelowIs
  <2>2. \A x \in Segments : Then(new, x) \notin all
    <3> SUFFICES ASSUME NEW x \in Segments, Then(new, x) \in all PROVE FALSE OBVIOUS
    <3>1. /\ Len(Then(new, x)) = Len(new) + 1 /\ SubSeq(Then(new, x), 1, Len(new)) = new
      BY <1>1, LocThen
    <3>2. Then(new, x) \in locs BY <1>1, <3>1
    <3>3. SubSeq(Then(new, x), 1, Len(new)) \in locs
      <4>1. Len(new) \in 0..Len(Then(new, x)) BY <1>1, <3>1
      <4> QED BY <3>2, <4>1 DEF IsTree
    <3> QED BY <3>1, <3>3
  <2>3. locs \subseteq Locs BY DEF IsTree
  <2>4. ASSUME NEW l \in locs, NEW x \in Segments
        PROVE  Then(l, x) \in all <=> Then(l, x) \in locs \/ (l = t /\ x = Seg(key, num))
    BY <1>1, <2>3
  <2> HIDE DEF all
  <2>5. /\ \A l \in locs \ {t} : Below(all, l) = Below(locs, l)
        /\ Below(all, t) = Below(locs, t) \cup {Seg(key, num)}
    BY <1>0, <2>1, <2>3, <2>4
  <2>6. Below(all, new) = {} BY <1>1, <2>1, <2>2
  <2> QED BY <2>5, <2>6
<1> HIDE DEF all, d, made
<1>4. ASSUME NEW k, k # key
      PROVE  Positions(all, t, k) = Positions(locs, t, k)
  <2>1. {x \in Below(all, t) : x[1] = k} = {x \in Below(locs, t) : x[1] = k}
    <3>1. Seg(key, num)[1] = key BY SegIs
    <3> QED BY <1>3, <1>4, <3>1
  <2> QED BY <2>1 DEF Positions
<1>5. Positions(all, t, key) = ps
  <2>1. {x \in Below(all, t) : x[1] = key} = {x \in Below(locs, t) : x[1] = key} \cup {Seg(key, num)}
    <3>1. Seg(key, num)[1] = key BY SegIs
    <3> QED BY <1>3, <3>1
  <2>2. Seg(key, num)[2] = num BY SegIs
  <2> QED BY <2>1, <2>2 DEF Positions
<1>6. \A l \in locs \ {t} : /\ KeysOf(all, values, l) = KeysOf(locs, values, l)
                            /\ \A k : Positions(all, l, k) = Positions(locs, l, k)
  BY <1>3 DEF KeysOf, Positions
<1>7. KeysOf(all, values, t) = KeysOf(locs, values, t) \cup {key}
  <2>1. {x[1] : x \in Below(all, t)} = {x[1] : x \in Below(locs, t)} \cup {key}
    <3>1. Seg(key, num)[1] = key BY SegIs
    <3> QED BY <1>3, <3>1
  <2> QED BY <2>1 DEF KeysOf
<1>8. new \notin locs OBVIOUS
<1>9. KeysOf(all, values, new) = {} BY <1>3, <1>8 DEF KeysOf, Placed
<1> DEFINE cell(ls, l, k) == IF << l, k >> \in DOMAIN values THEN values[<< l, k >>]
                             ELSE IF Positions(ls, l, k) = {0} THEN Table
                             ELSE Tables(Max(Positions(ls, l, k)))
<1>10. \A ls : Tree(ls, values) = [l \in ls |-> [k \in KeysOf(ls, values, l) |-> cell(ls, l, k)]]
  BY DEF Tree
<1>11. \A l \in locs \ {t} : \A k : cell(all, l, k) = cell(locs, l, k) BY <1>6
<1>12. \A k : k # key => cell(all, t, k) = cell(locs, t, k)
  <2> SUFFICES ASSUME NEW k, k # key PROVE cell(all, t, k) = cell(locs, t, k) OBVIOUS
  <2>1. Positions(all, t, k) = Positions(locs, t, k) BY <1>4
  <2> QED BY <2>1, Zenon
<1>13. cell(all, t, key) = value BY <1>5, <1>v
<1> HIDE DEF cell, ps
<1>14. ASSUME NEW l \in all
       PROVE  Tree(all, values)[l] = made[l]
  <2>1. Tree(all, values)[l] = [k \in KeysOf(all, values, l) |-> cell(all, l, k)] BY <1>10
  <2>2. CASE l = new
    <3>1. made[l] = << >> BY <2>2 DEF made
    <3>2. [k \in KeysOf(all, values, l) |-> cell(all, l, k)] = << >> BY <1>9, <2>2
    <3> QED BY <2>1, <3>1, <3>2
  <2>3. CASE l = t
    <3>1. d[t] = [k \in KeysOf(locs, values, t) |-> cell(locs, t, k)] BY <1>10 DEF d
    <3>2. made[l] = [k \in DOMAIN d[t] \cup {key} |-> IF k = key THEN value ELSE d[t][k]]
      BY <1>8, <2>3 DEF made
    <3>3. /\ DOMAIN d[t] = KeysOf(locs, values, t)
          /\ \A k \in KeysOf(locs, values, t) : d[t][k] = cell(locs, t, k)
      BY <3>1
    <3>4. [k \in KeysOf(all, values, t) |-> cell(all, t, k)] =
            [k \in DOMAIN d[t] \cup {key} |-> IF k = key THEN value ELSE d[t][k]]
      BY <1>7, <1>12, <1>13, <3>3
    <3> QED BY <2>1, <2>3, <3>2, <3>4
  <2>4. CASE l \in locs \ {t}
    <3>1. d[l] = [k \in KeysOf(locs, values, l) |-> cell(locs, l, k)] BY <1>10, <2>4 DEF d
    <3>2. made[l] = d[l] BY <1>8, <1>14, <2>4 DEF made
    <3> QED BY <1>6, <1>11, <2>1, <2>4, <3>1, <3>2
  <2> QED BY <1>14, <2>2, <2>3, <2>4 DEF all
<1>15. Tree(all, values) = made
  <2>1. Tree(all, values) = [l \in all |-> Tree(all, values)[l]] BY <1>10
  <2>2. made = [l \in all |-> made[l]] BY DEF made
  <2> QED BY <1>14, <2>1, <2>2
<1> QED BY <1>2, <1>15 DEF all, made, d, Grown

\* A value that is added.
LEMMA TreePut ==
  ASSUME NEW locs, NEW values, NEW t \in locs, NEW key,
         << t, key >> \notin DOMAIN values, Positions(locs, t, key) = {}, NEW value
  PROVE  Tree(locs, Added(values, << t, key >>, value)) = Filled(locs, Tree(locs, values), t, key, value)
<1> DEFINE more == [p \in DOMAIN values \cup {<< t, key >>} |->
                      IF p = << t, key >> THEN value ELSE values[p]]
           cell(vs, l, k) == IF << l, k >> \in DOMAIN vs THEN vs[<< l, k >>]
                             ELSE IF Positions(locs, l, k) = {0} THEN Table
                             ELSE Tables(Max(Positions(locs, l, k)))
           d == Tree(locs, values)
<1>1. \A vs : Tree(locs, vs) = [l \in locs |-> [k \in KeysOf(locs, vs, l) |-> cell(vs, l, k)]]
  BY DEF Tree
<1>2. \A l, k : l # t \/ k # key => cell(more, l, k) = cell(values, l, k) OBVIOUS
<1>3. cell(more, t, key) = value OBVIOUS
<1>4. /\ KeysOf(locs, more, t) = KeysOf(locs, values, t) \cup {key}
      /\ \A l : l # t => KeysOf(locs, more, l) = KeysOf(locs, values, l)
  <2>1. DOMAIN more = DOMAIN values \cup {<< t, key >>} OBVIOUS
  <2> HIDE DEF more
  <2>2. << t, key >>[1] = t /\ << t, key >>[2] = key OBVIOUS
  <2> QED BY <2>1, <2>2 DEF KeysOf
<1> HIDE DEF more, cell
<1>5. d = [l \in locs |-> [k \in KeysOf(locs, values, l) |-> cell(values, l, k)]] BY <1>1
<1> HIDE DEF d
<1>6. \A l \in locs : DOMAIN d[l] = KeysOf(locs, values, l) /\ \A k \in DOMAIN d[l] : d[l][k] = cell(values, l, k)
  BY <1>5
<1>7. [k \in KeysOf(locs, more, t) |-> cell(more, t, k)] =
        [k \in DOMAIN d[t] \cup {key} |-> IF k = key THEN value ELSE d[t][k]]
  BY <1>2, <1>3, <1>4, <1>6
<1>8. \A l \in locs : l # t => [k \in KeysOf(locs, more, l) |-> cell(more, l, k)] = d[l]
  BY <1>2, <1>4, <1>5
<1>9. Tree(locs, more) =
        [l \in locs |-> IF l = t THEN [k \in DOMAIN d[t] \cup {key} |-> IF k = key THEN value ELSE d[t][k]]
                        ELSE d[l]]
  <2>1. Tree(locs, more) = [l \in locs |-> [k \in KeysOf(locs, more, l) |-> cell(more, l, k)]]
    BY <1>1
  <2> HIDE DEF cell
  <2>2. \A l \in locs : [k \in KeysOf(locs, more, l) |-> cell(more, l, k)] =
          IF l = t THEN [k \in DOMAIN d[t] \cup {key} |-> IF k = key THEN value ELSE d[t][k]] ELSE d[l]
    BY <1>7, <1>8
  <2> DEFINE row(l) == [k \in KeysOf(locs, more, l) |-> cell(more, l, k)]
             old(l) == IF l = t THEN [k \in DOMAIN d[t] \cup {key} |-> IF k = key THEN value ELSE d[t][k]]
                       ELSE d[l]
  <2>3. \A l \in locs : row(l) = old(l) BY <2>2
  <2>4. Tree(locs, more) = [l \in locs |-> row(l)] BY <2>1
  <2> HIDE DEF row, old
  <2>5. Tree(locs, more) = [l \in locs |-> old(l)] BY <2>3, <2>4
  <2> QED BY <2>5 DEF old
<1> QED BY <1>9 DEF d, more, Added, Filled

\* The path of a header, and how far it leads on its line.
LEMMA HeaderIs ==
  ASSUME NEW f, Written(f), NEW n \in Nat, n + 1 \in DOMAIN f, f[n + 1].kind \in {"table", "tables"}
  PROVE  LET p == f[n + 1].path IN
         /\ n \in 0..Len(f) /\ n + 1 \in 0..Len(f)
         /\ p \in Paths /\ p # << >> /\ Len(p) \in Nat \ {0} /\ DOMAIN p = 1..Len(p)
         /\ Front(p) \in Paths /\ Last(p) \in Keys /\ p = Then(Front(p), Last(p))
         /\ HeaderLines(f, n + 1) = HeaderLines(f, n) \cup {n + 1}
         /\ \A l : l \in Locations(f, n + 1) <=>
              l \in Locations(f, n) \/ \E m \in 1..Len(p) : l = Live(f, SubSeq(p, 1, m), n + 1)
<1> DEFINE p == f[n + 1].path
<1>1. n \in 0..Len(f) /\ n + 1 \in 0..Len(f)
  <2>1. DOMAIN f = 1..Len(f) /\ Len(f) \in Nat BY LenProperties DEF Written
  <2> QED BY <2>1
<1>2. /\ p \in Paths /\ p # << >> /\ Len(p) \in Nat \ {0} /\ DOMAIN p = 1..Len(p)
      /\ Front(p) \in Paths /\ Last(p) \in Keys /\ p = Then(Front(p), Last(p))
  <2>1. p \in Seq(Keys) /\ p # << >> BY DEF Written
  <2> HIDE DEF p
  <2> QED BY <2>1, FrontIs, LenProperties DEF Paths
<1>3. HeaderLines(f, n + 1) = HeaderLines(f, n) \cup {n + 1} BY DEF HeaderLines
<1>4. ASSUME NEW l
      PROVE  l \in Locations(f, n + 1) <=>
               l \in Locations(f, n) \/ \E m \in 1..Len(p) : l = Live(f, SubSeq(p, 1, m), n + 1)
  <2>1. l \in Locations(f, n) <=>
              \/ l = Root
              \/ \E j \in HeaderLines(f, n) : \E m \in 1..Len(f[j].path) :
                   l = Live(f, SubSeq(f[j].path, 1, m), j)
    BY <1>1, LocationsAre
  <2>2. l \in Locations(f, n + 1) <=>
              \/ l = Root
              \/ \E j \in HeaderLines(f, n + 1) : \E m \in 1..Len(f[j].path) :
                   l = Live(f, SubSeq(f[j].path, 1, m), j)
    BY <1>1, LocationsAre
  <2> QED BY <1>3, <2>1, <2>2, Zenon
<1> QED BY <1>1, <1>2, <1>3, <1>4

\* The beginning of a path is where it leads.
LEMMA LiveTells ==
  ASSUME NEW f, Written(f), NEW q \in Paths, NEW b \in Paths, NEW n \in Nat, b # << >>,
         NEW key \in Keys, NEW y \in Nat, Then(Live(f, q, n), Seg(key, y)) = Live(f, b, n)
  PROVE  b = Then(q, key) /\ y = Position(f, b, n)
<1>1. Front(b) \in Paths /\ Last(b) \in Keys /\ b = Then(Front(b), Last(b)) BY FrontIs DEF Paths
<1>2. PICK r \in Paths, last \in Keys : b = Then(r, last) BY <1>1
<1>3. Live(f, b, n) = Then(Live(f, r, n), Seg(last, Position(f, b, n)))
  <2>1. Live(f, Then(r, last), n) = Then(Live(f, r, n), Seg(last, Position(f, Then(r, last), n)))
    BY LiveThen
  <2> QED BY <1>2, <2>1
<1>4. Live(f, q, n) \in Locs /\ Live(f, r, n) \in Locs /\ Position(f, b, n) \in Nat
  BY LiveIs, PositionStep
<1>5. Seg(key, y) \in Segments /\ Seg(last, Position(f, b, n)) \in Segments BY <1>4, SegIs
<1>6. Live(f, q, n) = Live(f, r, n) /\ Seg(key, y) = Seg(last, Position(f, b, n))
  <2>1. ASSUME NEW t \in Locs, NEW e \in Segments, NEW u \in Locs, NEW x \in Segments
        PROVE  Then(t, e) = Then(u, x) <=> t = u /\ e = x
    BY LocSame
  <2>2. Then(Live(f, q, n), Seg(key, y)) = Then(Live(f, r, n), Seg(last, Position(f, b, n))) BY <1>3
  <2> QED BY <1>4, <1>5, <2>1, <2>2
<1>7. q = r BY <1>6, LiveSame
<1>8. key = last /\ y = Position(f, b, n)
  <2>1. \A k, u : Seg(k, u)[1] = k /\ Seg(k, u)[2] = u BY SegIs
  <2> QED BY <1>6, <2>1
<1> QED BY <1>2, <1>7, <1>8

\* What a path with one more key begins with.
LEMMA ThenPrefix ==
  ASSUME NEW p \in Paths, NEW q \in Paths, NEW key \in Keys
  PROVE  IsPrefix(p, Then(q, key)) <=> IsPrefix(p, q) \/ p = Then(q, key)
<1> DEFINE r == Then(q, key)
<1>1. /\ r \in Paths /\ Len(r) = Len(q) + 1 /\ Len(q) \in Nat /\ Len(p) \in Nat
      /\ \A i \in 1..Len(q) : r[i] = q[i]
  BY PathThen, LenProperties DEF Paths
<1> HIDE DEF r
<1>2. /\ IsPrefix(p, r) <=> Len(p) <= Len(r) /\ \A i \in 1..Len(p) : p[i] = r[i]
      /\ IsPrefix(p, q) <=> Len(p) <= Len(q) /\ \A i \in 1..Len(p) : p[i] = q[i]
  BY <1>1, PrefixIs
<1>3. ASSUME Len(p) = Len(r), \A i \in 1..Len(p) : p[i] = r[i]
      PROVE  p = r
  BY <1>1, <1>3, SeqEqual DEF Paths
<1>4. CASE Len(p) <= Len(q)
  <2>1. p # r BY <1>1, <1>4
  <2> QED BY <1>1, <1>2, <1>4, <2>1 DEF r
<1>5. CASE ~(Len(p) <= Len(q)) BY <1>1, <1>2, <1>3, <1>5 DEF r
<1> QED BY <1>4, <1>5

-----------------------------------------------------------------------------
(***************************************************************************)
(* Positions of paths and those of the tables.                             *)
(***************************************************************************)

\* Before the first line there is the root, and nothing to be in step with.
LEMMA SyncInit ==
  ASSUME NEW f, Written(f)
  PROVE  Sync(f, 0) /\ Locations(f, 0) = {Root}
<1>1. Locations(f, 0) = {Root}
  <2>1. HeaderLines(f, 0) = {} BY DEF HeaderLines
  <2> QED BY <2>1, Zenon DEF Locations
<1>2. ASSUME NEW q \in Paths, NEW key \in Keys
      PROVE  /\ Position(f, Then(q, key), 0) = 0
             /\ Positions(Locations(f, 0), Live(f, q, 0), key) = {}
  <2>1. Position(f, Then(q, key), 0) = 0 BY LiveThen, PositionStep, 0 \in Nat
  <2>2. Below({Root}, Live(f, q, 0)) = {} BY DEF Below
  <2> QED BY <1>1, <2>1, <2>2 DEF Positions
<1> QED BY <1>1, <1>2 DEF Sync

\* A line that is no header leaves all tables where they are.
LEMMA SyncStays ==
  ASSUME NEW f, Written(f), NEW n \in Nat, n + 1 \in DOMAIN f,
         f[n + 1].kind \notin {"table", "tables"}
  PROVE  /\ Sync(f, n) => Sync(f, n + 1)
         /\ HeaderLines(f, n + 1) = HeaderLines(f, n)
         /\ Locations(f, n + 1) = Locations(f, n)
<1>1. HeaderLines(f, n + 1) = HeaderLines(f, n) BY DEF HeaderLines
<1>2. Locations(f, n + 1) = Locations(f, n) BY <1>1 DEF Locations
<1>3. ASSUME NEW q \in Paths
      PROVE  Live(f, q, n + 1) = Live(f, q, n) /\ Position(f, q, n + 1) = Position(f, q, n)
  BY LiveUnmoved, PositionStep
<1>4. \A q \in Paths, key \in Keys : Then(q, key) \in Paths BY PathThen
<1> QED BY <1>1, <1>2, <1>3, <1>4 DEF Sync

\* A header adds the tables on its way, and no others.
LEMMA PositionsGrow ==
  ASSUME NEW f, Written(f), NEW n \in Nat, n + 1 \in DOMAIN f, f[n + 1].kind \in {"table", "tables"},
         NEW q \in Paths, NEW key \in Keys, Live(f, q, n + 1) = Live(f, q, n)
  PROVE  LET p   == f[n + 1].path
             r   == Then(q, key)
             t   == Live(f, q, n)
         IN  \A y : y \in Positions(Locations(f, n + 1), t, key) <=>
               \/ y \in Positions(Locations(f, n), t, key)
               \/ y = Position(f, r, n + 1) /\ \E m \in 1..Len(p) : r = SubSeq(p, 1, m)
<1> DEFINE p == f[n + 1].path
           r == Then(q, key)
           t == Live(f, q, n)
<1>1. /\ n \in 0..Len(f) /\ n + 1 \in 0..Len(f)
      /\ p \in Paths /\ p # << >> /\ Len(p) \in Nat \ {0}
      /\ \A l : l \in Locations(f, n + 1) <=>
              l \in Locations(f, n) \/ \E m \in 1..Len(p) : l = Live(f, SubSeq(p, 1, m), n + 1)
  BY HeaderIs
<1> HIDE DEF p
<1>2. IsTree(Locations(f, n)) /\ IsTree(Locations(f, n + 1)) BY <1>1, LocationsAre
<1>3. t \in Locs /\ r \in Paths /\ Live(f, r, n + 1) = Then(t, Seg(key, Position(f, r, n + 1)))
  <2>1. n + 1 \in Nat OBVIOUS
  <2> QED BY <2>1, LiveIs, LiveThen
<1>4. Position(f, r, n + 1) \in Nat BY <1>3, PositionStep, n + 1 \in Nat
<1> HIDE DEF r
<1>5. ASSUME NEW y \in Nat, NEW m \in 1..Len(p)
      PROVE  Then(t, Seg(key, y)) = Live(f, SubSeq(p, 1, m), n + 1) <=>
               y = Position(f, r, n + 1) /\ r = SubSeq(p, 1, m)
  <2> DEFINE b == SubSeq(p, 1, m)
  <2>1. b \in Paths /\ b # << >>
    <3>1. b \in Paths /\ Len(b) = m BY <1>1, PathBegins
    <3> QED BY <3>1, EmptySeq DEF Paths
  <2> HIDE DEF b
  <2>2. ASSUME Then(t, Seg(key, y)) = Live(f, b, n + 1)
        PROVE  y = Position(f, r, n + 1) /\ r = b
    <3> DEFINE k == n + 1
    <3>1. Then(Live(f, q, k), Seg(key, y)) = Live(f, b, k) /\ k \in Nat BY <2>2
    <3> HIDE DEF k
    <3>2. b = Then(q, key) /\ y = Position(f, b, k) BY <2>1, <3>1, LiveTells
    <3> QED BY <3>2 DEF k, r
  <2>3. ASSUME y = Position(f, r, n + 1), r = b
        PROVE  Then(t, Seg(key, y)) = Live(f, b, n + 1)
    BY <1>3, <2>3
  <2> QED BY <2>2, <2>3 DEF b
<1> HIDE DEF t
<1>6. /\ \A y : y \in Positions(Locations(f, n + 1), t, key) <=>
             y \in Nat /\ Then(t, Seg(key, y)) \in Locations(f, n + 1)
      /\ \A y : y \in Positions(Locations(f, n), t, key) <=>
             y \in Nat /\ Then(t, Seg(key, y)) \in Locations(f, n)
  BY <1>2, <1>3, PositionsAre
<1>7. ASSUME NEW y
      PROVE  y \in Positions(Locations(f, n + 1), t, key) <=>
               \/ y \in Positions(Locations(f, n), t, key)
               \/ y = Position(f, r, n + 1) /\ \E m \in 1..Len(p) : r = SubSeq(p, 1, m)
  BY <1>1, <1>4, <1>5, <1>6
<1> QED BY <1>7 DEF p, r, t

\* A header keeps them in step, unless it makes an array of a table.
LEMMA SyncHeader ==
  ASSUME NEW f, Written(f), NEW n \in Nat, n + 1 \in DOMAIN f, f[n + 1].kind \in {"table", "tables"},
         Sync(f, n),
         LET p == f[n + 1].path
         IN  f[n + 1].kind = "tables" =>
               0 \notin Positions(Locations(f, n), Live(f, Front(p), n), Last(p))
  PROVE  Sync(f, n + 1)
<1> DEFINE p == f[n + 1].path
<1>1. /\ n \in 0..Len(f) /\ n + 1 \in 0..Len(f)
      /\ p \in Paths /\ p # << >> /\ Len(p) \in Nat \ {0}
      /\ Front(p) \in Paths /\ Last(p) \in Keys /\ p = Then(Front(p), Last(p))
      /\ \A l : l \in Locations(f, n + 1) <=>
              l \in Locations(f, n) \/ \E m \in 1..Len(p) : l = Live(f, SubSeq(p, 1, m), n + 1)
  BY HeaderIs
<1> SUFFICES ASSUME NEW q \in Paths, NEW key \in Keys
             PROVE  LET x  == Position(f, Then(q, key), n + 1)
                        ps == Positions(Locations(f, n + 1), Live(f, q, n + 1), key)
                    IN  (x = 0 /\ ps \subseteq {0}) \/ (x > 0 /\ x \in ps /\ ps \subseteq 1..x)
  BY DEF Sync
<1> DEFINE r   == Then(q, key)
           x   == Position(f, r, n)
           ps  == Positions(Locations(f, n), Live(f, q, n), key)
           x1  == Position(f, r, n + 1)
           ps1 == Positions(Locations(f, n + 1), Live(f, q, n + 1), key)
<1>2. (x = 0 /\ ps \subseteq {0}) \/ (x > 0 /\ x \in ps /\ ps \subseteq 1..x) BY DEF Sync
<1>3. r \in Paths /\ x \in Nat /\ Len(r) = Len(q) + 1 /\ Len(q) \in Nat
  BY ThenIs, PositionStep DEF Paths
<1>4. CASE f[n + 1].kind # "tables" \/ ~IsPrefix(p, r)
  <2>1. Live(f, q, n + 1) = Live(f, q, n) /\ x1 = x
    <3>1. ~IsPrefix(p, r) => ~IsPrefix(p, q) /\ p # r BY <1>1, ThenPrefix
    <3>2. Live(f, q, n + 1) = Live(f, q, n) BY <1>4, <3>1, LiveUnmoved
    <3>3. x1 = x BY ZenonT(40), <1>3, <1>4, <3>1, PositionStep DEF IsStrictPrefix
    <3> QED BY <3>2, <3>3
  <2>2. \A y : y \in ps1 => y \in ps \/ y = x BY <2>1, PositionsGrow
  <2>3. \A y : y \in ps => y \in ps1 BY <2>1, PositionsGrow
  <2> HIDE DEF x, x1, ps, ps1
  <2> QED BY <1>2, <1>3, <2>1, <2>2, <2>3 DEF x1, ps1, r
<1>5. CASE f[n + 1].kind = "tables" /\ p = r
  <2>1. Live(f, q, n + 1) = Live(f, q, n) /\ x1 = x + 1
    <3>1. ~IsPrefix(p, q) BY <1>1, <1>3, <1>5, PrefixIs
    <3>2. Live(f, q, n + 1) = Live(f, q, n) BY <1>5, <3>1, LiveUnmoved
    <3>3. x1 = x + 1 BY <1>3, <1>5, PositionStep
    <3> QED BY <3>2, <3>3
  <2>2. Front(p) = q /\ Last(p) = key BY <1>5, PathThen
  <2>3. 0 \notin ps BY <1>5, <2>2
  <2>4. r = SubSeq(p, 1, Len(p)) /\ Len(p) \in 1..Len(p) BY <1>1, <1>5, SubSeqFull DEF Paths
  <2>5. \A y : y \in ps1 <=> y \in ps \/ y = x1
    <3>1. \A y : y \in ps1 <=>
            y \in ps \/ (y = x1 /\ \E m \in 1..Len(p) : r = SubSeq(p, 1, m))
      BY <2>1, PositionsGrow
    <3>2. \E m \in 1..Len(p) : r = SubSeq(p, 1, m) BY <2>4
    <3> HIDE DEF p, r, ps1, ps, x1
    <3> QED BY <3>1, <3>2
  <2> HIDE DEF x, x1, ps, ps1
  <2> QED BY <1>2, <1>3, <2>1, <2>3, <2>5 DEF x1, ps1, r
<1>6. CASE f[n + 1].kind = "tables" /\ IsPrefix(p, q)
  <2> DEFINE X == Position(f, p, n)
             new == Then(Live(f, Front(p), n), Seg(Last(p), X + 1))
             t == Live(f, q, n + 1)
  <2>1. x1 = 0
    <3>1. IsPrefix(p, r) /\ p # r BY <1>1, <1>3, <1>6, ThenPrefix, PrefixIs
    <3> QED BY <1>3, <1>6, <3>1, PositionStep DEF IsStrictPrefix
  <2>2. SubSeq(t, 1, Len(p)) = new /\ t \in Locs /\ Len(t) = Len(q) /\ Len(p) <= Len(q)
    <3>1. SubSeq(t, 1, Len(p)) = new BY <1>6, LiveMoved
    <3>2. t \in Locs /\ Len(t) = Len(q) BY LiveIs, n + 1 \in Nat
    <3> QED BY <1>1, <1>6, <3>1, <3>2, PrefixIs
  <2>3. new \notin Locations(f, n)
    <3>1. /\ (X = 0 /\ Positions(Locations(f, n), Live(f, Front(p), n), Last(p)) \subseteq {0})
             \/ Positions(Locations(f, n), Live(f, Front(p), n), Last(p)) \subseteq 1..X
      BY <1>1 DEF Sync
    <3>2. X \in Nat BY <1>1, PositionStep
    <3>3. X + 1 \notin Positions(Locations(f, n), Live(f, Front(p), n), Last(p)) BY <3>1, <3>2
    <3>4. IsTree(Locations(f, n)) /\ Live(f, Front(p), n) \in Locs BY <1>1, LocationsAre, LiveIs
    <3> HIDE DEF X, p
    <3> QED BY <1>1, <3>2, <3>3, <3>4, PositionsAre
  <2>4. ASSUME NEW y \in ps1
        PROVE  FALSE
    <3> DEFINE l == Then(t, Seg(key, y))
    <3>1. IsTree(Locations(f, n + 1)) /\ IsTree(Locations(f, n)) BY <1>1, LocationsAre
    <3>2. y \in Nat /\ l \in Locations(f, n + 1)
      <4> HIDE DEF t
      <4> QED BY <2>2, <2>4, <3>1, PositionsAre DEF t
    <3>3. /\ l \in Locs /\ Len(l) = Len(q) + 1 /\ SubSeq(l, 1, Len(q)) = t
      <4>1. Seg(key, y) \in Segments BY <3>2, SegIs
      <4> HIDE DEF t
      <4> QED BY <2>2, <4>1, LocThen
    <3>4. SubSeq(l, 1, Len(p)) = new
      <4> HIDE DEF l, t, new, p
      <4>1. Len(p) \in 0..Len(q) /\ Len(q) \in 0..Len(l) BY <1>1, <1>3, <2>2, <3>3
      <4>2. \A i \in 0..Len(q) : SubSeq(SubSeq(l, 1, Len(q)), 1, i) = SubSeq(l, 1, i)
        BY <3>3, <4>1, LocBegins
      <4> QED BY <2>2, <3>3, <4>1, <4>2
    <3> HIDE DEF l, new
    <3>5. l \notin Locations(f, n)
      <4>1. Len(p) \in 0..Len(l) BY <1>1, <1>3, <2>2, <3>3
      <4> QED BY <2>3, <3>1, <3>4, <4>1 DEF IsTree
    <3>6. PICK m \in 1..Len(p) : l = Live(f, SubSeq(p, 1, m), n + 1) BY <1>1, <3>2, <3>5
    <3>7. SubSeq(p, 1, m) \in Paths /\ Len(SubSeq(p, 1, m)) = m
      <4> HIDE DEF p
      <4> QED BY <1>1, PathBegins
    <3>8. Len(l) = m BY <3>6, <3>7, LiveIs, n + 1 \in Nat
    <3> QED BY <1>1, <1>3, <2>2, <3>3, <3>8
  <2>5. ps1 = {} BY <2>4
  <2> HIDE DEF x1, ps1
  <2> QED BY <2>1, <2>5 DEF x1, ps1, r
<1> HIDE DEF p, r
<1>7. IsPrefix(p, r) <=> IsPrefix(p, q) \/ p = r BY <1>1, ThenPrefix DEF r
<1> QED BY <1>4, <1>5, <1>6, <1>7 DEF r

-----------------------------------------------------------------------------
(***************************************************************************)
(* Reading headers.                                                        *)
(***************************************************************************)

\* What the tables have at a key.
LEMMA TreeIs ==
  ASSUME NEW locs, IsTree(locs), NEW values, Placed(values, locs), NEW t \in locs, NEW key \in Keys
  PROVE  LET d == Tree(locs, values) IN
         /\ DOMAIN d = locs /\ d = [l \in locs |-> d[l]]
         /\ key \in DOMAIN d[t] <=> << t, key >> \in DOMAIN values \/ Positions(locs, t, key) # {}
         /\ key \in DOMAIN d[t] => d[t][key] =
              IF << t, key >> \in DOMAIN values THEN values[<< t, key >>]
              ELSE IF Positions(locs, t, key) = {0} THEN Table
              ELSE Tables(Max(Positions(locs, t, key)))
<1> DEFINE d == Tree(locs, values)
           cell(l, k) == IF << l, k >> \in DOMAIN values THEN values[<< l, k >>]
                         ELSE IF Positions(locs, l, k) = {0} THEN Table
                         ELSE Tables(Max(Positions(locs, l, k)))
<1>1. d = [l \in locs |-> [k \in KeysOf(locs, values, l) |-> cell(l, k)]] BY DEF Tree
<1> HIDE DEF cell, d
<1>2. DOMAIN d = locs /\ d = [l \in locs |-> d[l]] /\ d[t] = [k \in KeysOf(locs, values, t) |-> cell(t, k)]
  BY <1>1
<1>3. DOMAIN d[t] = KeysOf(locs, values, t) /\ (key \in DOMAIN d[t] => d[t][key] = cell(t, key))
  BY <1>2
<1>4. key \in KeysOf(locs, values, t) <=>
        << t, key >> \in DOMAIN values \/ Positions(locs, t, key) # {}
  <2>1. key \in {x[1] : x \in Below(locs, t)} <=> Positions(locs, t, key) # {}
    BY PositionsAre DEF IsTree
  <2>2. key \in {p[2] : p \in {p \in DOMAIN values : p[1] = t}} <=> << t, key >> \in DOMAIN values
    <3>1. << t, key >>[1] = t /\ << t, key >>[2] = key OBVIOUS
    <3> QED BY <3>1 DEF Placed
  <2> QED BY <2>1, <2>2 DEF KeysOf
<1> QED BY <1>2, <1>3, <1>4 DEF cell, d

\* The last of positions.
LEMMA MaxIs ==
  ASSUME NEW ps, NEW x \in ps, NEW m \in Nat, x = m, ps \subseteq 0..m
  PROVE  Max(ps) = m
<1>1. \A y \in ps : m >= y OBVIOUS
<1>2. \A z \in ps : (\A y \in ps : z >= y) => z = m OBVIOUS
<1> QED BY <1>1, <1>2 DEF Max

\* Making a table in the tables.
LEMMA NewTableIs ==
  ASSUME NEW locs, IsTree(locs), NEW values, Placed(values, locs),
         NEW t \in locs, NEW key \in Keys, NEW num \in Nat, NEW new, NEW value,
         << t, key >> \notin DOMAIN values, new = Then(t, Seg(key, num)), new \notin locs,
         value = Stands(Positions(locs, t, key) \cup {num})
  PROVE  T!NewTable(Tree(locs, values), t, key, value, new) = Tree(locs \cup {new}, values)
<1> DEFINE d == Tree(locs, values)
<1>1. /\ IsTree(locs \cup {new})
      /\ Tree(locs \cup {new}, values) = Grown(locs, d, t, key, value, new)
  BY TreeMake
<1>2. DOMAIN d = locs /\ d = [l \in locs |-> d[l]] BY DEF Tree
<1> HIDE DEF d
<1>3. new # t /\ new \notin locs OBVIOUS
<1>4. DOMAIN T!Put(d, t, key, value) = locs BY <1>2 DEF T!Put
<1>5. \A l \in locs : T!Put(d, t, key, value)[l] = IF l = t THEN T!With(d[t], key, value) ELSE d[l]
  BY <1>2 DEF T!Put
<1>6. T!NewTable(d, t, key, value, new) =
        [l \in locs \cup {new} |-> IF l = new THEN << >> ELSE T!Put(d, t, key, value)[l]]
  BY <1>4 DEF T!NewTable, T!With, T!NoKeys
<1>7. T!NewTable(d, t, key, value, new) = Grown(locs, d, t, key, value, new)
  BY <1>3, <1>5, <1>6 DEF T!With, Grown
<1> QED BY <1>1, <1>7 DEF d

\* What stands at a key, without a value.
LEMMA StandsIs ==
  ASSUME NEW x \in Nat, NEW ps, LastIs(x, ps), ps # {}
  PROVE  /\ x = 0 => ps = {0} /\ Stands(ps) = Table
         /\ x # 0 => ps # {0} /\ Stands(ps) = Tables(x)
<1>1. CASE x = 0 BY <1>1 DEF LastIs, Stands
<1>2. CASE x # 0
  <2>1. x \in ps /\ ps \subseteq 0..x BY <1>2 DEF LastIs
  <2>2. Max(ps) = x BY <2>1, MaxIs
  <2>3. ps # {0} BY <1>2, <2>1
  <2> QED BY <1>2, <2>2, <2>3 DEF Stands
<1> QED BY <1>1, <1>2

\* Descend, where all is well so far.
LEMMA DescendStep ==
  ASSUME NEW d, NEW t, NEW key, NEW way, Leads(way, d, t)
  PROVE  LET on == T!Descend(way, key) IN
         /\ key \notin DOMAIN d[t] =>
              Leads(on, T!NewTable(d, t, key, Table, Append(t, << key, 0 >>)), Append(t, << key, 0 >>))
         /\ key \in DOMAIN d[t] /\ d[t][key].is = "table" => Leads(on, d, Append(t, << key, 0 >>))
         /\ key \in DOMAIN d[t] /\ d[t][key].is = "tables" => Leads(on, d, Append(t, << key, d[t][key].size >>))
         /\ key \in DOMAIN d[t] /\ d[t][key].is \notin {"table", "tables"} => ~on.ok
<1>1. T!Table = Table BY DEF Table, T!Table
<1>2. way = [doc |-> way.doc, at |-> way.at, ok |-> way.ok] /\ way.doc = d /\ way.at = t /\ way.ok
  BY DEF Leads
<1>3. \A e, u : Leads([way EXCEPT !.doc = e, !.at = u], e, u)
  <2> SUFFICES ASSUME NEW e, NEW u
               PROVE  Leads([way EXCEPT !.doc = e, !.at = u], e, u)
    OBVIOUS
  <2> DEFINE w == [way EXCEPT !.doc = e]
  <2>1. w = [doc |-> w.doc, at |-> w.at, ok |-> w.ok] /\ w.doc = e /\ w.ok BY <1>2
  <2> HIDE DEF w
  <2>2. Leads([w EXCEPT !.at = u], e, u) BY <2>1 DEF Leads
  <2> QED BY <2>2 DEF w
<1>4. \A u : Leads([way EXCEPT !.at = u], d, u) BY <1>2 DEF Leads
<1>5. ~[way EXCEPT !.ok = FALSE].ok BY <1>2
<1>6. CASE key \notin DOMAIN d[t] BY <1>1, <1>2, <1>3, <1>6 DEF T!Descend
<1>7. CASE key \in DOMAIN d[t] BY <1>2, <1>4, <1>5, <1>7 DEF T!Descend
<1> QED BY <1>6, <1>7

\* One segment of a header: stopped by a value, or on to the last position,
\* where a table is made if there is none.
LEMMA DescendIs ==
  ASSUME NEW locs, IsTree(locs), NEW values, Placed(values, locs), NoTables(values),
         NEW t \in locs, NEW key \in Keys, NEW x \in Nat, LastIs(x, Positions(locs, t, key)),
         NEW way, Leads(way, Tree(locs, values), t)
  PROVE  LET new == Then(t, Seg(key, x))
             on  == T!Descend(way, key)
         IN  IF << t, key >> \in DOMAIN values THEN ~on.ok
             ELSE /\ IsTree(locs \cup {new})
                  /\ Leads(on, Tree(locs \cup {new}, values), new)
<1> DEFINE d   == Tree(locs, values)
           ps  == Positions(locs, t, key)
           new == Then(t, Seg(key, x))
           on  == T!Descend(way, key)
<1>1. /\ key \in DOMAIN d[t] <=> << t, key >> \in DOMAIN values \/ ps # {}
      /\ key \in DOMAIN d[t] => d[t][key] =
           IF << t, key >> \in DOMAIN values THEN values[<< t, key >>] ELSE Stands(ps)
  BY TreeIs DEF Stands
<1>2. new \in locs <=> x \in ps
  <2>1. t \in Locs BY DEF IsTree
  <2> QED BY <2>1, PositionsAre
<1>3. new = Append(t, << key, x >>) BY DEF Then, Seg
<1>4. T!Table = Table /\ Table.is = "table" /\ \A n : Tables(n).is = "tables" /\ Tables(n).size = n
  BY DEF Table, T!Table, Tables
<1>5. /\ key \notin DOMAIN d[t] =>
           Leads(on, T!NewTable(d, t, key, Table, Append(t, << key, 0 >>)), Append(t, << key, 0 >>))
      /\ key \in DOMAIN d[t] /\ d[t][key].is = "table" => Leads(on, d, Append(t, << key, 0 >>))
      /\ key \in DOMAIN d[t] /\ d[t][key].is = "tables" => Leads(on, d, Append(t, << key, d[t][key].size >>))
      /\ key \in DOMAIN d[t] /\ d[t][key].is \notin {"table", "tables"} => ~on.ok
  BY DescendStep
<1> HIDE DEF d, new, on
<1>6. CASE << t, key >> \in DOMAIN values
  <2>1. d[t][key].is \notin {"table", "tables"} /\ key \in DOMAIN d[t] BY <1>1, <1>6 DEF NoTables
  <2> QED BY <1>5, <1>6, <2>1 DEF on
<1>7. CASE << t, key >> \notin DOMAIN values /\ ps = {}
  <2>1. x = 0 /\ new \notin locs /\ key \notin DOMAIN d[t] BY <1>1, <1>2, <1>7 DEF LastIs
  <2>2. Stands(ps \cup {x}) = Table BY <1>7, <2>1 DEF Stands
  <2>3. IsTree(locs \cup {new}) /\ T!NewTable(d, t, key, Table, new) = Tree(locs \cup {new}, values)
    <3>1. Table = Stands(ps \cup {x}) /\ new \notin locs BY <2>1, <2>2
    <3>2. new = Then(t, Seg(key, x)) BY DEF new
    <3>3. IsTree(locs \cup {new}) /\ T!NewTable(Tree(locs, values), t, key, Table, new) = Tree(locs \cup {new}, values)
      <4>1. ASSUME NEW l, l = Then(t, Seg(key, x)), l \notin locs,
                   NEW value, value = Stands(Positions(locs, t, key) \cup {x})
            PROVE  T!NewTable(Tree(locs, values), t, key, value, l) = Tree(locs \cup {l}, values)
        BY <1>7, <4>1, NewTableIs
      <4>2. ASSUME NEW l, l = Then(t, Seg(key, x)), l \notin locs,
                   NEW value, value = Stands(Positions(locs, t, key) \cup {x})
            PROVE  IsTree(locs \cup {l})
        BY <1>7, <4>2, TreeMake
      <4> QED BY <3>1, <3>2, <4>1, <4>2
    <3> QED BY <3>3 DEF d
  <2>4. Leads(on, T!NewTable(d, t, key, Table, new), new) BY <1>3, <1>5, <2>1
  <2> QED BY <1>7, <2>3, <2>4 DEF new, on
<1>8. CASE << t, key >> \notin DOMAIN values /\ ps # {}
  <2>1. key \in DOMAIN d[t] /\ d[t][key] = Stands(ps) BY <1>1, <1>8
  <2>2. x \in ps BY <1>8 DEF LastIs
  <2>3. locs \cup {new} = locs BY <1>2, <2>2
  <2>4. Leads(on, d, new)
    <3>1. CASE x = 0
      <4>1. d[t][key].is = "table" BY <1>4, <1>8, <2>1, <3>1, StandsIs
      <4> QED BY <1>3, <1>5, <2>1, <3>1, <4>1
    <3>2. CASE x # 0
      <4>1. d[t][key].is = "tables" /\ d[t][key].size = x BY <1>4, <1>8, <2>1, <3>2, StandsIs
      <4> QED BY <1>3, <1>5, <2>1, <3>2, <4>1
    <3> QED BY <3>1, <3>2
  <2> QED BY <1>8, <2>3, <2>4 DEF new, d, on
<1> QED BY <1>6, <1>7, <1>8

\* What is made on the way lies above.
LEMMA ReachedPositions ==
  ASSUME NEW f, Written(f), NEW n \in 0..Len(f), NEW p \in Paths, NEW i \in 0..Len(p),
         IsTree(Reached(f, p, n, i)), NEW key \in Keys
  PROVE  LET t == Live(f, SubSeq(p, 1, i), n) IN
         /\ t \in Reached(f, p, n, i)
         /\ Positions(Reached(f, p, n, i), t, key) = Positions(Locations(f, n), t, key)
<1> DEFINE q == SubSeq(p, 1, i)
           t == Live(f, q, n)
           R == Reached(f, p, n, i)
<1>0. Len(p) \in Nat /\ Len(f) \in Nat BY LenProperties DEF Paths, Written
<1>1. q \in Paths /\ Len(q) = i BY PathBegins
<1> HIDE DEF q
<1>2. t \in Locs /\ Len(t) = i BY <1>1, LiveIs
<1>3. IsTree(Locations(f, n)) BY LocationsAre
<1>4. t \in R
  <2>1. CASE i = 0
    <3>1. t = Root BY <1>2, <2>1, EmptySeq DEF Locs, Root
    <3> QED BY <1>3, <3>1 DEF Reached, IsTree
  <2>2. CASE i # 0
    <3>1. i \in 1..i BY <1>0, <2>2
    <3> QED BY <3>1 DEF Reached, q
  <2> QED BY <2>1, <2>2
<1>5. ASSUME NEW y \in Nat
      PROVE  Then(t, Seg(key, y)) \in R <=> Then(t, Seg(key, y)) \in Locations(f, n)
  <2> DEFINE l == Then(t, Seg(key, y))
  <2>1. Len(l) = i + 1 BY <1>2, SegIs, LocThen
  <2>2. ASSUME NEW m \in 1..i
        PROVE  Len(Live(f, SubSeq(p, 1, m), n)) = m
    <3>1. m \in 0..Len(p) BY <1>0
    <3> DEFINE r == SubSeq(p, 1, m)
    <3>2. r \in Paths /\ Len(r) = m BY <3>1, PathBegins
    <3> HIDE DEF r
    <3>3. Len(Live(f, r, n)) = m BY <1>0, <3>2, LiveIs
    <3> QED BY <3>3 DEF r
  <2> HIDE DEF l
  <2>3. \A m \in 1..i : l # Live(f, SubSeq(p, 1, m), n) BY <1>0, <2>1, <2>2
  <2> QED BY <2>3 DEF Reached, l
<1> HIDE DEF t, R
<1>6. /\ \A y : y \in Positions(R, t, key) <=> y \in Nat /\ Then(t, Seg(key, y)) \in R
      /\ \A y : y \in Positions(Locations(f, n), t, key) <=>
                  y \in Nat /\ Then(t, Seg(key, y)) \in Locations(f, n)
  BY <1>2, <1>3, PositionsAre DEF R
<1>7. Positions(R, t, key) = Positions(Locations(f, n), t, key) BY <1>5, <1>6
<1> QED BY <1>4, <1>7 DEF t, q, R

\* The way of a header, until it meets a value.
LEMMA WaysRead ==
  ASSUME NEW f, Written(f), NEW n \in 0..Len(f), Sync(f, n),
         NEW values, Placed(values, Locations(f, n)), NoTables(values),
         NEW p \in Paths
  PROVE  \A i \in 0..Len(p) :
           LET way == T!Ways(Tree(Locations(f, n), values), p)[i] IN
           IF Met(f, p, n, i, values) THEN ~way.ok
           ELSE /\ IsTree(Reached(f, p, n, i))
                /\ Leads(way, Tree(Reached(f, p, n, i), values), Live(f, SubSeq(p, 1, i), n))
<1> DEFINE doc0 == Tree(Locations(f, n), values)
           ways == T!Ways(doc0, p)
           live(i) == Live(f, SubSeq(p, 1, i), n)
           R(i) == Reached(f, p, n, i)
           Good(i) == IF Met(f, p, n, i, values) THEN ~ways[i].ok
                      ELSE IsTree(R(i)) /\ Leads(ways[i], Tree(R(i), values), live(i))
           Ns == {i \in Nat : i <= Len(p) => Good(i)}
<1>1. Len(p) \in Nat /\ Len(f) \in Nat /\ n \in Nat /\ p \in Seq(STRING)
  BY LenProperties DEF Paths, Written, Keys
<1>2. ways = [i \in 0..Len(p) |->
        IF i = 0 THEN [doc |-> doc0, at |-> Root, ok |-> TRUE] ELSE T!Descend(ways[i - 1], p[i])]
  BY <1>1, WaysIs
<1>3. IsTree(Locations(f, n)) BY LocationsAre
<1> HIDE DEF ways, doc0
<1>4. 0 \in Ns
  <2>1. ways[0] = [doc |-> doc0, at |-> Root, ok |-> TRUE] BY <1>1, <1>2
  <2>2. Leads(ways[0], doc0, Root) BY <2>1 DEF Leads
  <2>3. live(0) = Root
    <3>1. 0 \in 0..Len(p) BY <1>1
    <3>2. SubSeq(p, 1, 0) \in Paths /\ Len(SubSeq(p, 1, 0)) = 0 BY <3>1, PathBegins
    <3>3. live(0) \in Locs /\ Len(live(0)) = 0 BY <1>1, <3>2, LiveIs
    <3> QED BY <3>3, EmptySeq DEF Root, Locs
  <2>4. R(0) = Locations(f, n) /\ ~Met(f, p, n, 0, values) BY DEF Reached, Met
  <2> HIDE DEF R, live
  <2>5. Good(0) BY <1>3, <2>2, <2>3, <2>4 DEF doc0
  <2> QED BY <2>5
<1>5. ASSUME NEW i \in Nat, i \in Ns
      PROVE  i + 1 \in Ns
  <2>1. SUFFICES ASSUME i + 1 <= Len(p)
                 PROVE  Good(i + 1)
    OBVIOUS
  <2> DEFINE q == SubSeq(p, 1, i)
             key == p[i + 1]
             t == live(i)
             x == Position(f, Then(q, key), n)
             new == Then(t, Seg(key, x))
  <2>2. Good(i) BY <1>5, <2>1
  <2>3. /\ i \in 0..Len(p) /\ i + 1 \in 1..Len(p) /\ i + 1 \in 0..Len(p) /\ i + 1 # 0 /\ (i + 1) - 1 = i
        /\ key \in Keys /\ q \in Paths
    <3>1. i \in 0..Len(p) /\ i + 1 \in 1..Len(p) /\ i + 1 # 0 /\ (i + 1) - 1 = i BY <1>1, <2>1
    <3>2. q \in Paths BY <3>1, PathBegins
    <3>3. key \in Keys BY <3>1, ElementOfSeq DEF Paths
    <3> QED BY <3>1, <3>2, <3>3
  <2>4. ways[i + 1] = T!Descend(ways[i], key) BY <1>2, <2>3
  <2>5. live(i + 1) = new /\ SubSeq(p, 1, i + 1) = Then(q, key)
    <3>1. SubSeq(p, 1, i + 1) = Then(q, key) BY <2>3, BeginThen DEF Paths
    <3> HIDE DEF q, key
    <3>2. Live(f, Then(q, key), n) = Then(Live(f, q, n), Seg(key, Position(f, Then(q, key), n)))
      BY <1>1, <2>3, LiveThen
    <3> QED BY <3>1, <3>2 DEF q
  <2>6. R(i + 1) = R(i) \cup {new}
    <3>1. \A m : m \in 1..(i + 1) <=> m \in 1..i \/ m = i + 1 BY <1>1
    <3> HIDE DEF new
    <3> QED BY <2>5, <3>1 DEF Reached
  <2>7. Met(f, p, n, i + 1, values) <=> Met(f, p, n, i, values) \/ << t, key >> \in DOMAIN values
    <3>1. \A m : m \in 1..(i + 1) <=> m \in 1..i \/ m = i + 1 BY <1>1
    <3> QED BY <2>3, <3>1 DEF Met
  <2>8. x \in Nat /\ LastIs(x, Positions(Locations(f, n), t, key))
    <3>1. Then(q, key) \in Paths BY <2>3, PathThen
    <3>2. x \in Nat BY <1>1, <3>1, PositionStep
    <3> QED BY <2>3, <3>2 DEF Sync, LastIs
  <2>9. CASE Met(f, p, n, i, values)
    <3>1. ~ways[i].ok BY <2>2, <2>9
    <3>2. ways[i + 1] = ways[i] BY <2>4, <3>1 DEF T!Descend
    <3> QED BY <2>7, <2>9, <3>1, <3>2
  <2>10. CASE ~Met(f, p, n, i, values)
    <3>1. IsTree(R(i)) /\ Leads(ways[i], Tree(R(i), values), t) BY <2>2, <2>10
    <3>2. t \in R(i) /\ Positions(R(i), t, key) = Positions(Locations(f, n), t, key)
      BY <2>3, <3>1, ReachedPositions
    <3>3. Placed(values, R(i)) BY DEF Placed, Reached
    <3> HIDE DEF R, t, x, key, q
    <3>4. IF << t, key >> \in DOMAIN values THEN ~T!Descend(ways[i], key).ok
          ELSE /\ IsTree(R(i) \cup {new})
               /\ Leads(T!Descend(ways[i], key), Tree(R(i) \cup {new}, values), new)
      <4>1. LastIs(x, Positions(R(i), t, key)) /\ x \in Nat BY <2>8, <3>2
      <4>2. ASSUME NEW L, L = R(i), NEW w, w = ways[i]
            PROVE  IF << t, key >> \in DOMAIN values THEN ~T!Descend(w, key).ok
                   ELSE /\ IsTree(L \cup {Then(t, Seg(key, x))})
                        /\ Leads(T!Descend(w, key), Tree(L \cup {Then(t, Seg(key, x))}, values), Then(t, Seg(key, x)))
        <5>1. /\ IsTree(L) /\ Placed(values, L) /\ t \in L /\ key \in Keys /\ LastIs(x, Positions(L, t, key))
              /\ Leads(w, Tree(L, values), t) /\ x \in Nat
          BY <2>3, <3>1, <3>2, <3>3, <4>1, <4>2
        <5> QED BY <5>1, DescendIs
      <4> QED BY <4>2
    <3> HIDE DEF new, live
    <3> QED BY <2>4, <2>5, <2>6, <2>7, <2>10, <3>4
  <2> QED BY <2>9, <2>10
<1>6. ASSUME NEW i \in 0..Len(p)
      PROVE  Good(i)
  <2> HIDE DEF Ns
  <2>1. Nat \subseteq Ns BY <1>4, <1>5, SetInduction
  <2> HIDE DEF Good
  <2> QED BY <1>1, <2>1 DEF Ns
<1> HIDE DEF Good
<1>7. \A i \in 0..Len(p) : Good(i) BY <1>6
<1> QED BY <1>7 DEF Good, ways, doc0, R, live

\* The location of a header, segment by segment.
LEMMA LocationWay ==
  ASSUME NEW f, Written(f), NEW n \in 0..Len(f), NEW j \in HeaderLines(f, n)
  PROVE  LET loc == Location(f, j)
             p   == f[j].path
         IN  /\ loc \in Locs /\ Len(loc) = Len(p) /\ DOMAIN loc = 1..Len(p) /\ Len(p) \in Nat \ {0}
             /\ p \in Paths /\ p # << >> /\ j \in Nat \ {0} /\ loc = Live(f, p, j)
             /\ \A m \in 1..Len(p) :
                  /\ loc[m] \in Segments /\ loc[m][1] = p[m] /\ p[m] \in Keys
                  /\ SubSeq(loc, 1, m - 1) \in Locs /\ Len(SubSeq(loc, 1, m - 1)) = m - 1
                  /\ SubSeq(loc, 1, m) = Then(SubSeq(loc, 1, m - 1), loc[m])
                  /\ SubSeq(loc, 1, m - 1) = Live(f, SubSeq(p, 1, m - 1), j)
<1> DEFINE loc == Location(f, j)
           p   == f[j].path
<1>1. /\ p \in Paths /\ p # << >> /\ Len(p) \in Nat \ {0} /\ j \in Nat \ {0}
      /\ loc = Live(f, p, j)
  BY LocationIs
<1> HIDE DEF p, loc
<1>2. /\ loc \in Locs /\ Len(loc) = Len(p)
      /\ \A m \in 1..Len(p) : loc[m] = Seg(p[m], Position(f, SubSeq(p, 1, m), j))
      /\ \A m \in 0..Len(p) : SubSeq(loc, 1, m) = Live(f, SubSeq(p, 1, m), j)
  BY <1>1, LiveIs
<1>3. DOMAIN loc = 1..Len(p) BY <1>2, LenProperties DEF Locs
<1>4. ASSUME NEW m \in 1..Len(p)
      PROVE  /\ loc[m] \in Segments /\ loc[m][1] = p[m] /\ p[m] \in Keys
             /\ SubSeq(loc, 1, m - 1) \in Locs /\ Len(SubSeq(loc, 1, m - 1)) = m - 1
             /\ SubSeq(loc, 1, m) = Then(SubSeq(loc, 1, m - 1), loc[m])
             /\ SubSeq(loc, 1, m - 1) = Live(f, SubSeq(p, 1, m - 1), j)
  <2>1. loc[m] \in Segments /\ p[m] \in Keys BY <1>1, <1>2, ElementOfSeq DEF Locs, Paths
  <2>2. loc[m][1] = p[m] BY <1>2, SegIs
  <2>3. m - 1 \in 0..Len(p) /\ m - 1 \in 0..Len(loc) /\ m \in 1..Len(loc) BY <1>1, <1>2
  <2>4. SubSeq(loc, 1, m) = Then(SubSeq(loc, 1, m - 1), loc[m]) BY <1>2, <2>3, BeginThen DEF Locs
  <2>5. SubSeq(loc, 1, m - 1) \in Locs /\ Len(SubSeq(loc, 1, m - 1)) = m - 1
    BY <1>2, <2>3, LocBegins
  <2>6. SubSeq(loc, 1, m - 1) = Live(f, SubSeq(p, 1, m - 1), j) BY <1>2, <2>3
  <2> QED BY <2>1, <2>2, <2>4, <2>5, <2>6
<1> QED BY <1>1, <1>2, <1>3, <1>4 DEF loc, p

\* A table stands at a key: a header goes through it.
LEMMA PositionsFrom ==
  ASSUME NEW f, Written(f), NEW n \in 0..Len(f), NEW t \in Locs, NEW key \in Keys
  PROVE  /\ \A y : y \in Positions(Locations(f, n), t, key) <=>
              \E j \in HeaderLines(f, n) :
                /\ << t, key >> \in Places(Location(f, j))
                /\ y = Location(f, j)[Len(t) + 1][2]
         /\ Positions(Locations(f, n), t, key) # {} <=>
              \E j \in HeaderLines(f, n) : << t, key >> \in Places(Location(f, j))
<1> DEFINE P == Positions(Locations(f, n), t, key)
<1>1. \A l : l \in Locations(f, n) <=>
              \/ l = Root
              \/ \E j \in HeaderLines(f, n) : \E m \in 1..Len(f[j].path) :
                   l = SubSeq(Location(f, j), 1, m)
  <2>1. \A l : l \in Locations(f, n) <=>
              \/ l = Root
              \/ \E j \in HeaderLines(f, n) : \E m \in 1..Len(f[j].path) :
                   l = Live(f, SubSeq(f[j].path, 1, m), j)
    BY LocationsAre
  <2>2. ASSUME NEW j \in HeaderLines(f, n), NEW m \in 1..Len(f[j].path)
        PROVE  SubSeq(Location(f, j), 1, m) = Live(f, SubSeq(f[j].path, 1, m), j)
    <3>1. /\ f[j].path \in Paths /\ j \in Nat /\ m \in 0..Len(f[j].path)
          /\ Location(f, j) = Live(f, f[j].path, j)
      BY LocationIs
    <3> QED BY <3>1, LiveIs
  <2> QED BY <2>1, <2>2
<1>2. \A y : y \in P <=> y \in Nat /\ Then(t, Seg(key, y)) \in Locations(f, n)
  BY LocationsAre, PositionsAre
<1>3. Len(t) \in Nat BY LenProperties DEF Locs
<1>4. ASSUME NEW j \in HeaderLines(f, n), NEW y \in Nat, NEW m \in 1..Len(f[j].path),
             Then(t, Seg(key, y)) = SubSeq(Location(f, j), 1, m)
      PROVE  << t, key >> \in Places(Location(f, j)) /\ y = Location(f, j)[Len(t) + 1][2]
  <2> DEFINE loc == Location(f, j)
             before == SubSeq(loc, 1, m - 1)
  <2>1. /\ loc[m] \in Segments /\ m \in DOMAIN loc /\ m \in Nat
        /\ before \in Locs /\ Len(before) = m - 1
        /\ SubSeq(loc, 1, m) = Then(before, loc[m])
    BY LocationWay
  <2>2. Seg(key, y) \in Segments /\ Seg(key, y)[1] = key /\ Seg(key, y)[2] = y BY SegIs
  <2> HIDE DEF before
  <2>3. t = before /\ Seg(key, y) = loc[m]
    <3>1. ASSUME NEW e \in Segments, NEW x \in Segments, Then(t, e) = Then(before, x)
          PROVE  t = before /\ e = x
      BY <2>1, <3>1, LocSame
    <3>2. Then(t, Seg(key, y)) = Then(before, loc[m]) BY <1>4, <2>1
    <3> QED BY <2>1, <2>2, <3>1, <3>2
  <2>4. Len(t) + 1 = m BY <2>1, <2>3
  <2>5. << t, key >> = << SubSeq(loc, 1, m - 1), loc[m][1] >> BY <2>2, <2>3 DEF before
  <2> QED BY <2>1, <2>2, <2>3, <2>4, <2>5 DEF Places
<1>5. ASSUME NEW j \in HeaderLines(f, n), << t, key >> \in Places(Location(f, j))
      PROVE  /\ Len(t) + 1 \in 1..Len(f[j].path)
             /\ Location(f, j)[Len(t) + 1][2] \in Nat
             /\ Then(t, Seg(key, Location(f, j)[Len(t) + 1][2])) = SubSeq(Location(f, j), 1, Len(t) + 1)
  <2> DEFINE loc == Location(f, j)
  <2>1. DOMAIN loc = 1..Len(f[j].path) BY LocationWay
  <2>2. PICK m \in 1..Len(f[j].path) : << t, key >> = << SubSeq(loc, 1, m - 1), loc[m][1] >>
    BY <1>5, <2>1 DEF Places
  <2> DEFINE before == SubSeq(loc, 1, m - 1)
  <2>3. /\ loc[m] \in Segments /\ Len(before) = m - 1 /\ m \in Nat
        /\ SubSeq(loc, 1, m) = Then(before, loc[m])
    BY LocationWay
  <2>4. t = before /\ key = loc[m][1] BY <2>2
  <2>5. m = Len(t) + 1 BY <1>3, <2>3, <2>4
  <2>6. loc[m][2] \in Nat /\ loc[m] = Seg(key, loc[m][2]) BY <2>3, <2>4, SegIs
  <2> HIDE DEF loc, before
  <2> QED BY <2>3, <2>4, <2>5, <2>6 DEF loc
<1>6. ASSUME NEW y \in P
      PROVE  \E j \in HeaderLines(f, n) :
                /\ << t, key >> \in Places(Location(f, j))
                /\ y = Location(f, j)[Len(t) + 1][2]
  <2>1. y \in Nat /\ Then(t, Seg(key, y)) \in Locations(f, n) BY <1>2, <1>6
  <2>2. Then(t, Seg(key, y)) # Root
    <3>1. Seg(key, y) \in Segments BY <2>1, SegIs
    <3> QED BY <3>1, LocThen DEF Root
  <2>3. PICK j \in HeaderLines(f, n) : \E m \in 1..Len(f[j].path) :
           Then(t, Seg(key, y)) = SubSeq(Location(f, j), 1, m)
    BY <1>1, <2>1, <2>2
  <2> QED BY <1>4, <2>1, <2>3
<1>7. ASSUME NEW j \in HeaderLines(f, n), << t, key >> \in Places(Location(f, j))
      PROVE  Location(f, j)[Len(t) + 1][2] \in P
  BY <1>1, <1>2, <1>5, <1>7
<1> HIDE DEF P
<1>8. \A y : y \in P <=> \E j \in HeaderLines(f, n) :
                /\ << t, key >> \in Places(Location(f, j))
                /\ y = Location(f, j)[Len(t) + 1][2]
  BY <1>6, <1>7
<1>9. P # {} <=> \E j \in HeaderLines(f, n) : << t, key >> \in Places(Location(f, j)) BY <1>8
<1> QED BY <1>8, <1>9 DEF P

\* The places on the way of a header, seen from the lines above it.
LEMMA HeaderPlaces ==
  ASSUME NEW f, Written(f), NEW n \in Nat, n + 1 \in DOMAIN f, f[n + 1].kind \in {"table", "tables"}
  PROVE  LET p == f[n + 1].path IN
         /\ \A m \in 1..Len(p) : Live(f, SubSeq(p, 1, m - 1), n + 1) = Live(f, SubSeq(p, 1, m - 1), n)
         /\ \A x : x \in Places(Location(f, n + 1)) <=>
              \E m \in 1..Len(p) : x = << Live(f, SubSeq(p, 1, m - 1), n), p[m] >>
         /\ LastPlace(Location(f, n + 1)) = << Live(f, Front(p), n), Last(p) >>
         /\ n + 1 \in HeaderLines(f, n + 1) /\ n + 1 \in 0..Len(f) /\ n \in 0..Len(f)
<1> DEFINE p == f[n + 1].path
           loc == Location(f, n + 1)
<1>1. n + 1 \in HeaderLines(f, n + 1) /\ n + 1 \in 0..Len(f) /\ n \in 0..Len(f)
  <2>1. n \in 0..Len(f) /\ n + 1 \in 0..Len(f) BY HeaderIs
  <2> QED BY <2>1 DEF HeaderLines
<1>2. /\ loc \in Locs /\ Len(loc) = Len(p) /\ DOMAIN loc = 1..Len(p) /\ Len(p) \in Nat \ {0}
      /\ p \in Paths /\ p # << >>
      /\ \A m \in 1..Len(p) :
           /\ loc[m][1] = p[m]
           /\ SubSeq(loc, 1, m - 1) = Live(f, SubSeq(p, 1, m - 1), n + 1)
  BY <1>1, LocationWay
<1>3. ASSUME NEW m \in 1..Len(p)
      PROVE  Live(f, SubSeq(p, 1, m - 1), n + 1) = Live(f, SubSeq(p, 1, m - 1), n)
  <2> DEFINE r == SubSeq(p, 1, m - 1)
  <2>1. m - 1 \in 0..Len(p) /\ m - 1 < Len(p) BY <1>2
  <2> HIDE DEF p
  <2>2. r \in Paths /\ Len(r) = m - 1 BY <1>2, <2>1, PathBegins
  <2> HIDE DEF r
  <2>3. ~IsPrefix(p, r) BY <1>2, <2>1, <2>2, PrefixIs
  <2>4. Live(f, r, n + 1) = Live(f, r, n) BY <2>2, <2>3, LiveUnmoved DEF p
  <2> QED BY <2>4 DEF r
<1> HIDE DEF loc, p
<1>4. \A m \in 1..Len(p) : << SubSeq(loc, 1, m - 1), loc[m][1] >> =
                             << Live(f, SubSeq(p, 1, m - 1), n), p[m] >>
  BY <1>2, <1>3
<1>5. ASSUME NEW x
      PROVE  x \in Places(loc) <=>
              \E m \in 1..Len(p) : x = << Live(f, SubSeq(p, 1, m - 1), n), p[m] >>
  <2> DEFINE a(m) == << SubSeq(loc, 1, m - 1), loc[m][1] >>
             b(m) == << Live(f, SubSeq(p, 1, m - 1), n), p[m] >>
  <2>1. x \in Places(loc) <=> \E m \in 1..Len(p) : x = a(m) BY <1>2 DEF Places
  <2>2. \A m \in 1..Len(p) : a(m) = b(m) BY <1>4
  <2> HIDE DEF a, b
  <2>3. x \in Places(loc) <=> \E m \in 1..Len(p) : x = b(m) BY <2>1, <2>2
  <2> QED BY <2>3 DEF b
<1>6. LastPlace(loc) = << Live(f, Front(p), n), Last(p) >>
  <2>1. Len(p) \in 1..Len(p) BY <1>2
  <2>2. << SubSeq(loc, 1, Len(p) - 1), loc[Len(p)][1] >> = << Live(f, SubSeq(p, 1, Len(p) - 1), n), p[Len(p)] >>
    BY <1>4, <2>1
  <2> QED BY <1>2, <2>2 DEF LastPlace, Front, Last
<1> QED BY <1>1, <1>3, <1>5, <1>6 DEF loc, p

\* A header does not clash with the lines above it.
LEMMA HeaderClash ==
  ASSUME NEW f, Written(f), NEW n \in Nat, n + 1 \in DOMAIN f, f[n + 1].kind \in {"table", "tables"},
         NoClash(f, n), NEW values, DOMAIN values = {Place(f, i) : i \in SetLines(f, n)}
  PROVE  LET p == f[n + 1].path
             P == Positions(Locations(f, n), Live(f, Front(p), n), Last(p))
         IN  NoClash(f, n + 1) <=>
               ~Met(f, p, n, Len(p), values) /\ 0 \notin P /\ (f[n + 1].kind = "table" => P = {})
<1> DEFINE p == f[n + 1].path
           t == Live(f, Front(p), n)
           P == Positions(Locations(f, n), t, Last(p))
           loc == Location(f, n + 1)
<1>1. /\ n \in 0..Len(f) /\ p \in Paths /\ p # << >> /\ Len(p) \in Nat \ {0}
      /\ Front(p) \in Paths /\ Last(p) \in Keys /\ p = Then(Front(p), Last(p))
      /\ HeaderLines(f, n + 1) = HeaderLines(f, n) \cup {n + 1}
  BY HeaderIs
<1>2. /\ \A x : x \in Places(loc) <=>
              \E m \in 1..Len(p) : x = << Live(f, SubSeq(p, 1, m - 1), n), p[m] >>
      /\ LastPlace(loc) = << t, Last(p) >>
  BY HeaderPlaces
<1>3. SetLines(f, n + 1) = SetLines(f, n) BY DEF SetLines
<1>4. t \in Locs /\ Len(t) + 1 = Len(p)
  <2>1. Len(p) = Len(Front(p)) + 1 BY <1>1, PathThen
  <2> QED BY <1>1, <2>1, LiveIs
<1> HIDE DEF t, loc, p
<1>5. (\A i \in SetLines(f, n) : Place(f, i) \notin Places(loc)) <=> ~Met(f, p, n, Len(p), values)
  <2>1. Met(f, p, n, Len(p), values) <=> \E x \in DOMAIN values : x \in Places(loc) BY <1>2 DEF Met
  <2> QED BY <2>1
<1>6. (\A i \in HeaderLines(f, n) : LastPlace(loc) \in Places(Location(f, i)) =>
         f[n + 1].kind = "tables" /\ Location(f, i)[Len(p)][2] > 0) <=>
      0 \notin P /\ (f[n + 1].kind = "table" => P = {})
  <2>1. /\ \A y : y \in P <=>
              \E j \in HeaderLines(f, n) :
                << t, Last(p) >> \in Places(Location(f, j)) /\ y = Location(f, j)[Len(t) + 1][2]
        /\ P # {} <=> \E j \in HeaderLines(f, n) : << t, Last(p) >> \in Places(Location(f, j))
    BY <1>1, <1>4, PositionsFrom
  <2>2. P \subseteq Nat BY <1>1, <1>4, LocationsAre, PositionsAre
  <2> HIDE DEF P
  <2>3. \A i \in HeaderLines(f, n) : << t, Last(p) >> \in Places(Location(f, i)) =>
          Location(f, i)[Len(p)][2] \in P
    BY <1>4, <2>1
  <2>4. \A y \in P : \E i \in HeaderLines(f, n) :
          << t, Last(p) >> \in Places(Location(f, i)) /\ y = Location(f, i)[Len(p)][2]
    BY <1>4, <2>1
  <2> HIDE DEF loc
  <2> DEFINE num(i) == Location(f, i)[Len(p)][2]
             meets(i) == << t, Last(p) >> \in Places(Location(f, i))
  <2>5. /\ \A i \in HeaderLines(f, n) : meets(i) => num(i) \in P
        /\ \A y \in P : \E i \in HeaderLines(f, n) : meets(i) /\ y = num(i)
    BY <2>3, <2>4
  <2> HIDE DEF num, meets
  <2>6. (\A i \in HeaderLines(f, n) : meets(i) => f[n + 1].kind = "tables" /\ num(i) > 0) <=>
        0 \notin P /\ (f[n + 1].kind = "table" => P = {})
    <3>1. CASE f[n + 1].kind = "table"
      <4>1. P = {} <=> \A i \in HeaderLines(f, n) : ~meets(i) BY <2>5
      <4> QED BY <3>1, <4>1
    <3>2. CASE f[n + 1].kind = "tables"
      <4>1. \A i \in HeaderLines(f, n) : meets(i) => num(i) \in Nat BY <2>2, <2>5
      <4>2. 0 \notin P <=> \A i \in HeaderLines(f, n) : meets(i) => num(i) # 0 BY <2>5
      <4> QED BY <3>2, <4>1, <4>2
    <3> QED BY <3>1, <3>2
  <2> QED BY <1>2, <2>6 DEF num, meets
<1>7. NoClash(f, n + 1) <=>
        /\ NoClash(f, n)
        /\ \A i \in SetLines(f, n) : Place(f, i) \notin Places(loc)
        /\ \A i \in HeaderLines(f, n) : LastPlace(loc) \in Places(Location(f, i)) =>
             f[n + 1].kind = "tables" /\ Location(f, i)[Len(p)][2] > 0
  <2>1. HeaderLines(f, (n + 1) - 1) = HeaderLines(f, n) OBVIOUS
  <2> QED BY <1>1, <1>3, <2>1 DEF NoClash, loc, p
<1> QED BY <1>5, <1>6, <1>7 DEF p, t

\* What a table holds at a key, by the positions of the tables there.
LEMMA NamedIs ==
  ASSUME NEW locs, IsTree(locs), NEW values, Placed(values, locs), NoTables(values),
         NEW t \in locs, NEW key \in Keys, NEW x \in Nat, LastIs(x, Positions(locs, t, key))
  PROVE  LET P     == Positions(locs, t, key)
             named == NamedAt(Tree(locs, values), t, key)
         IN  /\ named.is = "tables" <=> << t, key >> \notin DOMAIN values /\ 0 \notin P
             /\ named = Tables(0) <=> << t, key >> \notin DOMAIN values /\ P = {}
             /\ named.is = "tables" => named.size = x
             /\ P = {} => x = 0
<1> DEFINE d == Tree(locs, values)
           P == Positions(locs, t, key)
           named == NamedAt(d, t, key)
<1>1. /\ key \in DOMAIN d[t] <=> << t, key >> \in DOMAIN values \/ P # {}
      /\ key \in DOMAIN d[t] => d[t][key] =
           IF << t, key >> \in DOMAIN values THEN values[<< t, key >>] ELSE Stands(P)
  BY TreeIs DEF Stands
<1>2. named = IF << t, key >> \in DOMAIN values THEN values[<< t, key >>]
              ELSE IF P # {} THEN Stands(P) ELSE Tables(0)
  BY <1>1 DEF NamedAt
<1> HIDE DEF named, P
<1>3. Table.is = "table" /\ \A n : Tables(n).is = "tables" /\ Tables(n).size = n
  BY DEF Table, Tables
<1>4. CASE << t, key >> \in DOMAIN values
  <2>1. named.is \notin {"table", "tables"} BY <1>2, <1>4 DEF NoTables
  <2>2. named # Tables(0) BY <1>3, <2>1
  <2> QED BY <1>4, <2>1, <2>2 DEF named, P, LastIs
<1>5. CASE << t, key >> \notin DOMAIN values /\ P = {}
  <2>1. named = Tables(0) /\ x = 0 BY <1>2, <1>5 DEF LastIs, P
  <2> QED BY <1>3, <1>5, <2>1 DEF named, P
<1>6. CASE << t, key >> \notin DOMAIN values /\ P # {} /\ x = 0
  <2>1. P = {0} /\ named = Table BY <1>2, <1>6, StandsIs DEF P
  <2>2. Table # Tables(0) BY <1>3
  <2> QED BY <1>3, <1>6, <2>1, <2>2 DEF named, P
<1>7. CASE << t, key >> \notin DOMAIN values /\ P # {} /\ x # 0
  <2>1. 0 \notin P /\ named = Tables(x)
    <3>1. 0 \notin P BY <1>7 DEF LastIs, P
    <3> QED BY <1>2, <1>7, <3>1, StandsIs DEF P
  <2>2. Tables(x) # Tables(0) BY <1>3, <1>7
  <2> QED BY <1>3, <1>7, <2>1, <2>2 DEF named, P
<1> QED BY <1>4, <1>5, <1>6, <1>7

\* A table made by the parser is the table more that the lines have made.
LEMMA MakesIs ==
  ASSUME NEW locs, NEW values, NEW t, NEW key, NEW num, NEW new, NEW value,
         Makes(locs, values, t, key, num, new, value)
  PROVE  T!NewTable(Tree(locs, values), t, key, value, new) = Tree(locs \cup {new}, values)
<1>1. /\ IsTree(locs) /\ Placed(values, locs) /\ t \in locs /\ key \in Keys /\ num \in Nat
      /\ << t, key >> \notin DOMAIN values /\ new = Then(t, Seg(key, num)) /\ new \notin locs
      /\ value = Stands(Positions(locs, t, key) \cup {num})
  BY DEF Makes
<1> QED BY <1>1, NewTableIs

\* A header is refused exactly if it clashes; otherwise the tables are what the
\* lines so far say.
LEMMA HeaderRead ==
  ASSUME NEW f, Written(f), NEW n \in Nat, n + 1 \in DOMAIN f, f[n + 1].kind \in {"table", "tables"},
         Sync(f, n), NoClash(f, n),
         NEW values, Placed(values, Locations(f, n)), NoTables(values),
         DOMAIN values = {Place(f, i) : i \in SetLines(f, n)}
  PROVE  LET p     == f[n + 1].path
             way   == T!Ways(Tree(Locations(f, n), values), p)[Len(p) - 1]
             named == NamedAt(way.doc, way.at, Last(p))
             table == f[n + 1].kind = "table"
             num   == IF table THEN 0 ELSE named.size + 1
             value == IF table THEN Table ELSE Tables(num)
             new   == Append(way.at, << Last(p), num >>)
         IN  /\ NoClash(f, n + 1) <=>
                  way.ok /\ IF table THEN named = Tables(0) ELSE named.is = "tables"
             /\ NoClash(f, n + 1) =>
                  /\ new = Location(f, n + 1)
                  /\ T!NewTable(way.doc, way.at, Last(p), value, new) = Tree(Locations(f, n + 1), values)
                  /\ Sync(f, n + 1)
<1> DEFINE p     == f[n + 1].path
           last  == Last(p)
           k     == Len(p) - 1
           L     == Locations(f, n)
           R     == Reached(f, p, n, k)
           way   == T!Ways(Tree(L, values), p)[k]
           named == NamedAt(way.doc, way.at, last)
           table == f[n + 1].kind = "table"
           num   == IF table THEN 0 ELSE named.size + 1
           value == IF table THEN Table ELSE Tables(num)
           new   == Append(way.at, << last, num >>)
           t     == Live(f, Front(p), n)
           P     == Positions(L, t, last)
           x     == Position(f, p, n)
           met   == Met(f, p, n, k, values)
<1>1. /\ n \in 0..Len(f) /\ n + 1 \in 0..Len(f)
      /\ p \in Paths /\ p # << >> /\ Len(p) \in Nat \ {0}
      /\ Front(p) \in Paths /\ last \in Keys /\ p = Then(Front(p), last)
      /\ \A l : l \in Locations(f, n + 1) <=>
           l \in L \/ \E m \in 1..Len(p) : l = Live(f, SubSeq(p, 1, m), n + 1)
  BY HeaderIs
<1>2. k \in 0..Len(p) /\ SubSeq(p, 1, k) = Front(p) /\ k + 1 = Len(p) /\ p[Len(p)] = last
  <2>1. k \in 0..Len(p) /\ k + 1 = Len(p) BY <1>1
  <2>2. SubSeq(p, 1, k) = Front(p) /\ p[Len(p)] = last BY DEF Front, Last
  <2> QED BY <2>1, <2>2
<1>3. NoClash(f, n + 1) <=>
        ~Met(f, p, n, Len(p), values) /\ 0 \notin P /\ (table => P = {})
  BY HeaderClash
<1>4. Met(f, p, n, Len(p), values) <=> met \/ << t, last >> \in DOMAIN values
  <2> HIDE DEF p, t
  <2>1. \A m : m \in 1..Len(p) <=> m \in 1..k \/ m = Len(p) BY <1>1
  <2>2. << Live(f, SubSeq(p, 1, Len(p) - 1), n), p[Len(p)] >> = << t, last >> BY <1>2 DEF t
  <2> HIDE DEF k, last
  <2> QED BY <2>1, <2>2 DEF Met
<1>5. x \in Nat /\ LastIs(x, P)
  <2>1. x \in Nat BY <1>1, PositionStep
  <2>2. x = Position(f, Then(Front(p), last), n) BY <1>1
  <2> HIDE DEF p, last, x
  <2> QED BY <1>1, <2>1, <2>2 DEF Sync, LastIs
<1>6. IF met THEN ~way.ok ELSE IsTree(R) /\ Leads(way, Tree(R, values), t)
  <2>1. IF met THEN ~way.ok ELSE IsTree(R) /\ Leads(way, Tree(R, values), Live(f, SubSeq(p, 1, k), n))
    <3> HIDE DEF p, k
    <3> QED BY <1>1, <1>2, WaysRead
  <2> QED BY <1>2, <2>1
<1>8. ASSUME ~met
      PROVE  /\ t \in R /\ Positions(R, t, last) = P /\ IsTree(R) /\ Placed(values, R)
             /\ way.doc = Tree(R, values) /\ way.at = t /\ way.ok
  <2>1. IsTree(R) /\ way.doc = Tree(R, values) /\ way.at = t /\ way.ok BY <1>6, <1>8 DEF Leads
  <2>2. t \in R /\ Positions(R, t, last) = P
    <3>1. /\ Live(f, SubSeq(p, 1, k), n) \in R
          /\ Positions(R, Live(f, SubSeq(p, 1, k), n), last) = Positions(L, Live(f, SubSeq(p, 1, k), n), last)
      <4> HIDE DEF p, k, last
      <4> QED BY <1>1, <1>2, <2>1, ReachedPositions
    <3> QED BY <1>2, <3>1
  <2>3. Placed(values, R) BY DEF Placed, Reached
  <2> QED BY <2>1, <2>2, <2>3
<1> HIDE DEF way, R, L, t, x, last, p, met, k, P
<1>9. ASSUME ~met
      PROVE  /\ named.is = "tables" <=> << t, last >> \notin DOMAIN values /\ 0 \notin P
             /\ named = Tables(0) <=> << t, last >> \notin DOMAIN values /\ P = {}
             /\ named.is = "tables" => named.size = x
             /\ P = {} => x = 0
  <2>1. named = NamedAt(Tree(R, values), t, last) BY <1>8, <1>9
  <2>2. LastIs(x, Positions(R, t, last)) BY <1>5, <1>8, <1>9
  <2> HIDE DEF named
  <2>3. ASSUME NEW nm, nm = NamedAt(Tree(R, values), t, last)
        PROVE  /\ nm.is = "tables" <=> << t, last >> \notin DOMAIN values /\ 0 \notin Positions(R, t, last)
               /\ nm = Tables(0) <=> << t, last >> \notin DOMAIN values /\ Positions(R, t, last) = {}
               /\ nm.is = "tables" => nm.size = x
               /\ Positions(R, t, last) = {} => x = 0
    BY ZenonT(40), <1>1, <1>5, <1>8, <1>9, <2>2, <2>3, NamedIs
  <2> QED BY <1>8, <1>9, <2>1, <2>3
<1>10. ASSUME ~met
       PROVE  /\ NoClash(f, n + 1) <=>
                   way.ok /\ IF table THEN named = Tables(0) ELSE named.is = "tables"
              /\ NoClash(f, n + 1) =>
                   /\ new = Location(f, n + 1)
                   /\ T!NewTable(way.doc, way.at, last, value, new) = Tree(Locations(f, n + 1), values)
                   /\ Sync(f, n + 1)
  <2>1. NoClash(f, n + 1) <=>
          way.ok /\ IF table THEN named = Tables(0) ELSE named.is = "tables"
    BY <1>3, <1>4, <1>8, <1>9, <1>10
  <2>2. ASSUME NoClash(f, n + 1)
        PROVE  /\ new = Location(f, n + 1)
               /\ T!NewTable(way.doc, way.at, last, value, new) = Tree(Locations(f, n + 1), values)
               /\ Sync(f, n + 1)
    <3>1. /\ << t, last >> \notin DOMAIN values /\ 0 \notin P /\ (table => P = {})
          /\ (P = {} => x = 0)
      BY <1>3, <1>4, <1>9, <2>2
    <3>2. num = Position(f, p, n + 1) /\ num = (IF table THEN 0 ELSE x + 1)
      <4>1. Position(f, p, n + 1) = IF table THEN x ELSE x + 1
        <5>1. f[n + 1].path = p BY DEF p
        <5>2. Position(f, p, n + 1) =
              IF f[n + 1].kind = "tables" /\ f[n + 1].path = p THEN Position(f, p, n) + 1
              ELSE IF f[n + 1].kind = "tables" /\ IsStrictPrefix(f[n + 1].path, p) THEN 0
              ELSE Position(f, p, n)
          BY <1>1, PositionStep
        <5> QED BY <5>1, <5>2 DEF x
      <4>2. ~table => named.size = x BY <1>9, <1>10, <2>1, <2>2
      <4> QED BY <3>1, <4>1, <4>2
    <3>3. num \in Nat BY <1>5, <3>2
    <3>4. new = Then(t, Seg(last, num)) BY <1>8, <1>10 DEF Then, Seg
    <3>5. Location(f, n + 1) = Live(f, p, n + 1) /\ Live(f, Front(p), n + 1) = Live(f, Front(p), n)
      <4>1. n + 1 \in HeaderLines(f, n + 1) /\ \A m \in 1..Len(p) : Live(f, SubSeq(p, 1, m - 1), n + 1) = Live(f, SubSeq(p, 1, m - 1), n)
        BY HeaderPlaces DEF p
      <4>2. Location(f, n + 1) = Live(f, p, n + 1) BY <1>1, <4>1, LocationIs DEF p
      <4>3. Len(p) \in 1..Len(p) /\ SubSeq(p, 1, Len(p) - 1) = Front(p) BY <1>1 DEF Front
      <4> QED BY <4>1, <4>2, <4>3
    <3>6. Live(f, p, n + 1) = Then(t, Seg(last, num))
      <4>1. Live(f, Then(Front(p), last), n + 1) =
              Then(Live(f, Front(p), n + 1), Seg(last, Position(f, Then(Front(p), last), n + 1)))
        BY <1>1, LiveThen, n + 1 \in Nat
      <4> QED BY <1>1, <3>2, <3>5, <4>1 DEF t
    <3>7. new \notin R
      <4>1. num \notin P BY <1>5, <3>1, <3>2 DEF LastIs
      <4>2. t \in Locs /\ IsTree(R) BY <1>8, <1>10 DEF IsTree
      <4>3. \A y : y \in Positions(R, t, last) <=> y \in Nat /\ Then(t, Seg(last, y)) \in R
        BY <1>1, <4>2, PositionsAre
      <4> QED BY <1>8, <1>10, <3>3, <3>4, <4>1, <4>3
    <3>8. value = Stands(Positions(R, t, last) \cup {num})
      <4>1. CASE table BY <1>8, <1>10, <3>1, <4>1 DEF Stands
      <4>2. CASE ~table
        <5>1. LastIs(num, P \cup {num}) /\ num # 0 BY <1>5, <3>1, <3>2, <4>2 DEF LastIs
        <5>2. ASSUME NEW ps, ps = P \cup {num}
              PROVE  Stands(ps) = Tables(num)
          BY <3>3, <5>1, <5>2, StandsIs
        <5> QED BY <1>8, <1>10, <4>2, <5>2
      <4> QED BY <4>1, <4>2
    <3> HIDE DEF new, value, num
    <3>9. T!NewTable(Tree(R, values), t, last, value, new) = Tree(R \cup {new}, values)
      <4>1. Makes(R, values, t, last, num, new, value)
        BY <1>1, <1>8, <1>10, <3>1, <3>3, <3>4, <3>7, <3>8 DEF Makes
      <4> QED BY <4>1, MakesIs
    <3>10. R \cup {new} = Locations(f, n + 1)
      <4>1. \A m \in 1..k : Live(f, SubSeq(p, 1, m), n + 1) = Live(f, SubSeq(p, 1, m), n)
        <5> SUFFICES ASSUME NEW m \in 1..k
                     PROVE  Live(f, SubSeq(p, 1, m), n + 1) = Live(f, SubSeq(p, 1, m), n)
          OBVIOUS
        <5>1. m + 1 \in 1..Len(p) /\ (m + 1) - 1 = m BY <1>1 DEF k
        <5>2. \A i \in 1..Len(p) : Live(f, SubSeq(p, 1, i - 1), n + 1) = Live(f, SubSeq(p, 1, i - 1), n)
          BY HeaderPlaces DEF p
        <5> QED BY <5>1, <5>2
      <4>2. \A m : m \in 1..Len(p) <=> m \in 1..k \/ m = Len(p) BY <1>1 DEF k
      <4>3. Live(f, SubSeq(p, 1, Len(p)), n + 1) = new
        <5>1. SubSeq(p, 1, Len(p)) = p BY <1>1, SubSeqFull DEF Paths
        <5> QED BY <3>4, <3>6, <5>1
      <4>4. \A l : l \in R \cup {new} <=> l \in L \/ (\E m \in 1..k : l = Live(f, SubSeq(p, 1, m), n)) \/ l = new
        BY DEF R, L, Reached
      <4>5. \A l : l \in Locations(f, n + 1) <=> l \in R \cup {new} BY <1>1, <4>1, <4>2, <4>3, <4>4
      <4> QED BY <4>5
    <3>11. Sync(f, n + 1) BY <3>1, SyncHeader DEF P, L, t, last, p
    <3>12. new = Location(f, n + 1) BY <3>4, <3>5, <3>6
    <3>13. way.doc = Tree(R, values) /\ way.at = t BY <1>8, <1>10
    <3> QED BY <3>9, <3>10, <3>11, <3>12, <3>13, Zenon
  <2> HIDE DEF named, table, num, value, new
  <2> QED BY <2>1, <2>2
<1> HIDE DEF named, table, num, value, new
<1>11. /\ NoClash(f, n + 1) <=>
                  way.ok /\ IF table THEN named = Tables(0) ELSE named.is = "tables"
       /\ NoClash(f, n + 1) =>
                  /\ new = Location(f, n + 1)
                  /\ T!NewTable(way.doc, way.at, last, value, new) = Tree(Locations(f, n + 1), values)
                  /\ Sync(f, n + 1)
  <2>1. CASE met
    <3>1. ~NoClash(f, n + 1) /\ ~way.ok BY <1>3, <1>4, <1>6, <2>1
    <3> QED BY <3>1
  <2> QED BY <1>10, <2>1
<1> QED BY <1>11 DEF p, last, k, L, way, named, table, num, value, new

-----------------------------------------------------------------------------
(***************************************************************************)
(* Reading arrays.                                                         *)
(***************************************************************************)

\* The recursive function of Scans obeys its own equations.
LEMMA ScansIs ==
  ASSUME NEW S, NEW a, NEW toks \in Seq(S)
  PROVE  T!Scans(a, toks) = [k \in 0..Len(toks) |->
           IF k = 0 THEN a ELSE T!Scan(T!Scans(a, toks)[k - 1], toks[k])]
<1> DEFINE Is(f, n) == f = [i \in 0..n |->
             IF i = 0 THEN a ELSE T!Scan(f[i - 1], toks[i])]
           Ns == {n \in Nat : \E f : Is(f, n)}
<1>1. 0 \in Ns
  <2>1. Is([i \in 0..0 |-> a], 0) OBVIOUS
  <2> QED BY <2>1
<1>2. ASSUME NEW n \in Nat, n \in Ns
      PROVE  n + 1 \in Ns
  <2>1. PICK f : Is(f, n) BY <1>2
  <2> DEFINE g == [i \in 0..(n + 1) |->
               IF i = n + 1 THEN T!Scan(f[n], toks[i]) ELSE f[i]]
  <2>2. \A i \in 0..(n + 1) :
          g[i] = IF i = 0 THEN a ELSE T!Scan(g[i - 1], toks[i])
    <3> SUFFICES ASSUME NEW i \in 0..(n + 1)
                 PROVE g[i] = IF i = 0 THEN a ELSE T!Scan(g[i - 1], toks[i])
      OBVIOUS
    <3>1. CASE i = n + 1 BY <3>1
    <3>2. CASE i # n + 1
      <4>1. i \in 0..n /\ g[i] = f[i] /\ (i # 0 => i - 1 \in 0..n /\ g[i - 1] = f[i - 1]) BY <3>2
      <4> HIDE DEF g
      <4> QED BY <2>1, <4>1
    <3> QED BY <3>1, <3>2
  <2>3. g = [i \in 0..(n + 1) |-> g[i]] OBVIOUS
  <2> HIDE DEF g
  <2>4. Is(g, n + 1) BY <2>2, <2>3
  <2>5. \E h : Is(h, n + 1) BY <2>4
  <2> HIDE DEF Is
  <2> QED BY <2>5
<1>3. Len(toks) \in Nat BY LenProperties
<1>4. \E f : Is(f, Len(toks))
  <2> HIDE DEF Ns, Is
  <2>1. Nat \subseteq Ns BY <1>1, <1>2, SetInduction
  <2> QED BY <1>3, <2>1 DEF Ns
<1>5. T!Scans(a, toks) = CHOOSE f : Is(f, Len(toks)) BY DEF T!Scans
<1> HIDE DEF Is
<1>6. Is(T!Scans(a, toks), Len(toks)) BY <1>4, <1>5
<1> QED BY <1>6 DEF Is

\* Brackets and commas are no scalars, and the parser's tokens are those of the text.
LEMMA Tokens ==
  /\ Open # Close /\ Open # Comma /\ Close # Comma
  /\ ~IsScalar(Open) /\ ~IsScalar(Close) /\ ~IsScalar(Comma)
  /\ T!Open = Open /\ T!Close = Close /\ T!Comma = Comma /\ \A tok : T!IsScalar(tok) <=> IsScalar(tok)
BY DEF Open, Close, Comma, IsScalar, T!Open, T!Close, T!Comma, T!IsScalar

\* The scalar after the first n.
LEMMA ScalarsThen ==
  ASSUME NEW v, NEW n \in Nat
  PROVE  Append(ScalarsOf(v, n), v[2 * (n + 1)]) = ScalarsOf(v, n + 1)
<1> DEFINE s == ScalarsOf(v, n)
           u == ScalarsOf(v, n + 1)
           S == {v[2 * k] : k \in 1..(n + 1)}
           e == v[2 * (n + 1)]
<1>1. /\ s \in Seq(S) /\ Len(s) = n /\ \A k \in 1..n : s[k] = v[2 * k]
      /\ u \in Seq(S) /\ Len(u) = n + 1 /\ \A k \in 1..(n + 1) : u[k] = v[2 * k]
      /\ e \in S
  <2>1. /\ s \in [1..n -> S] /\ \A k \in 1..n : s[k] = v[2 * k]
        /\ u \in [1..(n + 1) -> S] /\ \A k \in 1..(n + 1) : u[k] = v[2 * k]
        /\ e \in S
    BY DEF ScalarsOf
  <2> HIDE DEF s, u, S, e
  <2> QED BY <2>1
<1> HIDE DEF s, u, S
<1>2. u[n + 1] = e BY <1>1
<1> HIDE DEF e
<1>3. /\ Append(s, e) \in Seq(S) /\ Len(Append(s, e)) = n + 1
      /\ \A k \in 1..n : Append(s, e)[k] = s[k]
      /\ Append(s, e)[n + 1] = e
  BY <1>1, AppendProperties
<1>4. \A k \in 1..(n + 1) : Append(s, e)[k] = u[k]
  <2>1. \A k \in 1..(n + 1) : k \in 1..n \/ k = n + 1 OBVIOUS
  <2> QED BY <1>1, <1>2, <1>3, <2>1
<1>5. Append(s, e) = u BY <1>1, <1>3, <1>4, SeqEqual
<1> QED BY <1>5 DEF s, u, e

\* One token.
LEMMA ScanStep ==
  ASSUME NEW S, NEW v \in Seq(S), NEW m \in Nat, m < Len(v), v[1] = Open, NEW a,
         OpenAt(a, v, m) \/ ClosedAt(a, v, m) \/ BadAt(a, v)
  PROVE  LET b == T!Scan(a, v[m + 1]) IN
         /\ OpenAt(b, v, m + 1) \/ ClosedAt(b, v, m + 1) \/ BadAt(b, v)
         /\ b.line = a.line /\ b.key = a.key
<1> DEFINE tok == v[m + 1]
           b == T!Scan(a, tok)
           bad == [a EXCEPT !.state = "bad"]
<1> SUFFICES /\ OpenAt(b, v, m + 1) \/ ClosedAt(b, v, m + 1) \/ BadAt(b, v)
             /\ b.line = a.line /\ b.key = a.key
  OBVIOUS
<1>1. Len(v) \in Nat /\ m \in Nat /\ m + 1 \in 1..Len(v) BY LenProperties
<1>2. ArrayShape(a) BY DEF OpenAt, ClosedAt, BadAt
<1>3. ArrayShape(bad) /\ bad.state = "bad" /\ bad.line = a.line /\ bad.key = a.key
  BY <1>2 DEF ArrayShape
<1>4. ASSUME NEW k \in 2..Len(v), ~Turn(v, k), ~(v[k] = Close /\ k = Len(v))
      PROVE  ~WellFormed(v)
  BY <1>4, Tokens DEF WellFormed, Turn
<1> HIDE DEF tok, bad, b
<1>5. CASE BadAt(a, v)
  <2>1. b = bad BY <1>5 DEF T!Scan, BadAt, bad, b
  <2> QED BY <1>3, <1>5, <2>1 DEF BadAt
<1>6. CASE ClosedAt(a, v, m)
  <2>1. b = bad BY <1>6 DEF T!Scan, ClosedAt, bad, b
  <2>2. m \in 2..Len(v) /\ v[m] = Close /\ m # Len(v) BY <1>1, <1>6 DEF ClosedAt
  <2>3. ~WellFormed(v) BY <1>4, <2>2, Tokens DEF Turn
  <2> QED BY <1>3, <2>1, <2>3 DEF BadAt
<1>7. CASE OpenAt(a, v, m)
  <2>0. /\ a.state = "open" /\ m >= 1 /\ \A k \in 2..m : Turn(v, k)
        /\ a.items = ScalarsOf(v, m \div 2)
        /\ a.needComma <=> m % 2 = 0
        /\ m + 1 \in 2..Len(v) /\ m + 1 >= 2 /\ (m + 1) - 1 = m
    BY <1>1, <1>7 DEF OpenAt
  <2>a. \A k \in 2..(m + 1) : k \in 2..m \/ k = m + 1 BY <2>0
  <2>1. CASE tok = Close
    <3>1. b = [a EXCEPT !.state = "closed"] BY <2>0, <2>1, Tokens DEF T!Scan, b
    <3>2. ArrayShape(b) /\ b.state = "closed" /\ b.line = a.line /\ b.key = a.key /\ b.items = a.items
      BY <1>2, <3>1 DEF ArrayShape
    <3>3. ClosedAt(b, v, m + 1)
      <4>1. v[m + 1] = Close /\ ScalarsOf(v, ((m + 1) - 1) \div 2) = b.items
        BY <2>0, <2>1, <3>2 DEF tok
      <4>2. \A k \in 2..((m + 1) - 1) : Turn(v, k) BY <2>0
      <4> HIDE DEF b
      <4> QED BY <2>0, <3>2, <4>1, <4>2 DEF ClosedAt
    <3> QED BY <3>2, <3>3
  <2>2. CASE tok # Close /\ a.needComma /\ tok = Comma
    <3>1. b = [a EXCEPT !.needComma = FALSE] BY <2>0, <2>2, Tokens DEF T!Scan, b
    <3>2. ArrayShape(b) /\ b.state = "open" /\ b.line = a.line /\ b.key = a.key /\ b.items = a.items /\ ~b.needComma
      BY <1>2, <2>0, <3>1 DEF ArrayShape
    <3>3. (m + 1) % 2 = 1 /\ (m + 1) \div 2 = m \div 2 BY <2>0, <2>2, EvenOdd
    <3>4. Turn(v, m + 1) BY <2>2, <3>3 DEF Turn, tok
    <3>5. OpenAt(b, v, m + 1) BY <2>0, <2>a, <3>2, <3>3, <3>4 DEF OpenAt
    <3> QED BY <3>2, <3>5
  <2>3. CASE tok # Close /\ ~a.needComma /\ IsScalar(tok)
    <3>1. b = [a EXCEPT !.items = Append(@, tok), !.needComma = TRUE]
      BY <2>0, <2>3, Tokens DEF T!Scan, b
    <3>2. /\ ArrayShape(b) /\ b.state = "open" /\ b.line = a.line /\ b.key = a.key
          /\ b.items = Append(a.items, tok) /\ b.needComma
      <4> DEFINE items == Append(a.items, tok)
                 c == [a EXCEPT !.items = items]
      <4> HIDE DEF items
      <4>1. /\ ArrayShape(c) /\ c.line = a.line /\ c.key = a.key /\ c.state = a.state
            /\ c.items = items
        BY <1>2 DEF ArrayShape
      <4>2. b = [c EXCEPT !.needComma = TRUE] BY <1>2, <3>1 DEF items, ArrayShape
      <4> HIDE DEF c
      <4>3. /\ ArrayShape(b) /\ b.state = c.state /\ b.line = c.line /\ b.key = c.key
            /\ b.items = c.items /\ b.needComma
        BY <4>1, <4>2 DEF ArrayShape
      <4> QED BY <2>0, <4>1, <4>3 DEF items
    <3>3. (m + 1) % 2 = 0 /\ (m + 1) \div 2 = m \div 2 + 1 /\ m \div 2 \in Nat /\ 2 * (m \div 2 + 1) = m + 1
      BY <2>0, <2>3, EvenOdd
    <3>4. Turn(v, m + 1) BY <2>3, <3>3 DEF Turn, tok
    <3>5. b.items = ScalarsOf(v, (m + 1) \div 2)
      <4>1. Append(ScalarsOf(v, m \div 2), v[2 * (m \div 2 + 1)]) = ScalarsOf(v, m \div 2 + 1)
        BY <3>3, ScalarsThen
      <4>2. v[2 * (m \div 2 + 1)] = tok BY <3>3 DEF tok
      <4> QED BY <2>0, <3>2, <3>3, <4>1, <4>2
    <3>6. OpenAt(b, v, m + 1) BY <2>0, <2>a, <3>2, <3>3, <3>4, <3>5 DEF OpenAt
    <3> QED BY <3>2, <3>6
  <2>4. CASE tok # Close /\ ~(a.needComma /\ tok = Comma) /\ ~(~a.needComma /\ IsScalar(tok))
    <3>1. b = bad BY <2>0, <2>4, Tokens DEF T!Scan, bad, b
    <3>4. ~Turn(v, m + 1)
      <4>1. CASE a.needComma
        <5>1. (m + 1) % 2 = 1 BY <2>0, <4>1, EvenOdd
        <5> QED BY <2>4, <4>1, <5>1 DEF Turn, tok
      <4>2. CASE ~a.needComma
        <5>1. (m + 1) % 2 = 0 BY <2>0, <4>2, EvenOdd
        <5> QED BY <2>4, <4>2, <5>1 DEF Turn, tok
      <4> QED BY <4>1, <4>2
    <3>5. ~WellFormed(v) BY <1>4, <2>0, <2>4, <3>4 DEF tok
    <3> QED BY <1>3, <3>1, <3>5 DEF BadAt
  <2> QED BY <2>1, <2>2, <2>3, <2>4
<1> QED BY <1>5, <1>6, <1>7

\* All tokens of a line.
LEMMA ScansRead ==
  ASSUME NEW S, NEW v \in Seq(S), NEW toks \in Seq(S), NEW m \in Nat, v[1] = Open,
         After(v, m, toks),
         NEW a, OpenAt(a, v, m)
  PROVE  LET b == T!Scans(a, toks)[Len(toks)]
         IN  b.line = a.line /\ b.key = a.key /\ ArrayShape(b) /\ ArrayReads(b, v)
<1> DEFINE scan == T!Scans(a, toks)
           Good(k) == LET b == scan[k] IN
                      /\ OpenAt(b, v, m + k) \/ ClosedAt(b, v, m + k) \/ BadAt(b, v)
                      /\ b.line = a.line /\ b.key = a.key
           Ns == {k \in Nat : k <= Len(toks) => Good(k)}
           b == scan[Len(toks)]
<1>0. Len(v) = m + Len(toks) /\ \A k \in 1..Len(toks) : v[m + k] = toks[k] BY DEF After
<1> SUFFICES b.line = a.line /\ b.key = a.key /\ ArrayShape(b) /\ ArrayReads(b, v) OBVIOUS
<1>1. Len(toks) \in Nat /\ Len(v) \in Nat BY LenProperties
<1>2. scan = [k \in 0..Len(toks) |-> IF k = 0 THEN a ELSE T!Scan(scan[k - 1], toks[k])] BY ScansIs
<1> HIDE DEF scan
<1>3. 0 \in Ns
  <2>1. scan[0] = a /\ m + 0 = m BY <1>1, <1>2
  <2> QED BY <2>1
<1>4. ASSUME NEW k \in Nat, k \in Ns
      PROVE  k + 1 \in Ns
  <2>1. SUFFICES ASSUME k + 1 <= Len(toks)
                 PROVE  Good(k + 1)
    OBVIOUS
  <2>2. Good(k) BY <1>1, <1>4, <2>1
  <2>3. k + 1 \in 0..Len(toks) /\ k + 1 # 0 /\ (k + 1) - 1 = k /\ k + 1 \in 1..Len(toks)
    BY <1>1, <2>1
  <2>4. scan[k + 1] = T!Scan(scan[k], toks[k + 1]) BY <1>2, <2>3
  <2>5. toks[k + 1] = v[(m + k) + 1] /\ m + k \in Nat /\ m + k < Len(v) /\ m + (k + 1) = (m + k) + 1
    <3>1. toks[k + 1] = v[m + (k + 1)] BY <1>0, <2>3
    <3> QED BY <1>0, <1>1, <2>1, <3>1
  <2> DEFINE c == scan[k]
             l == m + k
  <2>6. OpenAt(c, v, l) \/ ClosedAt(c, v, l) \/ BadAt(c, v) BY <2>2
  <2>7. l \in Nat /\ l < Len(v) BY <2>5
  <2> HIDE DEF c, l, b
  <2>8. LET d == T!Scan(c, v[l + 1]) IN
        /\ OpenAt(d, v, l + 1) \/ ClosedAt(d, v, l + 1) \/ BadAt(d, v)
        /\ d.line = c.line /\ d.key = c.key
    <3>1. ASSUME NEW e, OpenAt(e, v, l) \/ ClosedAt(e, v, l) \/ BadAt(e, v)
          PROVE  LET d == T!Scan(e, v[l + 1]) IN
                 /\ OpenAt(d, v, l + 1) \/ ClosedAt(d, v, l + 1) \/ BadAt(d, v)
                 /\ d.line = e.line /\ d.key = e.key
      BY <2>7, <3>1, ScanStep
    <3> QED BY <2>6, <3>1
  <2>9. scan[k + 1] = T!Scan(c, v[l + 1]) /\ m + (k + 1) = l + 1 BY <2>4, <2>5 DEF c, l
  <2> QED BY <2>2, <2>8, <2>9 DEF c
<1>5. Good(Len(toks))
  <2> HIDE DEF Ns
  <2>1. Nat \subseteq Ns BY <1>3, <1>4, SetInduction
  <2> HIDE DEF Good
  <2> QED BY <1>1, <2>1 DEF Ns
<1>6. /\ OpenAt(b, v, Len(v)) \/ ClosedAt(b, v, Len(v)) \/ BadAt(b, v)
      /\ b.line = a.line /\ b.key = a.key
  BY <1>0, <1>5
<1> HIDE DEF b
<1>7. Len(v) >= 1 /\ Len(v) \in Nat /\ v # << >>
  <2>1. m >= 1 BY DEF OpenAt
  <2>2. Len(v) >= 1 BY <1>0, <1>1, <2>1
  <2> QED BY <1>1, <2>2, EmptySeq
<1>8. CASE OpenAt(b, v, Len(v))
  <2>1. \A k \in 2..Len(v) : Turn(v, k) BY <1>8 DEF OpenAt
  <2>2. WellFormed(v) BY <1>7, <2>1 DEF WellFormed, Turn
  <2>3. ~Contains(v, Close)
    <3>1. \A k \in 1..Len(v) : k = 1 \/ k \in 2..Len(v) BY <1>7
    <3>2. \A k \in 1..Len(v) : v[k] # Close BY <2>1, <3>1, Tokens DEF Turn
    <3> QED BY <3>2 DEF Contains
  <2> QED BY <1>6, <1>8, <2>2, <2>3 DEF OpenAt, ArrayReads
<1>9. CASE ClosedAt(b, v, Len(v))
  <2>1. Len(v) >= 2 /\ v[Len(v)] = Close /\ \A k \in 2..(Len(v) - 1) : Turn(v, k)
    BY <1>9 DEF ClosedAt
  <2>2. WellFormed(v)
    <3>1. \A k \in 2..Len(v) : k \in 2..(Len(v) - 1) \/ k = Len(v) BY <1>7
    <3> QED BY <1>7, <2>1, <3>1 DEF WellFormed, Turn
  <2>3. Contains(v, Close)
    <3>1. Len(v) \in 1..Len(v) BY <1>7
    <3> QED BY <2>1, <3>1 DEF Contains
  <2>4. Array(b.items) = ValueOf(v) BY <1>9, <2>1 DEF ClosedAt, ValueOf
  <2> QED BY <1>6, <1>9, <2>2, <2>3, <2>4 DEF ClosedAt, ArrayReads
<1>10. CASE BadAt(b, v) BY <1>6, <1>10 DEF BadAt, ArrayReads
<1> QED BY <1>6, <1>8, <1>9, <1>10

-----------------------------------------------------------------------------
(***************************************************************************)
(* What is assigned, line by line.                                         *)
(***************************************************************************)

\* A line holds tokens, and only that of an assignment or an array any.
LEMMA ToksAre ==
  ASSUME NEW f, Written(f)
  PROVE  /\ Len(f) \in Nat /\ DOMAIN f = 1..Len(f)
         /\ \A k \in DOMAIN f : Toks(f[k]) \in Seq(TokensOf(f))
         /\ \A k \in DOMAIN f : f[k].kind \notin {"set", "more"} => Toks(f[k]) = << >>
         /\ \A k \in DOMAIN f : f[k].kind \in {"set", "more"} => Toks(f[k]) = f[k].toks
<1>1. Len(f) \in Nat /\ DOMAIN f = 1..Len(f) BY LenProperties DEF Written
<1>2. ASSUME NEW k \in DOMAIN f
      PROVE  Toks(f[k]) \in Seq(TokensOf(f))
  <2>1. ToSet(Toks(f[k])) \subseteq TokensOf(f) BY DEF TokensOf
  <2>2. CASE f[k].kind \in {"set", "more"}
    <3>1. Toks(f[k]) = f[k].toks /\ f[k].toks \in Seq(ToSet(f[k].toks)) BY <2>2 DEF Toks, Written
    <3>2. Toks(f[k]) \in Seq(ToSet(Toks(f[k]))) BY <3>1
    <3> DEFINE s == Toks(f[k])
               S == ToSet(s)
               U == TokensOf(f)
    <3>3. s \in Seq(S) /\ S \subseteq U BY <2>1, <3>2
    <3> HIDE DEF s, S, U
    <3>4. s \in Seq(U) BY <3>3
    <3> QED BY <3>4 DEF s, U
  <2>3. CASE f[k].kind \notin {"set", "more"}
    <3>1. Toks(f[k]) = << >> BY <2>3 DEF Toks
    <3> QED BY <3>1, EmptySeq
  <2> QED BY <2>2, <2>3
<1> QED BY <1>1, <1>2 DEF Toks

\* The recursive function of ValueTexts obeys its own equations.
LEMMA TextsAre ==
  ASSUME NEW f, Written(f), NEW i
  PROVE  /\ ValueText(f, i, 0) = << >>
         /\ \A k \in 0..Len(f) : k + 1 \in 0..Len(f) =>
              ValueText(f, i, k + 1) =
                IF k + 1 = i \/ InArrayOf(f, i, k + 1) THEN ValueText(f, i, k) \o Toks(f[k + 1])
                ELSE ValueText(f, i, k)
<1> DEFINE On(s, k) == IF k = i \/ InArrayOf(f, i, k) THEN s \o Toks(f[k]) ELSE s
           Is(g, n) == g = [k \in 0..n |-> IF k = 0 THEN << >> ELSE On(g[k - 1], k)]
           Ns == {n \in Nat : \E g : Is(g, n)}
<1>0. ValueTexts(f, i) = CHOOSE g : Is(g, Len(f)) BY DEF ValueTexts
<1> HIDE DEF On
<1>1. 0 \in Ns
  <2>1. Is([k \in 0..0 |-> << >>], 0) OBVIOUS
  <2> QED BY <2>1
<1>2. ASSUME NEW n \in Nat, n \in Ns
      PROVE  n + 1 \in Ns
  <2>1. PICK g : Is(g, n) BY <1>2
  <2> DEFINE h == [k \in 0..(n + 1) |-> IF k = n + 1 THEN On(g[n], k) ELSE g[k]]
  <2>2. \A k \in 0..(n + 1) : h[k] = IF k = 0 THEN << >> ELSE On(h[k - 1], k)
    <3> SUFFICES ASSUME NEW k \in 0..(n + 1)
                 PROVE  h[k] = IF k = 0 THEN << >> ELSE On(h[k - 1], k)
      OBVIOUS
    <3>1. CASE k = n + 1 BY <3>1
    <3>2. CASE k # n + 1
      <4>1. k \in 0..n /\ h[k] = g[k] /\ (k # 0 => k - 1 \in 0..n /\ h[k - 1] = g[k - 1]) BY <3>2
      <4> HIDE DEF h
      <4> QED BY <2>1, <4>1
    <3> QED BY <3>1, <3>2
  <2>3. h = [k \in 0..(n + 1) |-> h[k]] OBVIOUS
  <2> HIDE DEF h
  <2>4. Is(h, n + 1) BY <2>2, <2>3
  <2>5. \E g1 : Is(g1, n + 1) BY <2>4
  <2> HIDE DEF Is
  <2> QED BY <2>5
<1>3. Len(f) \in Nat BY ToksAre
<1>4. \E g : Is(g, Len(f))
  <2> HIDE DEF Ns, Is
  <2>1. Nat \subseteq Ns BY <1>1, <1>2, SetInduction
  <2> QED BY <1>3, <2>1 DEF Ns
<1> HIDE DEF Is
<1>6. Is(ValueTexts(f, i), Len(f)) BY <1>0, <1>4
<1>7. ValueTexts(f, i) = [k \in 0..Len(f) |-> IF k = 0 THEN << >> ELSE On(ValueTexts(f, i)[k - 1], k)]
  BY <1>6 DEF Is
<1>8. ValueText(f, i, 0) = << >>
  <2>1. 0 \in 0..Len(f) BY <1>3
  <2> QED BY <1>7, <2>1 DEF ValueText
<1>9. ASSUME NEW k \in 0..Len(f), k + 1 \in 0..Len(f)
      PROVE  ValueText(f, i, k + 1) = On(ValueText(f, i, k), k + 1)
  <2>1. k + 1 # 0 /\ (k + 1) - 1 = k BY <1>3
  <2> QED BY <1>7, <1>9, <2>1 DEF ValueText
<1> QED BY <1>8, <1>9 DEF On

\* Lines outside the array of line i add nothing.
LEMMA TextStep ==
  ASSUME NEW f, Written(f), NEW i \in DOMAIN f, NEW n \in Nat, n + 1 \in DOMAIN f
  PROVE  /\ i <= n /\ InArrayOf(f, i, n + 1) => ValueText(f, i, n + 1) = ValueText(f, i, n) \o Toks(f[n + 1])
         /\ i <= n /\ ~InArrayOf(f, i, n + 1) => ValueText(f, i, n + 1) = ValueText(f, i, n)
         /\ i = n + 1 => ValueText(f, i, n + 1) = Toks(f[i])
<1>1. Len(f) \in Nat /\ DOMAIN f = 1..Len(f) /\ Toks(f[i]) \in Seq(TokensOf(f)) BY ToksAre
<1>2. /\ ValueText(f, i, 0) = << >>
      /\ \A k \in 0..Len(f) : k + 1 \in 0..Len(f) =>
           ValueText(f, i, k + 1) =
             IF k + 1 = i \/ InArrayOf(f, i, k + 1) THEN ValueText(f, i, k) \o Toks(f[k + 1])
             ELSE ValueText(f, i, k)
  BY TextsAre
<1> DEFINE Ns == {k \in Nat : k < i => ValueText(f, i, k) = << >>}
<1>3. 0 \in Ns BY <1>2
<1>4. ASSUME NEW k \in Nat, k \in Ns
      PROVE  k + 1 \in Ns
  <2>1. SUFFICES ASSUME k + 1 < i
                 PROVE  ValueText(f, i, k + 1) = << >>
    OBVIOUS
  <2>2. k \in 0..Len(f) /\ k + 1 \in 0..Len(f) /\ k + 1 # i /\ k < i BY <1>1, <2>1
  <2>3. ~InArrayOf(f, i, k + 1) BY <1>1, <2>1 DEF InArrayOf
  <2> QED BY <1>2, <1>4, <2>2, <2>3
<1>5. n \in Ns
  <2> HIDE DEF Ns
  <2> QED BY <1>3, <1>4, SetInduction
<1>6. n \in 0..Len(f) /\ n + 1 \in 0..Len(f) BY <1>1
<1>7. i <= n => n + 1 # i BY <1>1
<1>8. i = n + 1 => ValueText(f, i, n + 1) = Toks(f[i])
  <2> SUFFICES ASSUME i = n + 1
               PROVE  ValueText(f, i, n + 1) = Toks(f[i])
    OBVIOUS
  <2>1. ValueText(f, i, n) = << >> BY <1>1, <1>5
  <2>2. ValueText(f, i, n + 1) = << >> \o Toks(f[i]) BY <1>2, <1>6, <2>1
  <2>3. << >> \o Toks(f[i]) = Toks(f[i])
    <3> DEFINE s == Toks(f[i])
               S == TokensOf(f)
    <3>1. s \in Seq(S) BY <1>1
    <3> HIDE DEF s, S
    <3>2. << >> \o s = s BY <3>1, ConcatEmptySeq
    <3> QED BY <3>2 DEF s
  <2> QED BY <2>2, <2>3
<1> QED BY <1>2, <1>6, <1>7, <1>8

\* An array goes on until a line closes it.
LEMMA ArrayStep ==
  ASSUME NEW f, Written(f), NEW n \in Nat, n + 1 \in DOMAIN f
  PROVE  /\ \A j \in 1..n : InArrayOf(f, j, n + 2) <=> InArrayOf(f, j, n + 1) /\ ~Contains(Toks(f[n + 1]), Close)
         /\ InArrayOf(f, n + 1, n + 2) <=> BeginsArray(f[n + 1]) /\ ~Contains(Toks(f[n + 1]), Close)
<1>1. ASSUME NEW j \in 1..n
      PROVE  InArrayOf(f, j, n + 2) <=> InArrayOf(f, j, n + 1) /\ ~Contains(Toks(f[n + 1]), Close)
  <2>1. \A k : k \in j..((n + 2) - 1) <=> k \in j..((n + 1) - 1) \/ k = n + 1 OBVIOUS
  <2>2. j < n + 2 /\ j < n + 1 OBVIOUS
  <2> QED BY <2>1, <2>2 DEF InArrayOf
<1>2. \A k : k \in (n + 1)..((n + 2) - 1) <=> k = n + 1 OBVIOUS
<1>3. n + 1 < n + 2 OBVIOUS
<1> QED BY <1>1, <1>2, <1>3 DEF InArrayOf

\* A token is in one of two texts.
LEMMA ContainsEither ==
  ASSUME NEW S, NEW s \in Seq(S), NEW t \in Seq(S), NEW e
  PROVE  Contains(s \o t, e) <=> Contains(s, e) \/ Contains(t, e)
<1> DEFINE u == s \o t
<1>1. /\ u \in Seq(S) /\ Len(u) = Len(s) + Len(t) /\ Len(s) \in Nat /\ Len(t) \in Nat
      /\ \A i \in 1..(Len(s) + Len(t)) : u[i] = IF i <= Len(s) THEN s[i] ELSE t[i - Len(s)]
  BY ConcatProperties, LenProperties
<1> HIDE DEF u
<1>2. ASSUME NEW i \in 1..Len(u), u[i] = e
      PROVE  Contains(s, e) \/ Contains(t, e)
  <2>1. CASE i <= Len(s)
    <3>1. i \in 1..Len(s) /\ s[i] = e BY <1>1, <1>2, <2>1
    <3> QED BY <3>1 DEF Contains
  <2>2. CASE ~(i <= Len(s))
    <3>1. i - Len(s) \in 1..Len(t) /\ t[i - Len(s)] = e BY <1>1, <1>2, <2>2
    <3> QED BY <3>1 DEF Contains
  <2> QED BY <2>1, <2>2
<1>3. ASSUME NEW i \in 1..Len(s), s[i] = e
      PROVE  Contains(u, e)
  <2>1. i \in 1..Len(u) /\ u[i] = e BY <1>1, <1>3
  <2> QED BY <2>1 DEF Contains
<1>4. ASSUME NEW i \in 1..Len(t), t[i] = e
      PROVE  Contains(u, e)
  <2>1. i + Len(s) \in 1..Len(u) /\ ~(i + Len(s) <= Len(s)) /\ (i + Len(s)) - Len(s) = i BY <1>1
  <2>2. u[i + Len(s)] = e BY <1>1, <1>4, <2>1
  <2> QED BY <2>1, <2>2 DEF Contains
<1>5. Contains(u, e) <=> Contains(s, e) \/ Contains(t, e) BY <1>2, <1>3, <1>4 DEF Contains
<1> QED BY <1>5 DEF u

\* An assignment's text begins on its line.
LEMMA TextBegins ==
  ASSUME NEW f, Written(f), NEW i \in DOMAIN f, f[i].kind = "set"
  PROVE  TextHolds(f, i, i)
<1>1. /\ Len(f) \in Nat /\ DOMAIN f = 1..Len(f) /\ Toks(f[i]) \in Seq(TokensOf(f))
      /\ Toks(f[i]) = f[i].toks
  BY ToksAre
<1>2. PICK n \in Nat : i = n + 1
  <2>1. i - 1 \in Nat /\ i = (i - 1) + 1 BY <1>1
  <2> QED BY <2>1
<1>3. ValueText(f, i, i) = Toks(f[i]) BY <1>2, TextStep
<1>4. InArrayOf(f, i, i + 1) <=> BeginsArray(f[i]) /\ ~Contains(Toks(f[i]), Close)
  <2>1. i + 1 = n + 2 BY <1>2
  <2>2. InArrayOf(f, n + 1, n + 2) <=> BeginsArray(f[n + 1]) /\ ~Contains(Toks(f[n + 1]), Close)
    BY <1>2, ArrayStep
  <2> QED BY <1>2, <2>1, <2>2
<1>5. BeginsArray(f[i]) => Len(Toks(f[i])) >= 1 /\ Toks(f[i])[1] = Open
  <2>1. BeginsArray(f[i]) => Toks(f[i]) # << >> /\ Toks(f[i])[1] = Open BY <1>1 DEF BeginsArray
  <2>2. Toks(f[i]) # << >> => Len(Toks(f[i])) >= 1
    <3> DEFINE s == Toks(f[i])
               S == TokensOf(f)
    <3>1. s \in Seq(S) BY <1>1
    <3> HIDE DEF s, S
    <3>2. s # << >> => Len(s) >= 1 BY <3>1, EmptySeq, LenProperties
    <3> QED BY <3>2 DEF s
  <2> QED BY <2>1, <2>2
<1> QED BY <1>1, <1>3, <1>4, <1>5 DEF TextHolds

\* A line more adds its tokens to the array it lies in, and to no other text.
LEMMA TextGrows ==
  ASSUME NEW f, Written(f), NEW n \in Nat, n + 1 \in DOMAIN f, NEW i \in 1..n, i \in DOMAIN f,
         TextHolds(f, i, n)
  PROVE  TextHolds(f, i, n + 1)
<1> DEFINE v == ValueText(f, i, n)
           w == ValueText(f, i, n + 1)
           t == Toks(f[n + 1])
           S == TokensOf(f)
<1>1. v \in Seq(S) /\ t \in Seq(S) BY ToksAre DEF TextHolds
<1>2. InArrayOf(f, i, n + 2) <=> InArrayOf(f, i, n + 1) /\ ~Contains(t, Close) BY ArrayStep
<1>3. i <= n /\ (n + 1) + 1 = n + 2 OBVIOUS
<1>4. CASE InArrayOf(f, i, n + 1)
  <2>1. w = v \o t BY <1>3, <1>4, TextStep
  <2>2. BeginsArray(f[i]) /\ Len(v) >= 1 /\ v[1] = Open /\ ~Contains(v, Close) BY <1>4 DEF TextHolds
  <2>3. Contains(v \o t, Close) <=> Contains(v, Close) \/ Contains(t, Close)
    <3> HIDE DEF v, t, S
    <3> QED BY <1>1, ContainsEither
  <2>4. v \o t \in Seq(S) /\ Len(v \o t) >= 1 /\ (v \o t)[1] = Open
    <3> HIDE DEF v, t, S
    <3>1. /\ v \o t \in Seq(S) /\ Len(v \o t) = Len(v) + Len(t) /\ Len(v) \in Nat /\ Len(t) \in Nat
          /\ \A k \in 1..(Len(v) + Len(t)) : (v \o t)[k] = IF k <= Len(v) THEN v[k] ELSE t[k - Len(v)]
      BY <1>1, ConcatProperties, LenProperties
    <3>2. 1 \in 1..(Len(v) + Len(t)) /\ 1 <= Len(v) BY <2>2, <3>1
    <3>3. (v \o t)[1] = v[1] BY <3>1, <3>2
    <3> QED BY <2>2, <3>1, <3>2, <3>3
  <2> HIDE DEF v, t, S
  <2> QED BY <1>2, <1>3, <1>4, <2>1, <2>2, <2>3, <2>4 DEF TextHolds, w, S, t
<1>5. CASE ~InArrayOf(f, i, n + 1)
  <2>1. w = v BY <1>3, <1>5, TextStep
  <2> QED BY <1>2, <1>3, <1>5, <2>1 DEF TextHolds
<1> QED BY <1>4, <1>5

\* What each assignment's text holds after n lines: whether it is complete tells
\* whether the array goes on.
LEMMA TextIs ==
  ASSUME NEW f, Written(f), NEW n \in 0..Len(f), NEW i \in SetLines(f, n)
  PROVE  /\ TextHolds(f, i, n) /\ i \in DOMAIN f /\ i \in 1..n /\ f[i].kind = "set"
         /\ WellFormed(ValueText(f, i, n)) => (Complete(ValueText(f, i, n)) <=> ~InArrayOf(f, i, n + 1))
<1>1. /\ Len(f) \in Nat /\ DOMAIN f = 1..Len(f) /\ i \in DOMAIN f /\ i \in 1..n /\ i \in Nat /\ f[i].kind = "set"
      /\ Toks(f[i]) = f[i].toks
  BY ToksAre DEF SetLines
<1> DEFINE Ns == {k \in Nat : i <= k /\ k <= Len(f) => TextHolds(f, i, k)}
<1>2. 0 \in Ns BY <1>1
<1>3. ASSUME NEW k \in Nat, k \in Ns
      PROVE  k + 1 \in Ns
  <2>1. SUFFICES ASSUME i <= k + 1, k + 1 <= Len(f)
                 PROVE  TextHolds(f, i, k + 1)
    OBVIOUS
  <2>2. CASE i = k + 1 BY <1>1, <2>2, TextBegins
  <2>3. CASE i # k + 1
    <3>1. i \in 1..k /\ k + 1 \in DOMAIN f /\ TextHolds(f, i, k) BY <1>1, <1>3, <2>1, <2>3
    <3> QED BY <1>1, <3>1, TextGrows
  <2> QED BY <2>2, <2>3
<1>4. TextHolds(f, i, n)
  <2>1. n \in Nat /\ i <= n /\ n <= Len(f) BY <1>1
  <2>2. Nat \subseteq Ns
    <3> HIDE DEF Ns
    <3> QED BY <1>2, <1>3, SetInduction
  <2> QED BY <2>1, <2>2
<1>5. ASSUME WellFormed(ValueText(f, i, n))
      PROVE  Complete(ValueText(f, i, n)) <=> ~InArrayOf(f, i, n + 1)
  <2> DEFINE v == ValueText(f, i, n)
  <2>1. CASE BeginsArray(f[i])
    <3>1. v[1] = Open /\ (Contains(v, Close) <=> ~InArrayOf(f, i, n + 1))
      BY <1>4, <2>1 DEF TextHolds
    <3> HIDE DEF v
    <3>2. Complete(v) <=> Contains(v, Close) BY <3>1 DEF Complete
    <3> QED BY <3>1, <3>2 DEF v
  <2>2. CASE ~BeginsArray(f[i])
    <3>1. v = f[i].toks /\ ~InArrayOf(f, i, n + 1) BY <1>1, <1>4, <2>2 DEF TextHolds
    <3>2. ~(v # << >> /\ v[1] = Open) BY <1>1, <2>2, <3>1 DEF BeginsArray
    <3>3. WellFormed(v) BY <1>5
    <3> HIDE DEF v
    <3>4. Len(v) = 1 /\ IsScalar(v[1]) BY <3>2, <3>3 DEF WellFormed
    <3>5. Complete(v) BY <3>4, Tokens DEF Complete
    <3> QED BY <3>1, <3>5 DEF v
  <2> QED BY <2>1, <2>2
<1> QED BY <1>1, <1>4, <1>5

\* One array at most is unfinished.
LEMMA OneArray ==
  ASSUME NEW f, Written(f), NEW n \in 0..Len(f), Readable(f, n), NEW i \in 1..n, NEW j \in 1..n,
         InArrayOf(f, i, n + 1), InArrayOf(f, j, n + 1)
  PROVE  i = j /\ i \in SetLines(f, n)
<1>1. ASSUME NEW k \in 1..n, NEW l \in 1..n, InArrayOf(f, k, n + 1), InArrayOf(f, l, n + 1), k < l
      PROVE  FALSE
  <2>1. InArrayOf(f, k, l)
    <3>1. \A x \in k..(l - 1) : x \in k..((n + 1) - 1) OBVIOUS
    <3> QED BY <1>1, <3>1 DEF InArrayOf
  <2>2. Within(f, l)
    <3>1. k \in 1..(l - 1) BY <1>1
    <3> QED BY <2>1, <3>1 DEF Within
  <2>3. f[l].kind = "set" BY <1>1 DEF InArrayOf, BeginsArray
  <2> QED BY <2>2, <2>3 DEF Readable, Fits
<1>2. f[i].kind = "set" BY DEF InArrayOf, BeginsArray
<1>3. i < j \/ j < i \/ i = j OBVIOUS
<1> QED BY <1>1, <1>2, <1>3 DEF SetLines

\* The header above, line by line.
LEMMA AboveStep ==
  ASSUME NEW f, Written(f), NEW n \in Nat, n + 1 \in DOMAIN f
  PROVE  /\ f[n + 1].kind \notin {"table", "tables"} =>
              Above(f, n + 2) = Above(f, n + 1) /\ TableAt(f, n + 2) = TableAt(f, n + 1)
         /\ f[n + 1].kind \in {"table", "tables"} =>
              Above(f, n + 2) = n + 1 /\ TableAt(f, n + 2) = Location(f, n + 1)
<1>1. (n + 2) - 1 = n + 1 /\ (n + 1) - 1 = n OBVIOUS
<1>2. CASE f[n + 1].kind \notin {"table", "tables"}
  <2>1. HeaderLines(f, n + 1) = HeaderLines(f, n) BY <1>2, SyncStays
  <2> QED BY <1>1, <1>2, <2>1 DEF Above, TableAt
<1>3. CASE f[n + 1].kind \in {"table", "tables"}
  <2>1. HeaderLines(f, n + 1) = HeaderLines(f, n) \cup {n + 1} BY <1>3, HeaderIs
  <2>2. HeaderLines(f, n) \subseteq 1..n BY DEF HeaderLines
  <2> DEFINE ps == HeaderLines(f, n + 1) \cup {0}
             m  == n + 1
  <2>3. m \in ps /\ ps \subseteq 0..m /\ m \in Nat BY <2>1, <2>2
  <2> HIDE DEF ps, m
  <2>4. Max(ps) = m BY <2>3, MaxIs
  <2>5. Above(f, n + 2) = n + 1 /\ n + 1 # 0 BY <1>1, <2>4 DEF Above, ps, m
  <2> QED BY <1>3, <2>5 DEF TableAt
<1> QED BY <1>2, <1>3

\* A line stands under a header, or under none.
LEMMA AboveIs ==
  ASSUME NEW f, Written(f)
  PROVE  \A n \in 0..Len(f) : Above(f, n + 1) \in HeaderLines(f, n) \cup {0}
<1>1. Len(f) \in Nat /\ DOMAIN f = 1..Len(f) BY ToksAre
<1> DEFINE Ns == {n \in Nat : n <= Len(f) => Above(f, n + 1) \in HeaderLines(f, n) \cup {0}}
<1>2. 0 \in Ns
  <2> DEFINE ps == HeaderLines(f, 0) \cup {0}
             z  == 0
  <2>1. (0 + 1) - 1 = 0 OBVIOUS
  <2>2. z \in ps /\ ps \subseteq 0..z /\ z \in Nat BY DEF HeaderLines
  <2>3. Above(f, 0 + 1) = Max(ps) BY <2>1 DEF Above
  <2> HIDE DEF ps, z
  <2>4. Max(ps) = z BY <2>2, MaxIs
  <2> QED BY <2>3, <2>4 DEF z
<1>3. ASSUME NEW n \in Nat, n \in Ns
      PROVE  n + 1 \in Ns
  <2>1. SUFFICES ASSUME n + 1 <= Len(f)
                 PROVE  Above(f, (n + 1) + 1) \in HeaderLines(f, n + 1) \cup {0}
    OBVIOUS
  <2>2. (n + 1) + 1 = n + 2 /\ n + 1 \in DOMAIN f /\ n <= Len(f) BY <1>1, <2>1
  <2>3. Above(f, n + 1) \in HeaderLines(f, n) \cup {0} BY <1>3, <2>2
  <2>4. CASE f[n + 1].kind \notin {"table", "tables"}
    <3>1. HeaderLines(f, n + 1) = HeaderLines(f, n) BY <2>2, <2>4, SyncStays
    <3>2. Above(f, n + 2) = Above(f, n + 1) BY <2>2, <2>4, AboveStep
    <3> QED BY <2>2, <2>3, <3>1, <3>2
  <2>5. CASE f[n + 1].kind \in {"table", "tables"}
    <3>1. HeaderLines(f, n + 1) = HeaderLines(f, n) \cup {n + 1} BY <2>2, <2>5, HeaderIs
    <3>2. Above(f, n + 2) = n + 1 BY <2>2, <2>5, AboveStep
    <3> QED BY <2>2, <3>1, <3>2
  <2> QED BY <2>4, <2>5
<1>4. Nat \subseteq Ns
  <2> HIDE DEF Ns
  <2> QED BY <1>2, <1>3, SetInduction
<1> QED BY <1>1, <1>4

\* What is assigned on a line goes to a table that is there.
LEMMA TableIsThere ==
  ASSUME NEW f, Written(f), NEW n \in 0..Len(f), NEW i \in 1..(n + 1)
  PROVE  TableAt(f, i) \in Locations(f, n)
<1>1. Len(f) \in Nat /\ DOMAIN f = 1..Len(f) BY ToksAre
<1>2. i - 1 \in 0..Len(f) /\ (i - 1) + 1 = i /\ i - 1 <= n BY <1>1
<1>3. Above(f, i) \in HeaderLines(f, i - 1) \cup {0}
  <2>1. Above(f, (i - 1) + 1) \in HeaderLines(f, i - 1) \cup {0} BY <1>2, AboveIs
  <2> QED BY <1>2, <2>1
<1>4. HeaderLines(f, i - 1) \subseteq HeaderLines(f, n) BY <1>2 DEF HeaderLines
<1>5. CASE Above(f, i) = 0
  <2>1. Root \in Locations(f, n) BY LocationsAre
  <2> QED BY <1>5, <2>1 DEF TableAt
<1>6. CASE Above(f, i) # 0
  <2> DEFINE j == Above(f, i)
  <2>1. j \in HeaderLines(f, n) BY <1>3, <1>4, <1>6
  <2>2. TableAt(f, i) = Location(f, j) BY <1>6 DEF TableAt
  <2> HIDE DEF j
  <2>3. f[j].path \in Paths /\ Len(f[j].path) \in Nat \ {0} /\ Location(f, j) = Live(f, f[j].path, j) /\ j \in Nat
    BY <2>1, LocationIs
  <2>4. SubSeq(f[j].path, 1, Len(f[j].path)) = f[j].path
    <3> DEFINE q == f[j].path
    <3>1. q \in Paths BY <2>3
    <3> HIDE DEF q
    <3>2. SubSeq(q, 1, Len(q)) = q BY <3>1, SubSeqFull DEF Paths
    <3> QED BY <3>2 DEF q
  <2>5. Len(f[j].path) \in 1..Len(f[j].path) BY <2>3
  <2>6. Location(f, j) = Live(f, SubSeq(f[j].path, 1, Len(f[j].path)), j) BY <2>3, <2>4
  <2>7. Location(f, j) \in Locations(f, n) BY <2>1, <2>5, <2>6, LocationsAre
  <2> QED BY <2>2, <2>7
<1> QED BY <1>5, <1>6

\* Their values, at their places.
LEMMA ValuesAre ==
  ASSUME NEW f, Written(f), NEW n \in 0..Len(f), NoClash(f, n)
  PROVE  /\ DOMAIN Values(f, n) = {Place(f, i) : i \in Full(f, n)}
         /\ \A i \in Full(f, n) : Values(f, n)[Place(f, i)] = ValueOf(ValueText(f, i, n))
         /\ Values(f, n) = [p \in DOMAIN Values(f, n) |-> Values(f, n)[p]]
<1> DEFINE value(p) == ValueOf(ValueText(f, CHOOSE i \in Full(f, n) : Place(f, i) = p, n))
<1>1. Values(f, n) = [p \in {Place(f, i) : i \in Full(f, n)} |-> value(p)] BY DEF Values, Full
<1>2. ASSUME NEW i \in Full(f, n)
      PROVE  (CHOOSE j \in Full(f, n) : Place(f, j) = Place(f, i)) = i
  <2>1. \A j \in Full(f, n) : Place(f, j) = Place(f, i) => j = i BY DEF Full, NoClash
  <2> QED BY <2>1
<1>3. \A i \in Full(f, n) : value(Place(f, i)) = ValueOf(ValueText(f, i, n)) BY <1>2
<1> HIDE DEF value
<1> QED BY <1>1, <1>3

\* They are no tables, and stand in tables.
LEMMA ValuesPlaced ==
  ASSUME NEW f, Written(f), NEW n \in 0..Len(f), Readable(f, n)
  PROVE  Placed(Values(f, n), Locations(f, n)) /\ NoTables(Values(f, n))
<1>1. Len(f) \in Nat /\ DOMAIN f = 1..Len(f) BY ToksAre
<1>2. NoClash(f, n) /\ \A i \in SetLines(f, n) : WellFormed(ValueText(f, i, n)) BY DEF Readable
<1>3. /\ DOMAIN Values(f, n) = {Place(f, i) : i \in Full(f, n)}
      /\ \A i \in Full(f, n) : Values(f, n)[Place(f, i)] = ValueOf(ValueText(f, i, n))
  BY <1>2, ValuesAre
<1>4. ASSUME NEW i \in Full(f, n)
      PROVE  /\ Place(f, i) = << TableAt(f, i), f[i].key >> /\ TableAt(f, i) \in Locations(f, n) /\ f[i].key \in Keys
             /\ ValueOf(ValueText(f, i, n)).is \notin {"table", "tables"}
  <2>1. i \in SetLines(f, n) /\ i \in 1..n /\ i \in DOMAIN f /\ f[i].kind = "set"
    BY <1>1 DEF Full, SetLines
  <2>2. i \in 1..(n + 1) BY <2>1
  <2>3. TableAt(f, i) \in Locations(f, n) BY <2>2, TableIsThere
  <2>4. f[i].key \in Keys BY <2>1 DEF Written
  <2> DEFINE v == ValueText(f, i, n)
  <2>5. WellFormed(v) /\ Complete(v) BY <1>2, <2>1 DEF Full
  <2> HIDE DEF v
  <2>6. ValueOf(v).is \notin {"table", "tables"}
    <3>1. CASE Len(v) = 1
      <4>1. IsScalar(v[1])
        <5>1. CASE v[1] = Open
          <6>1. Contains(v, Close) BY <2>5, <5>1 DEF Complete
          <6>2. v[1] = Close BY <3>1, <6>1 DEF Contains
          <6> QED BY <5>1, <6>2, Tokens
        <5>2. CASE v[1] # Open BY <2>5, <5>2 DEF WellFormed
        <5> QED BY <5>1, <5>2
      <4>2. ValueOf(v) = v[1] BY <3>1 DEF ValueOf
      <4> QED BY <4>1, <4>2 DEF IsScalar
    <3>2. CASE Len(v) # 1
      <4>1. ValueOf(v).is = "array" BY <3>2 DEF ValueOf, Array
      <4> QED BY <4>1
    <3> QED BY <3>1, <3>2
  <2> QED BY <2>3, <2>4, <2>6 DEF v, Place
<1>5. ASSUME NEW p \in DOMAIN Values(f, n)
      PROVE  /\ p = << p[1], p[2] >> /\ p[1] \in Locations(f, n) /\ p[2] \in Keys
             /\ Values(f, n)[p].is \notin {"table", "tables"}
  <2>1. PICK i \in Full(f, n) : p = Place(f, i) BY <1>3
  <2>2. /\ p = << TableAt(f, i), f[i].key >> /\ TableAt(f, i) \in Locations(f, n) /\ f[i].key \in Keys
        /\ Values(f, n)[p] = ValueOf(ValueText(f, i, n))
    BY <1>3, <1>4, <2>1
  <2>3. p[1] = TableAt(f, i) /\ p[2] = f[i].key BY <2>2
  <2> QED BY <1>4, <2>2, <2>3
<1> QED BY <1>5 DEF Placed, NoTables

\* One line more.
LEMMA LineIs ==
  ASSUME NEW f, Written(f), NEW n \in Nat, n + 1 \in DOMAIN f
  PROVE  /\ n \in 0..Len(f) /\ n + 1 \in 0..Len(f) /\ Len(f) \in Nat /\ DOMAIN f = 1..Len(f)
         /\ f[n + 1].kind # "set" => SetLines(f, n + 1) = SetLines(f, n)
         /\ f[n + 1].kind = "set" => SetLines(f, n + 1) = SetLines(f, n) \cup {n + 1}
         /\ \A i \in SetLines(f, n) : i \in 1..n /\ i \in DOMAIN f /\ i <= n /\ i # n + 1
         /\ n + 1 \notin SetLines(f, n)
         /\ \A i : i \in 1..(n + 1) <=> i \in 1..n \/ i = n + 1
<1>1. Len(f) \in Nat /\ DOMAIN f = 1..Len(f) BY ToksAre
<1>2. \A i : i \in 1..(n + 1) <=> i \in 1..n \/ i = n + 1 OBVIOUS
<1>3. /\ f[n + 1].kind # "set" => SetLines(f, n + 1) = SetLines(f, n)
      /\ f[n + 1].kind = "set" => SetLines(f, n + 1) = SetLines(f, n) \cup {n + 1}
  BY <1>2 DEF SetLines
<1>4. \A i \in SetLines(f, n) : i \in 1..n BY DEF SetLines
<1> QED BY <1>1, <1>2, <1>3, <1>4

\* The text of an assignment that is over stays, and so does any on a line
\* without tokens.
LEMMA TextsStay ==
  ASSUME NEW f, Written(f), NEW n \in Nat, n + 1 \in DOMAIN f, NEW i \in SetLines(f, n),
         ~InArrayOf(f, i, n + 1) \/ f[n + 1].kind \notin {"set", "more"}
  PROVE  ValueText(f, i, n + 1) = ValueText(f, i, n)
<1>1. i \in DOMAIN f /\ i <= n /\ n \in 0..Len(f) BY LineIs
<1>2. CASE ~InArrayOf(f, i, n + 1) BY <1>1, <1>2, TextStep
<1>3. CASE InArrayOf(f, i, n + 1) /\ f[n + 1].kind \notin {"set", "more"}
  <2> DEFINE v == ValueText(f, i, n)
             S == TokensOf(f)
  <2>1. v \in Seq(S) BY <1>1, TextIs DEF TextHolds
  <2>2. Toks(f[n + 1]) = << >> BY <1>3, ToksAre
  <2>3. ValueText(f, i, n + 1) = v \o << >> BY <1>1, <1>3, <2>2, TextStep
  <2> HIDE DEF v, S
  <2>4. v \o << >> = v BY <2>1, ConcatEmptySeq
  <2> QED BY <2>3, <2>4 DEF v
<1> QED BY <1>2, <1>3

\* Nothing more is assigned in full.
LEMMA ValuesSame ==
  ASSUME NEW f, Written(f), NEW n \in Nat, n + 1 \in DOMAIN f, NoClash(f, n), NoClash(f, n + 1),
         Full(f, n + 1) = Full(f, n),
         \A i \in Full(f, n) : ValueText(f, i, n + 1) = ValueText(f, i, n)
  PROVE  Values(f, n + 1) = Values(f, n)
<1>1. n \in 0..Len(f) /\ n + 1 \in 0..Len(f) BY LineIs
<1> DEFINE v == Values(f, n)
           w == Values(f, n + 1)
<1>2. /\ DOMAIN v = {Place(f, i) : i \in Full(f, n)} /\ v = [p \in DOMAIN v |-> v[p]]
      /\ \A i \in Full(f, n) : v[Place(f, i)] = ValueOf(ValueText(f, i, n))
  BY <1>1, ValuesAre
<1>3. /\ DOMAIN w = {Place(f, i) : i \in Full(f, n)} /\ w = [p \in DOMAIN w |-> w[p]]
      /\ \A i \in Full(f, n) : w[Place(f, i)] = ValueOf(ValueText(f, i, n + 1))
  BY <1>1, ValuesAre
<1> HIDE DEF v, w
<1>4. \A p \in DOMAIN v : w[p] = v[p] BY <1>2, <1>3
<1>5. w = v BY <1>2, <1>3, <1>4
<1> QED BY <1>5 DEF v, w

\* One more is.
LEMMA ValuesOne ==
  ASSUME NEW f, Written(f), NEW n \in Nat, n + 1 \in DOMAIN f, NoClash(f, n), NoClash(f, n + 1),
         NEW l \in SetLines(f, n + 1), l \notin Full(f, n), Full(f, n + 1) = Full(f, n) \cup {l},
         \A i \in Full(f, n) : ValueText(f, i, n + 1) = ValueText(f, i, n)
  PROVE  /\ Place(f, l) \notin DOMAIN Values(f, n)
         /\ Values(f, n + 1) = Added(Values(f, n), Place(f, l), ValueOf(ValueText(f, l, n + 1)))
<1>1. n \in 0..Len(f) /\ n + 1 \in 0..Len(f) BY LineIs
<1> DEFINE v == Values(f, n)
           w == Values(f, n + 1)
           place == Place(f, l)
           value == ValueOf(ValueText(f, l, n + 1))
<1>2. /\ DOMAIN v = {Place(f, i) : i \in Full(f, n)}
      /\ \A i \in Full(f, n) : v[Place(f, i)] = ValueOf(ValueText(f, i, n))
  BY <1>1, ValuesAre
<1>3. /\ DOMAIN w = {Place(f, i) : i \in Full(f, n) \cup {l}} /\ w = [p \in DOMAIN w |-> w[p]]
      /\ \A i \in Full(f, n) \cup {l} : w[Place(f, i)] = ValueOf(ValueText(f, i, n + 1))
  BY <1>1, ValuesAre
<1>4. \A i \in Full(f, n) : Place(f, i) # place
  <2>1. \A i \in Full(f, n) : i \in SetLines(f, n + 1) /\ i # l BY DEF Full
  <2> QED BY <2>1 DEF NoClash
<1> HIDE DEF v, w
<1>5. place \notin DOMAIN v BY <1>2, <1>4
<1>6. DOMAIN w = DOMAIN v \cup {place} BY <1>2, <1>3
<1>7. \A p \in DOMAIN v : w[p] = v[p] BY <1>2, <1>3
<1>8. w[place] = value BY <1>3
<1> HIDE DEF place, value
<1>9. w = [p \in DOMAIN v \cup {place} |-> IF p = place THEN value ELSE v[p]]
  <2>1. \A p \in DOMAIN v \cup {place} : w[p] = IF p = place THEN value ELSE v[p]
    BY <1>5, <1>7, <1>8
  <2> QED BY <1>3, <1>6, <2>1
<1> QED BY <1>5, <1>9 DEF v, w, place, value, Added

\* It is put at its key.
LEMMA PutIs ==
  ASSUME NEW d, NEW t \in DOMAIN d, NEW key, NEW value, d = [l \in DOMAIN d |-> d[l]]
  PROVE  T!Put(d, t, key, value) = Filled(DOMAIN d, d, t, key, value)
BY DEF T!Put, T!With, Filled

\* A value that is put in the tables.
LEMMA TreePutIs ==
  ASSUME NEW locs, IsTree(locs), NEW values, Placed(values, locs), NEW t \in locs, NEW key \in Keys,
         << t, key >> \notin DOMAIN values, Positions(locs, t, key) = {}, NEW value,
         NEW more, more = Added(values, << t, key >>, value)
  PROVE  Tree(locs, more) = T!Put(Tree(locs, values), t, key, value)
<1> DEFINE d == Tree(locs, values)
<1>1. Tree(locs, more) = Filled(locs, d, t, key, value) BY TreePut
<1>2. DOMAIN d = locs /\ d = [l \in locs |-> d[l]] BY TreeIs
<1> HIDE DEF d
<1>3. t \in DOMAIN d /\ d = [l \in DOMAIN d |-> d[l]] BY <1>2
<1>4. T!Put(d, t, key, value) = Filled(locs, d, t, key, value) BY <1>2, <1>3, PutIs
<1> QED BY <1>1, <1>4 DEF d

\* A key of a table is free if nothing that is assigned and no table stands there.
LEMMA KeyFree ==
  ASSUME NEW f, Written(f), NEW n \in 0..Len(f), NEW t \in Locs, NEW key \in Keys
  PROVE  Positions(Locations(f, n), t, key) = {} <=>
           \A j \in HeaderLines(f, n) : << t, key >> \notin Places(Location(f, j))
<1>1. Positions(Locations(f, n), t, key) # {} <=>
        \E j \in HeaderLines(f, n) : << t, key >> \in Places(Location(f, j))
  BY PositionsFrom
<1> QED BY <1>1

\* An assignment that is over.
LEMMA Stored ==
  ASSUME NEW f, Written(f), NEW n \in Nat, n + 1 \in DOMAIN f, Readable(f, n), NoClash(f, n + 1),
         f[n + 1].kind \notin {"table", "tables"},
         NEW l \in SetLines(f, n + 1), l \notin Full(f, n), Full(f, n + 1) = Full(f, n) \cup {l},
         \A i \in Full(f, n) : ValueText(f, i, n + 1) = ValueText(f, i, n)
  PROVE  Document(f, n + 1) =
           T!Put(Document(f, n), TableAt(f, l), f[l].key, ValueOf(ValueText(f, l, n + 1)))
<1>1. n \in 0..Len(f) /\ n + 1 \in 0..Len(f) /\ l \in 1..(n + 1) /\ l \in DOMAIN f /\ f[l].kind = "set"
  <2>1. l \in 1..(n + 1) /\ f[l].kind = "set" BY DEF SetLines
  <2> QED BY <2>1, LineIs
<1>2. NoClash(f, n) BY DEF Readable
<1> DEFINE locs   == Locations(f, n)
           values == Values(f, n)
           t      == TableAt(f, l)
           key    == f[l].key
           value  == ValueOf(ValueText(f, l, n + 1))
<1>3. HeaderLines(f, n + 1) = HeaderLines(f, n) /\ Locations(f, n + 1) = locs BY SyncStays
<1>4. /\ Place(f, l) = << t, key >> /\ << t, key >> \notin DOMAIN values
      /\ Values(f, n + 1) = Added(values, << t, key >>, value)
  <2>1. Place(f, l) = << t, key >> BY DEF Place
  <2> QED BY <1>2, <2>1, ValuesOne
<1>5. t \in locs /\ IsTree(locs) /\ locs \subseteq Locs /\ key \in Keys
  <2>1. t \in locs BY <1>1, TableIsThere
  <2>2. IsTree(locs) BY <1>1, LocationsAre
  <2>3. key \in Keys BY <1>1 DEF Written
  <2> QED BY <2>1, <2>2, <2>3 DEF IsTree
<1>6. Positions(locs, t, key) = {}
  <2>1. \A j \in HeaderLines(f, n) : Place(f, l) \notin Places(Location(f, j)) BY <1>3 DEF NoClash
  <2>2. t \in Locs /\ \A j \in HeaderLines(f, n) : << t, key >> \notin Places(Location(f, j))
    BY <1>4, <1>5, <2>1
  <2> QED BY <1>1, <1>5, <2>2, KeyFree
<1>7. Document(f, n + 1) = Tree(locs, Values(f, n + 1)) /\ Document(f, n) = Tree(locs, values)
  BY <1>3 DEF Document
<1>8. Placed(values, locs) BY <1>1, ValuesPlaced
<1> DEFINE more == Values(f, n + 1)
<1> HIDE DEF locs, values, t, key, value, more
<1>9. more = Added(values, << t, key >>, value) BY <1>4 DEF more
<1>10. Tree(locs, more) = T!Put(Tree(locs, values), t, key, value)
  BY <1>4, <1>5, <1>6, <1>8, <1>9, TreePutIs
<1> QED BY <1>7, <1>10 DEF more, t, key, value

-----------------------------------------------------------------------------
(***************************************************************************)
(* Reading line by line.                                                   *)
(***************************************************************************)

\* Every assignment is over but that of the array the next line lies in.
LEMMA FullIs ==
  ASSUME NEW f, Written(f), NEW n \in 0..Len(f), Readable(f, n)
  PROVE  /\ ~Within(f, n + 1) => Full(f, n) = SetLines(f, n) /\ \A i \in 1..n : ~InArrayOf(f, i, n + 1)
         /\ \A l \in 1..n : InArrayOf(f, l, n + 1) =>
              /\ Within(f, n + 1) /\ l \in SetLines(f, n) /\ Full(f, n) = SetLines(f, n) \ {l}
              /\ \A i \in 1..n : i # l => ~InArrayOf(f, i, n + 1)
<1>1. \A i \in SetLines(f, n) : i \in Full(f, n) <=> ~InArrayOf(f, i, n + 1)
  <2>1. \A i \in SetLines(f, n) : WellFormed(ValueText(f, i, n)) BY DEF Readable
  <2>2. \A i \in SetLines(f, n) : Complete(ValueText(f, i, n)) <=> ~InArrayOf(f, i, n + 1)
    BY <2>1, TextIs
  <2> QED BY <2>2 DEF Full
<1>2. Full(f, n) \subseteq SetLines(f, n) /\ SetLines(f, n) \subseteq 1..n BY DEF Full, SetLines
<1>3. Within(f, n + 1) <=> \E j \in 1..n : InArrayOf(f, j, n + 1)
  <2>1. (n + 1) - 1 = n OBVIOUS
  <2> QED BY <2>1 DEF Within
<1>4. ~Within(f, n + 1) => Full(f, n) = SetLines(f, n) /\ \A i \in 1..n : ~InArrayOf(f, i, n + 1)
  BY <1>1, <1>2, <1>3
<1>5. ASSUME NEW l \in 1..n, InArrayOf(f, l, n + 1)
      PROVE  /\ Within(f, n + 1) /\ l \in SetLines(f, n) /\ Full(f, n) = SetLines(f, n) \ {l}
             /\ \A i \in 1..n : i # l => ~InArrayOf(f, i, n + 1)
  <2>1. l \in SetLines(f, n) /\ \A i \in 1..n : i # l => ~InArrayOf(f, i, n + 1) BY <1>5, OneArray
  <2> QED BY <1>1, <1>2, <1>3, <1>5, <2>1
<1> QED BY <1>4, <1>5

\* A line more is readable if it fits, clashes with nothing and leaves texts well
\* formed.
LEMMA ReadableStep ==
  ASSUME NEW f, NEW n \in Nat, Readable(f, n)
  PROVE  Readable(f, n + 1) <=>
           /\ Fits(f, n + 1) /\ NoClash(f, n + 1)
           /\ \A i \in SetLines(f, n + 1) : WellFormed(ValueText(f, i, n + 1))
<1>1. \A i : i \in 1..(n + 1) <=> i \in 1..n \/ i = n + 1 OBVIOUS
<1> QED BY <1>1 DEF Readable

\* Where a line more leaves the array, if there is one.
LEMMA WithinStep ==
  ASSUME NEW f, Written(f), NEW n \in Nat, n + 1 \in DOMAIN f
  PROVE  /\ Within(f, n + 2) <=> \E j \in 1..(n + 1) : InArrayOf(f, j, n + 2)
         /\ f[n + 1].kind # "set" => ~InArrayOf(f, n + 1, n + 2)
         /\ f[n + 1].kind \notin {"set", "more"} =>
              \A j \in 1..n : InArrayOf(f, j, n + 2) <=> InArrayOf(f, j, n + 1)
<1>1. (n + 2) - 1 = n + 1 OBVIOUS
<1>2. Within(f, n + 2) <=> \E j \in 1..(n + 1) : InArrayOf(f, j, n + 2) BY <1>1 DEF Within
<1>3. f[n + 1].kind # "set" => ~InArrayOf(f, n + 1, n + 2) BY ArrayStep DEF BeginsArray
<1>4. ASSUME f[n + 1].kind \notin {"set", "more"}
      PROVE  ~Contains(Toks(f[n + 1]), Close)
  <2>1. Toks(f[n + 1]) = << >> /\ Len(<< >>) = 0 BY <1>4, ToksAre, EmptySeq
  <2> QED BY <2>1 DEF Contains
<1> QED BY <1>2, <1>3, <1>4, ArrayStep

\* The parser is in an array exactly where the lines are.
LEMMA ReadWhere ==
  ASSUME NEW f, Written(f), NEW n \in 0..Len(f), NEW d, NEW c, NEW a, ReadSo(f, n, d, c, a)
  PROVE  /\ a.line # 0 <=> Within(f, n + 1)
         /\ a.line # 0 => Unfinished(f, n, c, a)
         /\ a.line = 0 => a = T!NoArray
<1>1. T!NoArray.line = 0 BY DEF T!NoArray
<1>2. Unfinished(f, n, c, a) => a.line # 0 /\ Within(f, n + 1) BY FullIs DEF Unfinished, ReadSo
<1> QED BY <1>1, <1>2 DEF ReadSo

\* Nothing.
LEMMA BlankRead ==
  ASSUME NEW f, Written(f), NEW n \in Nat, n + 1 \in DOMAIN f, f[n + 1].kind = "blank",
         NEW d, NEW c, NEW a, ReadSo(f, n, d, c, a)
  PROVE  ReadSo(f, n + 1, d, c, a)
<1>1. /\ n \in 0..Len(f) /\ n + 1 \in 0..Len(f) /\ (n + 1) + 1 = n + 2
      /\ SetLines(f, n + 1) = SetLines(f, n) /\ \A i \in 1..n : i \in 1..(n + 1)
  BY LineIs
<1>2. /\ HeaderLines(f, n + 1) = HeaderLines(f, n) /\ Locations(f, n + 1) = Locations(f, n)
      /\ Sync(f, n + 1) /\ TableAt(f, n + 2) = TableAt(f, n + 1)
  BY SyncStays, AboveStep DEF ReadSo
<1>3. \A i \in SetLines(f, n) : ValueText(f, i, n + 1) = ValueText(f, i, n) BY TextsStay
<1>4. NoClash(f, n) /\ NoClash(f, n + 1) BY <1>1, <1>2 DEF ReadSo, Readable, NoClash
<1>5. Readable(f, n + 1)
  <2>1. Fits(f, n + 1) BY DEF Fits
  <2>2. \A i \in SetLines(f, n + 1) : WellFormed(ValueText(f, i, n + 1))
    BY <1>1, <1>3 DEF ReadSo, Readable
  <2> QED BY <1>4, <2>1, <2>2, ReadableStep DEF ReadSo
<1>6. Document(f, n + 1) = Document(f, n)
  <2>1. Full(f, n + 1) = Full(f, n) /\ \A i \in Full(f, n) : ValueText(f, i, n + 1) = ValueText(f, i, n)
    BY <1>1, <1>3 DEF Full
  <2>2. Values(f, n + 1) = Values(f, n) BY <1>4, <2>1, ValuesSame
  <2> QED BY <1>2, <2>2 DEF Document
<1>7. /\ \A j \in 1..n : InArrayOf(f, j, n + 2) <=> InArrayOf(f, j, n + 1)
      /\ Within(f, n + 2) <=> Within(f, n + 1)
  <2>1. /\ \A j \in 1..n : InArrayOf(f, j, n + 2) <=> InArrayOf(f, j, n + 1)
        /\ ~InArrayOf(f, n + 1, n + 2)
        /\ Within(f, n + 2) <=> \E j \in 1..(n + 1) : InArrayOf(f, j, n + 2)
    BY WithinStep
  <2>2. Within(f, n + 1) <=> \E j \in 1..n : InArrayOf(f, j, n + 1)
    <3>1. (n + 1) - 1 = n OBVIOUS
    <3> QED BY <3>1 DEF Within
  <2> QED BY <2>1, <2>2, LineIs
<1>8. ASSUME Unfinished(f, n, c, a)
      PROVE  Unfinished(f, n + 1, c, a)
  <2>1. a.line \in 1..n /\ InArrayOf(f, a.line, n + 1) BY <1>8 DEF Unfinished
  <2>2. a.line \in SetLines(f, n) BY <1>1, <2>1, FullIs DEF ReadSo
  <2>3. ValueText(f, a.line, n + 1) = ValueText(f, a.line, n) BY <1>3, <2>2
  <2> QED BY <1>1, <1>7, <1>8, <2>1, <2>3 DEF Unfinished
<1> QED BY <1>1, <1>2, <1>5, <1>6, <1>7, <1>8 DEF ReadSo

\* A line that nothing can begin with, or that does not go on with an array.
LEMMA LineUnread ==
  ASSUME NEW f, NEW n \in Nat,
         \/ f[n + 1].kind = "junk"
         \/ f[n + 1].kind = "more" /\ ~Within(f, n + 1)
         \/ f[n + 1].kind \in {"table", "tables", "set"} /\ Within(f, n + 1)
  PROVE  ~Readable(f, n + 1)
<1>1. ~Fits(f, n + 1) BY DEF Fits
<1>2. n + 1 \in 1..(n + 1) OBVIOUS
<1> QED BY <1>1, <1>2 DEF Readable

\* A header.
LEMMA HeaderReads ==
  ASSUME NEW f, Written(f), NEW n \in Nat, n + 1 \in DOMAIN f, f[n + 1].kind \in {"table", "tables"},
         NEW d, NEW c, NEW a, ReadSo(f, n, d, c, a), a.line = 0
  PROVE  LET p     == f[n + 1].path
             way   == T!Ways(d, p)[Len(p) - 1]
             named == NamedAt(way.doc, way.at, Last(p))
             table == f[n + 1].kind = "table"
             num   == IF table THEN 0 ELSE named.size + 1
             value == IF table THEN Table ELSE Tables(num)
             new   == Append(way.at, << Last(p), num >>)
         IN  /\ Readable(f, n + 1) <=>
                  way.ok /\ IF table THEN named = Tables(0) ELSE named.is = "tables"
             /\ Readable(f, n + 1) =>
                  ReadSo(f, n + 1, T!NewTable(way.doc, way.at, Last(p), value, new), new, a)
<1>1. /\ n \in 0..Len(f) /\ n + 1 \in 0..Len(f) /\ (n + 1) + 1 = n + 2
      /\ SetLines(f, n + 1) = SetLines(f, n)
  BY LineIs
<1> DEFINE p     == f[n + 1].path
           way   == T!Ways(d, p)[Len(p) - 1]
           named == NamedAt(way.doc, way.at, Last(p))
           table == f[n + 1].kind = "table"
           num   == IF table THEN 0 ELSE named.size + 1
           value == IF table THEN Table ELSE Tables(num)
           new   == Append(way.at, << Last(p), num >>)
           good  == way.ok /\ IF table THEN named = Tables(0) ELSE named.is = "tables"
           made  == T!NewTable(way.doc, way.at, Last(p), value, new)
<1> SUFFICES /\ Readable(f, n + 1) <=> good
             /\ Readable(f, n + 1) => ReadSo(f, n + 1, made, new, a)
  OBVIOUS
<1>2. ~Within(f, n + 1) /\ a = T!NoArray /\ Readable(f, n) /\ Sync(f, n) /\ NoClash(f, n) /\ d = Document(f, n)
  BY <1>1, ReadWhere DEF ReadSo, Readable
<1>3. Full(f, n) = SetLines(f, n) /\ \A i \in 1..n : ~InArrayOf(f, i, n + 1) BY <1>1, <1>2, FullIs
<1>4. \A i \in SetLines(f, n) : ValueText(f, i, n + 1) = ValueText(f, i, n) BY TextsStay
<1>5. Readable(f, n + 1) <=> NoClash(f, n + 1)
  <2>1. Fits(f, n + 1) BY <1>2 DEF Fits
  <2>2. \A i \in SetLines(f, n + 1) : WellFormed(ValueText(f, i, n + 1))
    BY <1>1, <1>2, <1>4 DEF Readable
  <2> QED BY <1>2, <2>1, <2>2, ReadableStep
<1>6. /\ Placed(Values(f, n), Locations(f, n)) /\ NoTables(Values(f, n))
      /\ DOMAIN Values(f, n) = {Place(f, i) : i \in SetLines(f, n)}
  <2>1. DOMAIN Values(f, n) = {Place(f, i) : i \in Full(f, n)} BY <1>1, <1>2, ValuesAre
  <2>2. DOMAIN Values(f, n) = {Place(f, i) : i \in SetLines(f, n)} BY <1>3, <2>1, Zenon
  <2> QED BY <1>1, <1>2, <2>2, ValuesPlaced
<1>7. d = Tree(Locations(f, n), Values(f, n)) BY <1>2 DEF Document
<1>8. /\ NoClash(f, n + 1) <=> good
      /\ NoClash(f, n + 1) =>
           /\ new = Location(f, n + 1)
           /\ made = Tree(Locations(f, n + 1), Values(f, n))
           /\ Sync(f, n + 1)
  <2> DEFINE values == Values(f, n)
  <2> HIDE DEF values
  <2>1. Placed(values, Locations(f, n)) /\ NoTables(values) /\ DOMAIN values = {Place(f, i) : i \in SetLines(f, n)}
    BY <1>6 DEF values
  <2>2. d = Tree(Locations(f, n), values) BY <1>7 DEF values
  <2> DEFINE rway   == T!Ways(Tree(Locations(f, n), values), p)[Len(p) - 1]
  <2>3. LET rnamed == NamedAt(rway.doc, rway.at, Last(p))
            rnum   == IF table THEN 0 ELSE rnamed.size + 1
            rvalue == IF table THEN Table ELSE Tables(rnum)
            rnew   == Append(rway.at, << Last(p), rnum >>)
        IN  /\ NoClash(f, n + 1) <=>
                 rway.ok /\ IF table THEN rnamed = Tables(0) ELSE rnamed.is = "tables"
            /\ NoClash(f, n + 1) =>
                 /\ rnew = Location(f, n + 1)
                 /\ T!NewTable(rway.doc, rway.at, Last(p), rvalue, rnew) = Tree(Locations(f, n + 1), values)
                 /\ Sync(f, n + 1)
    BY <1>2, <2>1, HeaderRead
  <2>4. rway = way BY <2>2
  <2> HIDE DEF rway, way
  <2> QED BY <2>3, <2>4 DEF values
<1> HIDE DEF good, made, new
<1>9. ASSUME Readable(f, n + 1)
      PROVE  ReadSo(f, n + 1, made, new, a)
  <2>1. NoClash(f, n + 1) /\ new = Location(f, n + 1) /\ made = Tree(Locations(f, n + 1), Values(f, n)) /\ Sync(f, n + 1)
    BY <1>5, <1>8, <1>9
  <2>2. TableAt(f, n + 2) = Location(f, n + 1) BY AboveStep
  <2>3. Full(f, n + 1) = Full(f, n) /\ \A i \in Full(f, n) : ValueText(f, i, n + 1) = ValueText(f, i, n)
    BY <1>1, <1>4 DEF Full
  <2>4. Values(f, n + 1) = Values(f, n) BY <1>2, <2>1, <2>3, ValuesSame
  <2>5. ~Within(f, n + 2)
    <3>1. /\ Within(f, n + 2) <=> \E j \in 1..(n + 1) : InArrayOf(f, j, n + 2)
          /\ ~InArrayOf(f, n + 1, n + 2)
          /\ \A j \in 1..n : InArrayOf(f, j, n + 2) <=> InArrayOf(f, j, n + 1)
      BY WithinStep
    <3> QED BY <1>3, <3>1, LineIs
  <2> QED BY <1>1, <1>2, <1>9, <2>1, <2>2, <2>4, <2>5 DEF ReadSo, Document
<1> QED BY <1>5, <1>8, <1>9

\* An assignment: what it is of, and when it is refused.
LEMMA SetRead ==
  ASSUME NEW f, Written(f), NEW n \in Nat, n + 1 \in DOMAIN f, f[n + 1].kind = "set",
         NEW d, NEW c, NEW a, ReadSo(f, n, d, c, a), a.line = 0
  PROVE  /\ Readable(f, n + 1) <=> f[n + 1].key \notin DOMAIN d[c] /\ WellFormed(f[n + 1].toks)
         /\ NoClash(f, n + 1) <=> f[n + 1].key \notin DOMAIN d[c]
         /\ ValueText(f, n + 1, n + 1) = f[n + 1].toks
         /\ TextHolds(f, n + 1, n + 1)
         /\ \A i \in SetLines(f, n) : ValueText(f, i, n + 1) = ValueText(f, i, n)
         /\ Full(f, n) = SetLines(f, n) /\ \A i \in 1..n : ~InArrayOf(f, i, n + 2)
         /\ HeaderLines(f, n + 1) = HeaderLines(f, n) /\ Locations(f, n + 1) = Locations(f, n) /\ Sync(f, n + 1)
         /\ TableAt(f, n + 2) = c /\ Place(f, n + 1) = << c, f[n + 1].key >>
<1>1. /\ n \in 0..Len(f) /\ n + 1 \in 0..Len(f) /\ SetLines(f, n + 1) = SetLines(f, n) \cup {n + 1}
      /\ n + 1 \notin SetLines(f, n) /\ n + 1 \in 1..(n + 1)
  BY LineIs
<1>2. ~Within(f, n + 1) /\ Readable(f, n) /\ NoClash(f, n) /\ d = Document(f, n) /\ c = TableAt(f, n + 1)
  BY <1>1, ReadWhere DEF ReadSo, Readable
<1>3. Full(f, n) = SetLines(f, n) /\ \A i \in 1..n : ~InArrayOf(f, i, n + 1) BY <1>1, <1>2, FullIs
<1>4. /\ HeaderLines(f, n + 1) = HeaderLines(f, n) /\ Locations(f, n + 1) = Locations(f, n)
      /\ Sync(f, n + 1) /\ TableAt(f, n + 2) = c
  BY <1>2, SyncStays, AboveStep DEF ReadSo
<1>5. ValueText(f, n + 1, n + 1) = f[n + 1].toks /\ TextHolds(f, n + 1, n + 1)
  BY TextStep, ToksAre, TextBegins
<1>6. \A i \in SetLines(f, n) : i \in 1..n /\ ValueText(f, i, n + 1) = ValueText(f, i, n)
  BY <1>3, TextsStay, LineIs
<1>7. \A i \in 1..n : ~InArrayOf(f, i, n + 2) BY <1>3, ArrayStep
<1>8. Place(f, n + 1) = << c, f[n + 1].key >> BY <1>2 DEF Place
<1>a. DOMAIN Values(f, n) = {Place(f, i) : i \in SetLines(f, n)}
  <2>1. DOMAIN Values(f, n) = {Place(f, i) : i \in Full(f, n)}
    <3>1. n \in 0..Len(f) /\ NoClash(f, n) BY <1>1, <1>2
    <3> QED BY <3>1, ValuesAre
  <2> QED BY <1>3, <2>1, Zenon
<1>9. NoClash(f, n + 1) <=> f[n + 1].key \notin DOMAIN d[c]
  <2> DEFINE locs   == Locations(f, n)
             values == Values(f, n)
             key    == f[n + 1].key
  <2>1. c \in locs /\ IsTree(locs) /\ c \in Locs /\ key \in Keys /\ Placed(values, locs)
    <3>1. c \in locs BY <1>1, <1>2, TableIsThere
    <3> QED BY <1>1, <1>2, <3>1, LocationsAre, ValuesPlaced DEF IsTree, Written
  <2>2. DOMAIN values = {Place(f, i) : i \in SetLines(f, n)} BY <1>a
  <2>3. d = Tree(locs, values) BY <1>2 DEF Document
  <2>4. Positions(locs, c, key) = {} <=> \A j \in HeaderLines(f, n) : << c, key >> \notin Places(Location(f, j))
    BY <1>1, <2>1, KeyFree
  <2>5. NoClash(f, n + 1) <=>
          /\ \A i \in SetLines(f, n) : Place(f, i) # << c, key >>
          /\ \A j \in HeaderLines(f, n) : << c, key >> \notin Places(Location(f, j))
    BY <1>1, <1>2, <1>4, <1>8 DEF NoClash
  <2> HIDE DEF locs, values, key
  <2>6. key \in DOMAIN d[c] <=> << c, key >> \in DOMAIN values \/ Positions(locs, c, key) # {}
    BY <2>1, <2>3, TreeIs
  <2>7. << c, key >> \in DOMAIN values <=> \E i \in SetLines(f, n) : Place(f, i) = << c, key >>
    BY <2>2
  <2> QED BY <2>4, <2>5, <2>6, <2>7 DEF key
<1>10. Readable(f, n + 1) <=> f[n + 1].key \notin DOMAIN d[c] /\ WellFormed(f[n + 1].toks)
  <2>1. Fits(f, n + 1) BY <1>2 DEF Fits
  <2>2. (\A i \in SetLines(f, n + 1) : WellFormed(ValueText(f, i, n + 1))) <=> WellFormed(f[n + 1].toks)
    BY <1>1, <1>2, <1>5, <1>6 DEF Readable
  <2> QED BY <1>2, <1>9, <2>1, <2>2, ReadableStep
<1> QED BY <1>3, <1>4, <1>5, <1>6, <1>7, <1>8, <1>9, <1>10

\* An assignment that is over where it began.
LEMMA SetScalarRead ==
  ASSUME NEW f, Written(f), NEW n \in Nat, n + 1 \in DOMAIN f, f[n + 1].kind = "set",
         NEW d, NEW c, NEW a, ReadSo(f, n, d, c, a), a.line = 0,
         f[n + 1].key \notin DOMAIN d[c], Len(f[n + 1].toks) = 1, IsScalar(f[n + 1].toks[1])
  PROVE  ReadSo(f, n + 1, T!Put(d, c, f[n + 1].key, f[n + 1].toks[1]), c, a)
<1> DEFINE toks == f[n + 1].toks
           l == n + 1
<1>1. /\ n \in 0..Len(f) /\ n + 1 \in 0..Len(f) /\ SetLines(f, n + 1) = SetLines(f, n) \cup {n + 1}
      /\ n + 1 \notin SetLines(f, n)
  BY LineIs
<1>a. (n + 1) + 1 = n + 2 OBVIOUS
<1>2. Readable(f, n) /\ d = Document(f, n) /\ c = TableAt(f, n + 1) /\ a = T!NoArray
  <2>1. Readable(f, n) /\ d = Document(f, n) /\ c = TableAt(f, n + 1) BY DEF ReadSo
  <2> QED BY <1>1, <2>1, ReadWhere
<1>3. /\ Readable(f, n + 1) <=> f[n + 1].key \notin DOMAIN d[c] /\ WellFormed(f[n + 1].toks)
      /\ NoClash(f, n + 1) <=> f[n + 1].key \notin DOMAIN d[c]
      /\ ValueText(f, n + 1, n + 1) = f[n + 1].toks
      /\ TextHolds(f, n + 1, n + 1)
      /\ \A i \in SetLines(f, n) : ValueText(f, i, n + 1) = ValueText(f, i, n)
      /\ Full(f, n) = SetLines(f, n) /\ \A i \in 1..n : ~InArrayOf(f, i, n + 2)
      /\ Sync(f, n + 1) /\ TableAt(f, n + 2) = c
  BY SetRead
<1>4. WellFormed(toks) /\ Complete(toks) /\ ValueOf(toks) = toks[1]
  BY Tokens DEF WellFormed, Complete, ValueOf
<1>5. Readable(f, n + 1) /\ NoClash(f, n + 1) BY <1>3, <1>4
<1>6. Full(f, n + 1) = Full(f, n) \cup {l} BY <1>1, <1>3, <1>4 DEF Full
<1>7. /\ l \in SetLines(f, n + 1) /\ l \notin Full(f, n) /\ f[n + 1].kind \notin {"table", "tables"}
      /\ \A i \in Full(f, n) : ValueText(f, i, n + 1) = ValueText(f, i, n)
  BY <1>1, <1>3
<1>8. Document(f, n + 1) = T!Put(d, TableAt(f, l), f[l].key, ValueOf(ValueText(f, l, n + 1)))
  <2> HIDE DEF l
  <2>1. Document(f, n + 1) = T!Put(Document(f, n), TableAt(f, l), f[l].key, ValueOf(ValueText(f, l, n + 1)))
    BY <1>2, <1>5, <1>6, <1>7, Stored
  <2> QED BY <1>2, <2>1
<1>9. Document(f, n + 1) = T!Put(d, c, f[n + 1].key, toks[1]) BY <1>2, <1>3, <1>4, <1>8
<1>10. ~Within(f, n + 2)
  <2>1. ~BeginsArray(f[n + 1]) BY Tokens DEF BeginsArray
  <2>2. ~InArrayOf(f, n + 1, n + 2) BY <1>a, <1>3, <2>1 DEF TextHolds
  <2>3. Within(f, n + 2) <=> \E j \in 1..(n + 1) : InArrayOf(f, j, n + 2) BY WithinStep
  <2> QED BY <1>3, <2>2, <2>3, LineIs
<1> QED BY <1>a, <1>2, <1>3, <1>5, <1>9, <1>10 DEF ReadSo

\* What a line leaves of an array: nothing right, a beginning, or the array.
LEMMA ArrayRead ==
  ASSUME NEW f, Written(f), NEW n \in Nat, n + 1 \in DOMAIN f, f[n + 1].kind \notin {"table", "tables"},
         Readable(f, n), Fits(f, n + 1), NoClash(f, n + 1), Sync(f, n + 1),
         NEW d, d = Document(f, n), NEW c, c = TableAt(f, n + 2),
         NEW l \in SetLines(f, n + 1), l \notin Full(f, n), SetLines(f, n + 1) = Full(f, n) \cup {l},
         \A i \in Full(f, n) : ValueText(f, i, n + 1) = ValueText(f, i, n),
         BeginsArray(f[l]), Place(f, l) = << c, f[l].key >>,
         \A j \in 1..(n + 1) : j # l => ~InArrayOf(f, j, n + 2),
         NEW v, v = ValueText(f, l, n + 1),
         NEW b, b.line = l, b.key = f[l].key, ArrayReads(b, v)
  PROVE  /\ b.state \in {"open", "closed", "bad"}
         /\ b.state = "bad" => ~Readable(f, n + 1)
         /\ b.state = "open" => ReadSo(f, n + 1, d, c, b)
         /\ b.state = "closed" => ReadSo(f, n + 1, T!Put(d, c, b.key, Array(b.items)), c, T!NoArray)
<1>1. n \in 0..Len(f) /\ n + 1 \in 0..Len(f) /\ (n + 1) + 1 = n + 2 BY LineIs
<1>2. l \in 1..(n + 1) /\ (Contains(v, Close) <=> ~InArrayOf(f, l, n + 2)) /\ v[1] = Open
  <2>1. TextHolds(f, l, n + 1) /\ l \in 1..(n + 1) BY <1>1, TextIs
  <2> QED BY <1>1, <2>1 DEF TextHolds
<1>3. Readable(f, n + 1) <=> WellFormed(v)
  <2>1. \A i \in Full(f, n) : WellFormed(ValueText(f, i, n + 1)) BY DEF Readable, Full
  <2>2. (\A i \in SetLines(f, n + 1) : WellFormed(ValueText(f, i, n + 1))) <=> WellFormed(v) BY <2>1
  <2> QED BY <2>2, ReadableStep
<1>4. Within(f, n + 2) <=> ~Contains(v, Close)
  <2>1. Within(f, n + 2) <=> \E j \in 1..(n + 1) : InArrayOf(f, j, n + 2) BY WithinStep
  <2> QED BY <1>2, <2>1
<1>5. NoClash(f, n) /\ TableAt(f, l) = c
  <2>1. Place(f, l) = << TableAt(f, l), f[l].key >> BY DEF Place
  <2> QED BY <2>1 DEF Readable
<1>6. ASSUME b.state = "open"
      PROVE  ReadSo(f, n + 1, d, c, b)
  <2>1. OpenAt(b, v, Len(v)) /\ WellFormed(v) /\ ~Contains(v, Close) /\ InArrayOf(f, l, n + 2)
    BY <1>2, <1>6 DEF ArrayReads
  <2>2. Unfinished(f, n + 1, c, b) BY <1>1, <1>2, <2>1 DEF Unfinished
  <2>3. Full(f, n + 1) = Full(f, n)
    <3>1. l \notin Full(f, n + 1)
      <4>1. ~(Len(v) = 1 /\ v[1] # Open) BY <1>2
      <4> QED BY <2>1, <4>1 DEF Full, Complete
    <3>2. \A i \in Full(f, n) : i \in Full(f, n + 1) BY DEF Full
    <3>3. Full(f, n + 1) \subseteq SetLines(f, n + 1) BY DEF Full
    <3> QED BY <3>1, <3>2, <3>3
  <2>4. Values(f, n + 1) = Values(f, n) BY <1>5, <2>3, ValuesSame
  <2>5. Locations(f, n + 1) = Locations(f, n) BY SyncStays
  <2>6. Document(f, n + 1) = d BY <2>4, <2>5 DEF Document
  <2> QED BY <1>1, <1>3, <2>1, <2>2, <2>6 DEF ReadSo
<1>7. ASSUME b.state = "closed"
      PROVE  ReadSo(f, n + 1, T!Put(d, c, b.key, Array(b.items)), c, T!NoArray)
  <2>1. WellFormed(v) /\ Contains(v, Close) /\ Array(b.items) = ValueOf(v) /\ ~Within(f, n + 2)
    BY <1>4, <1>7 DEF ArrayReads
  <2>2. Full(f, n + 1) = Full(f, n) \cup {l}
    <3>1. l \in Full(f, n + 1) BY <2>1 DEF Full, Complete
    <3>2. \A i \in Full(f, n) : i \in Full(f, n + 1) BY DEF Full
    <3>3. Full(f, n + 1) \subseteq SetLines(f, n + 1) BY DEF Full
    <3> QED BY <3>1, <3>2, <3>3
  <2>3. Document(f, n + 1) = T!Put(Document(f, n), TableAt(f, l), f[l].key, ValueOf(ValueText(f, l, n + 1)))
    BY <2>2, Stored
  <2>4. Document(f, n + 1) = T!Put(d, c, b.key, Array(b.items)) BY <1>5, <2>1, <2>3
  <2> QED BY <1>1, <1>3, <2>1, <2>4 DEF ReadSo
<1> QED BY <1>3, <1>6, <1>7 DEF ArrayReads

\* The array that an opening bracket begins.
LEMMA BeginIsOpen ==
  ASSUME NEW l, NEW key, NEW v, v[1] = Open
  PROVE  LET a == [T!NoArray EXCEPT !.line = l, !.key = key, !.state = "open"]
         IN  OpenAt(a, v, 1) /\ a.line = l /\ a.key = key
<1> DEFINE no == T!NoArray
           x  == [no EXCEPT !.line = l]
           y  == [x EXCEPT !.key = key]
           z  == [y EXCEPT !.state = "open"]
           s  == ScalarsOf(v, 0)
<1>1. ArrayShape(no) /\ no.items = << >> /\ (no.needComma <=> FALSE) BY DEF T!NoArray, ArrayShape
<1>2. [T!NoArray EXCEPT !.line = l, !.key = key, !.state = "open"] = z OBVIOUS
<1> HIDE DEF no
<1>3. ArrayShape(x) /\ x.items = no.items /\ x.needComma = no.needComma /\ x.line = l
  BY <1>1 DEF ArrayShape
<1> HIDE DEF x
<1>4. ArrayShape(y) /\ y.items = x.items /\ y.needComma = x.needComma /\ y.line = x.line /\ y.key = key
  BY <1>3 DEF ArrayShape
<1> HIDE DEF y
<1>5. ArrayShape(z) /\ z.items = y.items /\ z.needComma = y.needComma /\ z.line = y.line /\ z.key = y.key /\ z.state = "open"
  BY <1>4 DEF ArrayShape
<1> HIDE DEF z
<1>6. 1 \div 2 = 0 /\ 1 % 2 = 1 /\ 2..1 = {} OBVIOUS
<1>7. s = << >> BY DEF ScalarsOf
<1> HIDE DEF s
<1>8. z.items = ScalarsOf(v, 1 \div 2) /\ (z.needComma <=> 1 % 2 = 0)
  <2>1. z.needComma <=> FALSE BY <1>1, <1>3, <1>4, <1>5
  <2>2. z.items = ScalarsOf(v, 1 \div 2) BY <1>1, <1>3, <1>4, <1>5, <1>6, <1>7 DEF s
  <2> QED BY <1>6, <2>1, <2>2
<1>9. OpenAt(z, v, 1) BY <1>5, <1>6, <1>8 DEF OpenAt
<1>10. z.line = l /\ z.key = key BY <1>3, <1>4, <1>5
<1> QED BY <1>2, <1>9, <1>10

\* An array that this line begins.
LEMMA SetArrayRead ==
  ASSUME NEW f, Written(f), NEW n \in Nat, n + 1 \in DOMAIN f, f[n + 1].kind = "set",
         NEW d, NEW c, NEW a, ReadSo(f, n, d, c, a), a.line = 0,
         f[n + 1].key \notin DOMAIN d[c], BeginsArray(f[n + 1])
  PROVE  LET line == f[n + 1]
             b == T!Scans([T!NoArray EXCEPT !.line = n + 1, !.key = line.key, !.state = "open"],
                          Tail(line.toks))[Len(Tail(line.toks))]
         IN  /\ b.state \in {"open", "closed", "bad"}
             /\ b.state = "bad" => ~Readable(f, n + 1)
             /\ b.state = "open" => ReadSo(f, n + 1, d, c, b)
             /\ b.state = "closed" => ReadSo(f, n + 1, T!Put(d, c, b.key, Array(b.items)), c, T!NoArray)
<1> DEFINE v == f[n + 1].toks
           l == n + 1
           key == f[n + 1].key
           S == TokensOf(f)
           t == Tail(v)
           a0 == [T!NoArray EXCEPT !.line = l, !.key = key, !.state = "open"]
           b == T!Scans(a0, t)[Len(t)]
<1>1. /\ n \in 0..Len(f) /\ n + 1 \in 0..Len(f) /\ SetLines(f, n + 1) = SetLines(f, n) \cup {n + 1}
      /\ n + 1 \notin SetLines(f, n)
  BY LineIs
<1>2. Readable(f, n) /\ d = Document(f, n) BY DEF ReadSo
<1>3. /\ NoClash(f, n + 1)
      /\ ValueText(f, l, n + 1) = v
      /\ \A i \in SetLines(f, n) : ValueText(f, i, n + 1) = ValueText(f, i, n)
      /\ Full(f, n) = SetLines(f, n) /\ \A i \in 1..n : ~InArrayOf(f, i, n + 2)
      /\ Sync(f, n + 1) /\ TableAt(f, n + 2) = c /\ Place(f, l) = << c, key >>
  BY SetRead
<1>4. v \in Seq(S) /\ v # << >> /\ v[1] = Open BY ToksAre DEF BeginsArray
<1>5. Fits(f, n + 1)
  <2>1. ~Within(f, n + 1) BY <1>1, ReadWhere
  <2> QED BY <2>1 DEF Fits
<1>6. OpenAt(a0, v, 1) /\ a0.line = l /\ a0.key = key
  <2> HIDE DEF v, l, key
  <2> QED BY <1>4, BeginIsOpen
<1>7. t \in Seq(S) /\ After(v, 1, t)
  <2> HIDE DEF v, S
  <2>1. /\ t \in Seq(S) /\ Len(t) = Len(v) - 1 /\ \A k \in 1..Len(t) : t[k] = v[k + 1]
        /\ Len(v) \in Nat
    BY <1>4, HeadTailProperties, LenProperties
  <2>2. \A k \in 1..Len(t) : k + 1 = 1 + k OBVIOUS
  <2> HIDE DEF t
  <2> QED BY <2>1, <2>2 DEF After
<1> HIDE DEF v, key, S, t, a0
<1>8. b.line = l /\ b.key = key /\ ArrayReads(b, v)
  <2>1. LET b1 == T!Scans(a0, t)[Len(t)]
        IN  b1.line = a0.line /\ b1.key = a0.key /\ ArrayShape(b1) /\ ArrayReads(b1, v)
    <3>1. 1 \in Nat OBVIOUS
    <3> QED BY <1>4, <1>6, <1>7, <3>1, ScansRead
  <2> QED BY <1>6, <2>1
<1> HIDE DEF b
<1>9. /\ b.state \in {"open", "closed", "bad"}
      /\ b.state = "bad" => ~Readable(f, n + 1)
      /\ b.state = "open" => ReadSo(f, n + 1, d, c, b)
      /\ b.state = "closed" => ReadSo(f, n + 1, T!Put(d, c, b.key, Array(b.items)), c, T!NoArray)
  <2>1. /\ l \in SetLines(f, n + 1) /\ l \notin Full(f, n) /\ SetLines(f, n + 1) = Full(f, n) \cup {l}
        /\ \A i \in Full(f, n) : ValueText(f, i, n + 1) = ValueText(f, i, n)
        /\ f[n + 1].kind \notin {"table", "tables"} /\ c = TableAt(f, n + 2)
    BY <1>1, <1>3
  <2>2. \A j \in 1..(n + 1) : j # l => ~InArrayOf(f, j, n + 2) BY <1>3, LineIs
  <2>3. BeginsArray(f[l]) /\ Place(f, l) = << c, f[l].key >> /\ b.line = l /\ b.key = f[l].key /\ v = ValueText(f, l, n + 1)
    BY <1>3, <1>8 DEF key
  <2> HIDE DEF l
  <2> QED BY <1>2, <1>3, <1>5, <1>8, <2>1, <2>2, <2>3, ArrayRead
<1> QED BY <1>9 DEF b, a0, t, v, key

\* More of the array.
LEMMA MoreRead ==
  ASSUME NEW f, Written(f), NEW n \in Nat, n + 1 \in DOMAIN f, f[n + 1].kind = "more",
         NEW d, NEW c, NEW a, ReadSo(f, n, d, c, a), a.line # 0
  PROVE  LET b == T!Scans(a, f[n + 1].toks)[Len(f[n + 1].toks)]
         IN  /\ b.state \in {"open", "closed", "bad"}
             /\ b.state = "bad" => ~Readable(f, n + 1)
             /\ b.state = "open" => ReadSo(f, n + 1, d, c, b)
             /\ b.state = "closed" => ReadSo(f, n + 1, T!Put(d, c, b.key, Array(b.items)), c, T!NoArray)
<1> DEFINE t == f[n + 1].toks
           l == a.line
           u == ValueText(f, l, n)
           v == ValueText(f, l, n + 1)
           S == TokensOf(f)
           b == T!Scans(a, t)[Len(t)]
<1>1. /\ n \in 0..Len(f) /\ n + 1 \in 0..Len(f) /\ SetLines(f, n + 1) = SetLines(f, n)
      /\ n + 1 \notin SetLines(f, n)
  BY LineIs
<1>2. Readable(f, n) /\ d = Document(f, n) /\ c = TableAt(f, n + 1) /\ Sync(f, n) BY DEF ReadSo
<1>3. /\ l \in 1..n /\ InArrayOf(f, l, n + 1) /\ Place(f, l) = << c, a.key >> /\ OpenAt(a, u, Len(u))
      /\ Within(f, n + 1)
  BY <1>1, ReadWhere DEF Unfinished
<1>4. /\ l \in SetLines(f, n) /\ Full(f, n) = SetLines(f, n) \ {l} /\ BeginsArray(f[l])
      /\ \A i \in 1..n : i # l => ~InArrayOf(f, i, n + 1)
  BY <1>1, <1>2, <1>3, FullIs DEF InArrayOf
<1>5. /\ HeaderLines(f, n + 1) = HeaderLines(f, n) /\ Sync(f, n + 1) /\ TableAt(f, n + 2) = c
  BY <1>2, SyncStays, AboveStep
<1>6. \A i \in Full(f, n) : ValueText(f, i, n + 1) = ValueText(f, i, n)
  <2>1. \A i \in Full(f, n) : i \in SetLines(f, n) /\ ~InArrayOf(f, i, n + 1) BY <1>1, <1>4, LineIs
  <2> QED BY <2>1, TextsStay
<1>7. Fits(f, n + 1) /\ NoClash(f, n + 1)
  <2>1. Fits(f, n + 1) BY <1>3 DEF Fits
  <2>2. NoClash(f, n + 1) BY <1>1, <1>2, <1>5 DEF Readable, NoClash
  <2> QED BY <2>1, <2>2
<1>8. t \in Seq(S) /\ u \in Seq(S) /\ Len(u) >= 1 /\ u[1] = Open /\ v = u \o t
  <2>1. l \in DOMAIN f /\ l <= n /\ TextHolds(f, l, n) BY <1>1, <1>4, TextIs, LineIs
  <2>2. Toks(f[n + 1]) = t /\ Toks(f[n + 1]) \in Seq(S) BY ToksAre
  <2>3. v = u \o t BY <1>3, <2>1, <2>2, TextStep
  <2> QED BY <1>4, <2>1, <2>2, <2>3 DEF TextHolds
<1>9. f[l].key = a.key /\ f[l].kind = "set" BY <1>3, <1>4 DEF Place, SetLines
<1> HIDE DEF t, l, u, S
<1>10. /\ v \in Seq(S) /\ v[1] = Open /\ Len(v) = Len(u) + Len(t) /\ Len(u) \in Nat
       /\ \A k \in 1..Len(t) : v[Len(u) + k] = t[k]
       /\ \A k \in 1..Len(u) : v[k] = u[k]
  <2>1. /\ u \o t \in Seq(S) /\ Len(u \o t) = Len(u) + Len(t) /\ Len(u) \in Nat /\ Len(t) \in Nat
        /\ \A k \in 1..(Len(u) + Len(t)) : (u \o t)[k] = IF k <= Len(u) THEN u[k] ELSE t[k - Len(u)]
    BY <1>8, ConcatProperties, LenProperties
  <2>2. \A k \in 1..Len(t) : Len(u) + k \in 1..(Len(u) + Len(t)) /\ ~(Len(u) + k <= Len(u)) /\ (Len(u) + k) - Len(u) = k
    BY <2>1
  <2>3. \A k \in 1..Len(u) : k \in 1..(Len(u) + Len(t)) /\ k <= Len(u) BY <2>1
  <2>4. 1 \in 1..Len(u) BY <1>8, <2>1
  <2> HIDE DEF v
  <2> QED BY <1>8, <2>1, <2>2, <2>3, <2>4
<1>11. OpenAt(a, v, Len(u))
  <2>1. /\ \A k \in 2..Len(u) : k \in 1..Len(u)
        /\ \A k \in 1..(Len(u) \div 2) : 2 * k \in 1..Len(u)
    BY <1>10
  <2>2. \A k \in 2..Len(u) : Turn(u, k) => Turn(v, k) BY <1>10, <2>1 DEF Turn
  <2>3. ScalarsOf(u, Len(u) \div 2) = ScalarsOf(v, Len(u) \div 2) BY <1>10, <2>1 DEF ScalarsOf
  <2> HIDE DEF v
  <2> QED BY <1>3, <2>2, <2>3 DEF OpenAt
<1> HIDE DEF v
<1>12. b.line = a.line /\ b.key = a.key /\ ArrayReads(b, v)
  <2>1. LET b1 == T!Scans(a, t)[Len(t)]
        IN  b1.line = a.line /\ b1.key = a.key /\ ArrayShape(b1) /\ ArrayReads(b1, v)
    <3> DEFINE m == Len(u)
    <3>1. v \in Seq(S) /\ t \in Seq(S) /\ m \in Nat /\ v[1] = Open /\ After(v, m, t) /\ OpenAt(a, v, m)
      BY <1>8, <1>10, <1>11 DEF After
    <3> HIDE DEF m
    <3> QED BY <3>1, ScansRead
  <2> QED BY <2>1
<1> HIDE DEF b
<1>13. /\ b.state \in {"open", "closed", "bad"}
       /\ b.state = "bad" => ~Readable(f, n + 1)
       /\ b.state = "open" => ReadSo(f, n + 1, d, c, b)
       /\ b.state = "closed" => ReadSo(f, n + 1, T!Put(d, c, b.key, Array(b.items)), c, T!NoArray)
  <2>1. /\ l \in SetLines(f, n + 1) /\ l \notin Full(f, n) /\ SetLines(f, n + 1) = Full(f, n) \cup {l}
        /\ f[n + 1].kind \notin {"table", "tables"} /\ c = TableAt(f, n + 2)
    BY <1>1, <1>4, <1>5
  <2>2. \A j \in 1..(n + 1) : j # l => ~InArrayOf(f, j, n + 2)
    <3>1. \A j \in 1..n : j # l => ~InArrayOf(f, j, n + 2) BY <1>4, ArrayStep
    <3>2. ~InArrayOf(f, n + 1, n + 2) BY WithinStep
    <3> QED BY <3>1, <3>2, LineIs
  <2>3. /\ BeginsArray(f[l]) /\ Place(f, l) = << c, f[l].key >> /\ b.line = l /\ b.key = f[l].key
        /\ v = ValueText(f, l, n + 1)
    BY <1>3, <1>4, <1>9, <1>12 DEF l, v
  <2> QED BY <1>2, <1>5, <1>6, <1>7, <1>12, <2>1, <2>2, <2>3, ArrayRead
<1> QED BY <1>13 DEF b, t

-----------------------------------------------------------------------------
(***************************************************************************)
(* The text that the parser reads is the one above.                        *)
(***************************************************************************)
LEMMA LinesSame ==
  /\ \A line : T!Toks(line) = Toks(line) /\ (T!BeginsArray(line) <=> BeginsArray(line))
  /\ \A s, e : T!Contains(s, e) <=> Contains(s, e)
  /\ \A s : T!Last(s) = Last(s) /\ T!Front(s) = Front(s)
  /\ \A S : T!Max(S) = Max(S) /\ T!Cardinality(S) = Cardinality(S)
  /\ \A s, t : T!IsStrictPrefix(s, t) <=> IsStrictPrefix(s, t)
<1>1. \A line : T!Toks(line) = Toks(line) BY DEF T!Toks, Toks
<1>2. \A line : T!BeginsArray(line) <=> BeginsArray(line)
  BY DEF T!BeginsArray, BeginsArray, T!Open, Open
<1>3. \A s, e : T!Contains(s, e) <=> Contains(s, e) BY DEF T!Contains, Contains
<1>4. \A s : T!Last(s) = Last(s) /\ T!Front(s) = Front(s) BY DEF T!Last, Last, T!Front, Front
<1>5. \A S : T!Max(S) = Max(S) BY DEF T!Max, Max
<1>6. \A S : T!Cardinality(S) = Cardinality(S) BY DEF T!Cardinality, Cardinality
<1>7. \A s, t : T!IsStrictPrefix(s, t) <=> IsStrictPrefix(s, t)
  BY DEF T!IsStrictPrefix, IsStrictPrefix, T!IsPrefix, IsPrefix
<1> QED BY <1>1, <1>2, <1>3, <1>4, <1>5, <1>6, <1>7

\* Arrays.
LEMMA ArraysSame ==
  /\ \A f, j, i : T!InArrayOf(f, j, i) <=> InArrayOf(f, j, i)
  /\ \A f, i : T!Within(f, i) <=> Within(f, i)
  /\ \A f, n : T!SetLines(f, n) = SetLines(f, n) /\ T!HeaderLines(f, n) = HeaderLines(f, n)
<1>1. \A f, j, i : T!InArrayOf(f, j, i) <=> InArrayOf(f, j, i)
  BY LinesSame DEF T!InArrayOf, InArrayOf, T!Close, Close
<1>2. \A f, i : T!Within(f, i) <=> Within(f, i) BY <1>1 DEF T!Within, Within
<1>3. \A f, n : T!SetLines(f, n) = SetLines(f, n) /\ T!HeaderLines(f, n) = HeaderLines(f, n)
  BY DEF T!SetLines, SetLines, T!HeaderLines, HeaderLines
<1> QED BY <1>1, <1>2, <1>3

\* The texts of values.
LEMMA TextsSame ==
  /\ \A f, i, n : T!ValueText(f, i, n) = ValueText(f, i, n)
  /\ \A t : T!WellFormed(t) <=> WellFormed(t)
  /\ \A t : T!Complete(t) <=> Complete(t)
  /\ \A t : T!ValueOf(t) = ValueOf(t)
<1>1. \A f, i : T!ValueTexts(f, i) = ValueTexts(f, i)
  BY DEF T!ValueTexts, ValueTexts, T!InArrayOf, InArrayOf, T!BeginsArray, BeginsArray, T!Toks, Toks,
         T!Open, Open, T!Close, Close, T!Contains, Contains
<1>2. \A f, i, n : T!ValueText(f, i, n) = ValueText(f, i, n) BY <1>1 DEF T!ValueText, ValueText
<1>3. \A t : T!WellFormed(t) <=> WellFormed(t)
  BY DEF T!WellFormed, WellFormed, T!Open, Open, T!Close, Close, T!Comma, Comma, T!IsScalar, IsScalar
<1>4. \A t : T!Complete(t) <=> Complete(t)
  BY DEF T!Complete, Complete, T!Open, Open, T!Close, Close, T!Contains, Contains
<1>5. \A t : T!ValueOf(t) = ValueOf(t)
  BY DEF T!ValueOf, ValueOf, T!Array, Array, T!ScalarsOf, ScalarsOf
<1> QED BY <1>2, <1>3, <1>4, <1>5

\* Positions, locations and places.
LEMMA PlacesSame ==
  /\ \A f, q, j : T!Position(f, q, j) = Position(f, q, j)
  /\ \A f, j : T!Location(f, j) = Location(f, j)
  /\ \A f, i : T!TableAt(f, i) = TableAt(f, i) /\ T!Place(f, i) = Place(f, i)
  /\ \A loc : T!Places(loc) = Places(loc) /\ T!LastPlace(loc) = LastPlace(loc)
<1>1. \A f, q, j : T!Position(f, q, j) = Position(f, q, j)
  BY DEF T!Position, Position, T!Cardinality, Cardinality, T!IsStrictPrefix, IsStrictPrefix, T!IsPrefix, IsPrefix
<1>2. \A f, j : T!Location(f, j) = Location(f, j) BY <1>1 DEF T!Location, Location
<1>3. \A f, i : T!Above(f, i) = Above(f, i) BY LinesSame, ArraysSame DEF T!Above, Above
<1>4. \A f, i : T!TableAt(f, i) = TableAt(f, i) BY <1>2, <1>3 DEF T!TableAt, TableAt, T!Root, Root
<1>5. \A f, i : T!Place(f, i) = Place(f, i) BY <1>4 DEF T!Place, Place
<1>6. \A loc : T!Places(loc) = Places(loc) BY DEF T!Places, Places
<1>7. \A loc : T!LastPlace(loc) = LastPlace(loc) BY LinesSame DEF T!LastPlace, LastPlace
<1> QED BY <1>1, <1>2, <1>4, <1>5, <1>6, <1>7

\* What is readable.
LEMMA ReadableSame == \A f, n : T!Readable(f, n) <=> Readable(f, n)
<1>1. \A f, n : T!NoClash(f, n) <=> NoClash(f, n) BY ArraysSame, PlacesSame DEF T!NoClash, NoClash
<1>2. \A f, n : T!Fits(f, n) <=> Fits(f, n) BY ArraysSame DEF T!Fits, Fits
<1> QED BY <1>1, <1>2, ArraysSame, TextsSame DEF T!Readable, Readable

\* The document.
LEMMA DocumentSame == \A f, n : T!Document(f, n) = Document(f, n)
<1>1. \A f, n : T!Locations(f, n) = Locations(f, n)
  BY ArraysSame, PlacesSame DEF T!Locations, Locations, T!Root, Root
<1>2. \A f, n : T!Values(f, n) = Values(f, n)
  <2> SUFFICES ASSUME NEW f, NEW n
               PROVE  T!Values(f, n) = Values(f, n)
    OBVIOUS
  <2> DEFINE sets == Full(f, n)
             first(p)  == CHOOSE i \in sets : T!Place(f, i) = p
             second(p) == CHOOSE i \in sets : Place(f, i) = p
  <2>1. {i \in T!SetLines(f, n) : T!Complete(T!ValueText(f, i, n))} = sets
    BY ArraysSame, TextsSame DEF Full
  <2>2. {T!Place(f, i) : i \in sets} = {Place(f, i) : i \in sets} BY PlacesSame
  <2>3. \A p : first(p) = second(p) BY PlacesSame
  <2>4. T!Values(f, n) = [p \in {T!Place(f, i) : i \in sets} |-> T!ValueOf(T!ValueText(f, first(p), n))]
    <3> DEFINE full == {i \in T!SetLines(f, n) : T!Complete(T!ValueText(f, i, n))}
               values(s) == [p \in {T!Place(f, i) : i \in s} |->
                 T!ValueOf(T!ValueText(f, CHOOSE i \in s : T!Place(f, i) = p, n))]
    <3>1. T!Values(f, n) = values(full) BY DEF T!Values
    <3>2. full = sets BY <2>1
    <3> HIDE DEF full, values
    <3>3. T!Values(f, n) = values(sets) BY <3>1, <3>2
    <3> QED BY <3>3 DEF values
  <2>5. Values(f, n) = [p \in {Place(f, i) : i \in sets} |-> ValueOf(ValueText(f, second(p), n))]
    BY DEF Values, Full
  <2> HIDE DEF sets, first, second
  <2> QED BY <2>2, <2>3, <2>4, <2>5, TextsSame
<1>3. \A locs, t : T!Below(locs, t) = Below(locs, t) BY LinesSame DEF T!Below, Below, T!Root, Root
<1>4. \A locs, t, key : T!Positions(locs, t, key) = Positions(locs, t, key)
  BY <1>3 DEF T!Positions, Positions
<1>5. \A locs, values, t : T!KeysOf(locs, values, t) = KeysOf(locs, values, t)
  BY <1>3 DEF T!KeysOf, KeysOf
<1>6. \A locs, values : T!Tree(locs, values) = Tree(locs, values)
  BY <1>4, <1>5, LinesSame DEF T!Tree, Tree, T!Table, Table, T!Tables, Tables
<1> QED BY <1>1, <1>2, <1>6 DEF T!Document, Document

-----------------------------------------------------------------------------
(***************************************************************************)
(* The parser, line by line.                                               *)
(***************************************************************************)

\* The files of the assumption are written as the lemmas above have them.
LEMMA WrittenIs ==
  ASSUME NEW f, LinesOK(f)
  PROVE  Written(f)
BY DEF LinesOK, Written, Keys

\* A line that is read, and one that is refused.
LEMMA OnIsOK ==
  ASSUME Written(file), err = 0, at \in 1..Len(file), ReadSo(file, at, doc', current', array'), T!Proceed
  PROVE  ReadOK'
<1>1. file' = file /\ at' = at + 1 /\ err' = 0 BY DEF T!Proceed
<1>2. at \in Nat /\ Len(file) \in Nat /\ (at + 1) - 1 = at /\ at + 1 \in 1..(Len(file) + 1)
  BY ToksAre
<1> QED BY <1>1, <1>2 DEF ReadOK

\* An error at a line that makes the file unreadable.
LEMMA FailIsOK ==
  ASSUME ReadOK, at <= Len(file), ~Readable(file, at), T!Fail(at)
  PROVE  ReadOK'
BY DEF T!Fail, ReadOK

\* What a line finds.
LEMMA ReadsIs ==
  ASSUME LinesOK(file), ReadOK, NEW kind, NEW within \in BOOLEAN, T!Reads(kind, within)
  PROVE  /\ Written(file) /\ err = 0 /\ at \in 1..Len(file) /\ at <= Len(file) /\ T!Line = file[at]
         /\ file[at].kind = kind /\ (array.line # 0 <=> within) /\ (Within(file, at) <=> within)
         /\ \E n \in Nat : /\ at = n + 1 /\ n + 1 \in DOMAIN file /\ file[n + 1].kind = kind
                           /\ ReadSo(file, n, doc, current, array)
<1>1. Written(file) /\ Len(file) \in Nat /\ DOMAIN file = 1..Len(file) BY WrittenIs, ToksAre
<1>2. err = 0 /\ at <= Len(file) /\ file[at].kind = kind /\ (array.line # 0 <=> within)
  BY DEF T!Reads, T!InArray
<1>3. at \in 1..Len(file) /\ at - 1 \in Nat /\ at = (at - 1) + 1 /\ at - 1 \in 0..Len(file)
  BY <1>1, <1>2 DEF ReadOK
<1>4. ReadSo(file, at - 1, doc, current, array) BY DEF ReadOK
<1>5. Within(file, at) <=> within
  <2>1. array.line # 0 <=> Within(file, (at - 1) + 1) BY <1>1, <1>3, <1>4, ReadWhere
  <2> QED BY <1>2, <1>3, <2>1
<1>6. \E n \in Nat : /\ at = n + 1 /\ n + 1 \in DOMAIN file /\ file[n + 1].kind = kind
                     /\ ReadSo(file, n, doc, current, array)
  <2> DEFINE n == at - 1
  <2>1. n \in Nat /\ at = n + 1 /\ ReadSo(file, n, doc, current, array) BY <1>3, <1>4
  <2> HIDE DEF n
  <2>2. n + 1 \in DOMAIN file /\ file[n + 1].kind = kind BY <1>1, <1>2, <1>3, <2>1
  <2> QED BY <2>1, <2>2
<1> QED BY <1>1, <1>2, <1>3, <1>5, <1>6 DEF T!Line

\* A blank line: nothing is read, in an array or out of it.
LEMMA ReadBlank ==
  ASSUME LinesOK(file), ReadOK, T!BlankLine
  PROVE  ReadOK'
<1>1. PICK within \in BOOLEAN : T!Reads("blank", within) BY DEF T!BlankLine
<1>2. PICK n \in Nat : /\ at = n + 1 /\ n + 1 \in DOMAIN file /\ file[n + 1].kind = "blank"
                       /\ ReadSo(file, n, doc, current, array)
  BY <1>1, ReadsIs
<1>3. Written(file) /\ err = 0 /\ at \in 1..Len(file) BY <1>1, ReadsIs
<1>4. ReadSo(file, n + 1, doc, current, array) BY <1>2, <1>3, BlankRead
<1>5. ReadSo(file, at, doc', current', array') /\ T!Proceed BY <1>2, <1>4 DEF T!BlankLine
<1> QED BY <1>3, <1>5, OnIsOK

\* A header: its table is opened, or refused where it clashes.
LEMMA ReadHeader ==
  ASSUME LinesOK(file), ReadOK,
         T!OpenTable \/ T!TableRefused \/ T!OpenArrayTable \/ T!ArrayTableRefused
  PROVE  ReadOK'
<1>1. PICK kind \in {"table", "tables"} : /\ T!Reads(kind, FALSE)
                                          /\ T!OpenTable \/ T!TableRefused => kind = "table"
                                          /\ T!OpenArrayTable \/ T!ArrayTableRefused => kind = "tables"
  <2>1. T!OpenTable \/ T!TableRefused => T!Reads("table", FALSE) BY DEF T!OpenTable, T!TableRefused
  <2>2. T!OpenArrayTable \/ T!ArrayTableRefused => T!Reads("tables", FALSE)
    BY DEF T!OpenArrayTable, T!ArrayTableRefused
  <2>3. T!Reads("table", FALSE) => ~T!Reads("tables", FALSE) BY DEF T!Reads
  <2> QED BY <2>1, <2>2, <2>3
<1>2. PICK n \in Nat : /\ at = n + 1 /\ n + 1 \in DOMAIN file /\ file[n + 1].kind = kind
                       /\ ReadSo(file, n, doc, current, array)
  BY <1>1, ReadsIs
<1>3. Written(file) /\ err = 0 /\ at \in 1..Len(file) /\ at <= Len(file) /\ T!Line = file[at] /\ array.line = 0
  BY <1>1, ReadsIs
<1> DEFINE p     == file[n + 1].path
           way   == T!Ways(doc, p)[Len(p) - 1]
           named == NamedAt(way.doc, way.at, Last(p))
           table == file[n + 1].kind = "table"
           num   == IF table THEN 0 ELSE named.size + 1
           value == IF table THEN Table ELSE Tables(num)
           new   == Append(way.at, << Last(p), num >>)
           good  == way.ok /\ IF table THEN named = Tables(0) ELSE named.is = "tables"
           made  == T!NewTable(way.doc, way.at, Last(p), value, new)
<1>4. /\ Readable(file, n + 1) <=> good
      /\ Readable(file, n + 1) => ReadSo(file, n + 1, made, new, array)
  BY ZenonT(40), <1>1, <1>2, <1>3, HeaderReads
<1>5. /\ T!Line.path = p /\ T!Way = way /\ T!Last(T!Line.path) = Last(p) /\ T!Named(T!Way) = named
      /\ T!Table = Table /\ T!Tables(0) = Tables(0) /\ \A x : T!Tables(x) = Tables(x)
  <2>1. T!Line.path = p /\ T!Way = way /\ T!Last(T!Line.path) = Last(p)
    BY <1>2, <1>3, LinesSame DEF T!Way
  <2>2. \A x : T!Tables(x) = Tables(x) BY DEF T!Tables, Tables
  <2> HIDE DEF way, p
  <2>3. T!Named(way) = named BY <2>1, <2>2 DEF T!Named, NamedAt
  <2> QED BY <2>1, <2>2, <2>3 DEF T!Table, Table
<1> HIDE DEF p, way, named
<1>6. CASE T!TableRefused \/ T!ArrayTableRefused
  <2>1. ~good /\ T!Fail(at) BY <1>1, <1>2, <1>5, <1>6 DEF T!TableRefused, T!ArrayTableRefused
  <2> HIDE DEF good
  <2>2. ~Readable(file, at) BY <1>2, <1>4, <2>1
  <2> QED BY <1>3, <2>1, <2>2, FailIsOK
<1>7. CASE T!OpenTable \/ T!OpenArrayTable
  <2>1. good /\ T!Enter(way, value, num)
    <3>1. CASE T!OpenTable BY <1>1, <1>2, <1>5, <3>1 DEF T!OpenTable
    <3>2. CASE T!OpenArrayTable BY <1>1, <1>2, <1>5, <3>2 DEF T!OpenArrayTable
    <3> QED BY <1>7, <3>1, <3>2
  <2> HIDE DEF good, value, num
  <2>2. current' = new /\ doc' = made /\ array' = array /\ T!Proceed BY <1>5, <2>1 DEF T!Enter
  <2> HIDE DEF made, new
  <2>3. ReadSo(file, at, doc', current', array') BY <1>2, <1>4, <2>1, <2>2
  <2> QED BY <1>3, <2>2, <2>3, OnIsOK
<1> QED BY <1>6, <1>7

\* A scalar is set, or refused where the key is taken.
LEMMA ReadSet ==
  ASSUME LinesOK(file), ReadOK, T!SetScalar \/ T!AssignRefused
  PROVE  ReadOK'
<1>1. T!Reads("set", FALSE) BY DEF T!SetScalar, T!AssignRefused
<1>2. PICK n \in Nat : /\ at = n + 1 /\ n + 1 \in DOMAIN file /\ file[n + 1].kind = "set"
                       /\ ReadSo(file, n, doc, current, array)
  BY <1>1, ReadsIs
<1>3. Written(file) /\ err = 0 /\ at \in 1..Len(file) /\ at <= Len(file) /\ T!Line = file[at] /\ array.line = 0
  BY <1>1, ReadsIs
<1>4. T!Line = file[n + 1] /\ (T!Free <=> file[n + 1].key \notin DOMAIN doc[current])
  BY <1>2, <1>3 DEF T!Free
<1>5. CASE T!SetScalar
  <2>1. /\ file[n + 1].key \notin DOMAIN doc[current] /\ Len(file[n + 1].toks) = 1 /\ IsScalar(file[n + 1].toks[1])
        /\ doc' = T!Put(doc, current, file[n + 1].key, file[n + 1].toks[1])
        /\ T!Proceed /\ current' = current /\ array' = array
    BY <1>4, <1>5, Tokens DEF T!SetScalar, T!Store
  <2>2. ReadSo(file, n + 1, T!Put(doc, current, file[n + 1].key, file[n + 1].toks[1]), current, array)
    BY <1>2, <1>3, <2>1, SetScalarRead
  <2>3. ReadSo(file, at, doc', current', array') BY <1>2, <2>1, <2>2
  <2> QED BY <1>3, <2>1, <2>3, OnIsOK
<1>6. CASE T!AssignRefused
  <2>1. Readable(file, n + 1) <=> file[n + 1].key \notin DOMAIN doc[current] /\ WellFormed(file[n + 1].toks)
    BY <1>2, <1>3, SetRead
  <2> DEFINE toks == file[n + 1].toks
  <2>2. /\ \/ file[n + 1].key \in DOMAIN doc[current]
           \/ ~(toks # << >> /\ toks[1] = Open) /\ ~(Len(toks) = 1 /\ IsScalar(toks[1]))
        /\ T!Fail(at)
    <3>1. T!IsArray <=> toks # << >> /\ toks[1] = Open
      <4>1. T!IsArray <=> toks # << >> /\ Head(toks) = Open BY <1>4, Tokens DEF T!IsArray
      <4>2. toks # << >> => Head(toks) = toks[1]
        <5>1. toks \in Seq(ToSet(toks)) BY <1>2, <1>3 DEF Written
        <5> HIDE DEF toks
        <5> QED BY <5>1, HeadTailProperties
      <4> QED BY <4>1, <4>2
    <3> QED BY <1>4, <1>6, <3>1, Tokens DEF T!AssignRefused
  <2> HIDE DEF toks
  <2>3. ~(toks # << >> /\ toks[1] = Open) /\ ~(Len(toks) = 1 /\ IsScalar(toks[1])) => ~WellFormed(toks)
    BY DEF WellFormed
  <2>4. ~Readable(file, at) BY <1>2, <2>1, <2>2, <2>3 DEF toks
  <2> QED BY <1>3, <2>2, <2>4, FailIsOK
<1> QED BY <1>5, <1>6

\* What a line makes of an array.
LEMMA ScannedIsOK ==
  ASSUME ReadOK, Written(file), err = 0, at \in 1..Len(file), at <= Len(file), NEW a, NEW toks, NEW b,
         b = T!Scans(a, toks)[Len(toks)], T!Scanned(a, toks),
         b.state = "bad" => ~Readable(file, at),
         b.state = "open" => ReadSo(file, at, doc, current, b),
         b.state = "closed" => ReadSo(file, at, T!Put(doc, current, b.key, Array(b.items)), current, T!NoArray)
  PROVE  ReadOK'
<1>1. \/ b.state = "bad" /\ T!Fail(at)
      \/ b.state = "open" /\ array' = b /\ T!Proceed /\ UNCHANGED << doc, current >>
      \/ /\ b.state = "closed"
         /\ T!Store(b.key, T!Array(b.items))
         /\ array' = T!NoArray /\ T!Proceed /\ UNCHANGED current
  BY DEF T!Scanned
<1>2. CASE b.state = "bad" /\ T!Fail(at) BY <1>2, FailIsOK
<1>3. CASE b.state = "open" /\ array' = b /\ T!Proceed /\ UNCHANGED << doc, current >>
  <2>1. ReadSo(file, at, doc', current', array') BY <1>3
  <2> QED BY <1>3, <2>1, OnIsOK
<1>4. CASE /\ b.state = "closed"
           /\ T!Store(b.key, T!Array(b.items))
           /\ array' = T!NoArray /\ T!Proceed /\ UNCHANGED current
  <2>1. doc' = T!Put(doc, current, b.key, Array(b.items)) BY <1>4 DEF T!Store, T!Array, Array
  <2>2. ReadSo(file, at, doc', current', array') BY <1>4, <2>1
  <2> QED BY <1>4, <2>2, OnIsOK
<1> QED BY <1>1, <1>2, <1>3, <1>4

\* An array begins, and perhaps ends.
LEMMA ReadSetArray ==
  ASSUME LinesOK(file), ReadOK, T!SetArray
  PROVE  ReadOK'
<1>1. T!Reads("set", FALSE) BY DEF T!SetArray
<1>2. PICK n \in Nat : /\ at = n + 1 /\ n + 1 \in DOMAIN file /\ file[n + 1].kind = "set"
                       /\ ReadSo(file, n, doc, current, array)
  BY <1>1, ReadsIs
<1>3. Written(file) /\ err = 0 /\ at \in 1..Len(file) /\ at <= Len(file) /\ T!Line = file[at] /\ array.line = 0
  BY <1>1, ReadsIs
<1> DEFINE line == file[n + 1]
           a == [T!NoArray EXCEPT !.line = n + 1, !.key = line.key, !.state = "open"]
           t == Tail(line.toks)
           b == T!Scans(a, t)[Len(t)]
<1>4. T!Line = line /\ (T!Free <=> line.key \notin DOMAIN doc[current]) BY <1>2, <1>3 DEF T!Free
<1>5. BeginsArray(line) /\ line.key \notin DOMAIN doc[current]
  <2>1. line.toks # << >> /\ Head(line.toks) = Open BY <1>4, Tokens DEF T!SetArray, T!IsArray
  <2>2. Head(line.toks) = line.toks[1]
    <3> DEFINE toks == line.toks
    <3>1. toks \in Seq(ToSet(toks)) /\ toks # << >> BY <1>2, <1>3, <2>1 DEF Written
    <3> HIDE DEF toks
    <3>2. Head(toks) = toks[1] BY <3>1, HeadTailProperties
    <3> QED BY <3>2 DEF toks
  <2> QED BY <1>2, <1>4, <2>1, <2>2 DEF T!SetArray, BeginsArray
<1>6. T!Scanned(a, t) BY <1>2, <1>4 DEF T!SetArray
<1>7. /\ b.state \in {"open", "closed", "bad"}
      /\ b.state = "bad" => ~Readable(file, n + 1)
      /\ b.state = "open" => ReadSo(file, n + 1, doc, current, b)
      /\ b.state = "closed" => ReadSo(file, n + 1, T!Put(doc, current, b.key, Array(b.items)), current, T!NoArray)
  BY <1>2, <1>3, <1>5, SetArrayRead
<1> HIDE DEF line, a, t
<1>8. b = T!Scans(a, t)[Len(t)] OBVIOUS
<1> HIDE DEF b
<1> QED BY <1>2, <1>3, <1>6, <1>7, <1>8, ScannedIsOK

\* An array goes on.
LEMMA ReadMore ==
  ASSUME LinesOK(file), ReadOK, T!MoreOfArray
  PROVE  ReadOK'
<1>1. T!Reads("more", TRUE) BY DEF T!MoreOfArray
<1>2. PICK n \in Nat : /\ at = n + 1 /\ n + 1 \in DOMAIN file /\ file[n + 1].kind = "more"
                       /\ ReadSo(file, n, doc, current, array)
  BY <1>1, ReadsIs
<1>3. Written(file) /\ err = 0 /\ at \in 1..Len(file) /\ at <= Len(file) /\ T!Line = file[at] /\ array.line # 0
  BY <1>1, ReadsIs
<1> DEFINE t == file[n + 1].toks
           b == T!Scans(array, t)[Len(t)]
<1>4. T!Scanned(array, t) BY <1>2, <1>3 DEF T!MoreOfArray
<1>5. /\ b.state \in {"open", "closed", "bad"}
      /\ b.state = "bad" => ~Readable(file, n + 1)
      /\ b.state = "open" => ReadSo(file, n + 1, doc, current, b)
      /\ b.state = "closed" => ReadSo(file, n + 1, T!Put(doc, current, b.key, Array(b.items)), current, T!NoArray)
  BY <1>2, <1>3, MoreRead
<1> HIDE DEF t
<1>6. b = T!Scans(array, t)[Len(t)] OBVIOUS
<1> HIDE DEF b
<1> QED BY <1>2, <1>3, <1>4, <1>5, <1>6, ScannedIsOK

\* A line that does not fit.
LEMMA ReadRefused ==
  ASSUME LinesOK(file), ReadOK, T!LineRefused
  PROVE  ReadOK'
<1>1. T!Fail(at) BY DEF T!LineRefused
<1>2. ASSUME NEW kind, NEW within \in BOOLEAN, T!Reads(kind, within),
             \/ kind = "junk"
             \/ kind = "more" /\ ~within
             \/ kind \in {"table", "tables", "set"} /\ within
      PROVE  ReadOK'
  <2>1. at <= Len(file) /\ file[at].kind = kind /\ (Within(file, at) <=> within) BY <1>2, ReadsIs
  <2>2. PICK n \in Nat : at = n + 1 BY <1>2, ReadsIs
  <2>3. ~Readable(file, n + 1) BY <1>2, <2>1, <2>2, LineUnread
  <2> QED BY <1>1, <2>1, <2>2, <2>3, FailIsOK
<1>3. \/ \E within \in BOOLEAN : T!Reads("junk", within)
      \/ T!Reads("more", FALSE)
      \/ \E kind \in {"table", "tables", "set"} : T!Reads(kind, TRUE)
  BY DEF T!LineRefused
<1> QED BY <1>2, <1>3

\* The end of the file within an array.
LEMMA ReadUnterminated ==
  ASSUME LinesOK(file), ReadOK, T!Unterminated
  PROVE  ReadOK'
<1>1. Written(file) /\ Len(file) \in Nat BY WrittenIs, ToksAre
<1>2. at = Len(file) + 1 /\ array.line # 0 /\ T!Fail(array.line)
  BY <1>1 DEF T!Unterminated, T!AtEnd, T!InArray, ReadOK
<1> QED BY <1>2 DEF T!Fail, ReadOK

\* Every line.
LEMMA ReadStep ==
  ASSUME LinesOK(file), ReadOK, T!ParseLine
  PROVE  ReadOK'
BY ReadBlank, ReadHeader, ReadSet, ReadSetArray, ReadMore, ReadRefused, ReadUnterminated DEF T!ParseLine

\* Before the first line.
LEMMA ReadInit ==
  ASSUME NEW f, Written(f)
  PROVE  ReadSo(f, 0, [loc \in {Root} |-> << >>], Root, T!NoArray)
<1>1. SetLines(f, 0) = {} /\ HeaderLines(f, 0) = {} /\ 1..0 = {} /\ 0 + 1 = 1 /\ 0 \in 0..Len(f)
  BY ToksAre DEF SetLines, HeaderLines
<1>2. Readable(f, 0) BY <1>1 DEF Readable, NoClash
<1>3. Sync(f, 0) /\ Locations(f, 0) = {Root} BY SyncInit
<1>4. TableAt(f, 1) = Root
  <2>1. Above(f, 1) \in HeaderLines(f, 0) \cup {0}
    <3>1. Above(f, 0 + 1) \in HeaderLines(f, 0) \cup {0} BY <1>1, AboveIs
    <3> QED BY <1>1, <3>1
  <2> QED BY <1>1, <2>1 DEF TableAt
<1>5. ~Within(f, 1)
  <2>1. 1..(1 - 1) = {} OBVIOUS
  <2> QED BY <2>1 DEF Within
<1>6. DOMAIN Values(f, 0) = {}
  <2>1. NoClash(f, 0) BY <1>2 DEF Readable
  <2>2. DOMAIN Values(f, 0) = {Place(f, i) : i \in Full(f, 0)} BY <1>1, <2>1, ValuesAre
  <2>3. Full(f, 0) = {} BY <1>1 DEF Full
  <2> QED BY <2>2, <2>3
<1>7. Document(f, 0) = [loc \in {Root} |-> << >>]
  <2> DEFINE values == Values(f, 0)
  <2>1. KeysOf({Root}, values, Root) = {} BY <1>6 DEF KeysOf, Below
  <2>2. Document(f, 0) = Tree({Root}, values) BY <1>3 DEF Document
  <2> HIDE DEF values
  <2> DEFINE cell(t, key) == IF << t, key >> \in DOMAIN values THEN values[<< t, key >>]
                             ELSE IF Positions({Root}, t, key) = {0} THEN Table
                             ELSE Tables(Max(Positions({Root}, t, key)))
             keys(t) == KeysOf({Root}, values, t)
  <2>3. DOMAIN Tree({Root}, values) = {Root} /\ Tree({Root}, values)[Root] = << >>
    <3>1. Tree({Root}, values) = [t \in {Root} |-> [key \in keys(t) |-> cell(t, key)]] BY DEF Tree
    <3>2. keys(Root) = {} BY <2>1
    <3> HIDE DEF cell, keys
    <3>3. [key \in keys(Root) |-> cell(Root, key)] = << >> BY <3>2
    <3>4. Tree({Root}, values)[Root] = [key \in keys(Root) |-> cell(Root, key)] BY <3>1
    <3> QED BY <3>1, <3>3, <3>4
  <2>4. Tree({Root}, values) = [t \in {Root} |-> Tree({Root}, values)[t]] BY DEF Tree
  <2> QED BY <2>2, <2>3, <2>4
<1> QED BY <1>1, <1>2, <1>3, <1>4, <1>5, <1>7 DEF ReadSo

\* No line is misread, and an error is where the documentation says.
LEMMA ReadsRight ==
  ASSUME LinesOK(file), ReadOK
  PROVE  T!ReadsExactly
<1>1. Written(file) /\ Len(file) \in Nat BY WrittenIs, ToksAre
<1>2. at \in Nat \ {0} /\ at - 1 \in 0..Len(file) /\ (at - 1) + 1 = at BY <1>1 DEF ReadOK
<1>3. ReadSo(file, at - 1, doc, current, array) BY DEF ReadOK
<1>4. T!Readable(file, at - 1) /\ doc = T!Document(file, at - 1)
  BY <1>3, ReadableSame, DocumentSame DEF ReadSo
<1>5. ASSUME err # 0, at <= Len(file)
      PROVE  err = at /\ ~T!Readable(file, at)
  BY <1>1, <1>5, ReadableSame DEF ReadOK
<1>6. ASSUME err # 0, at > Len(file)
      PROVE  T!InArrayOf(file, err, at) /\ T!Place(file, err) = << current, array.key >>
  <2>1. err = array.line /\ array.line # 0 BY <1>1, <1>2, <1>6 DEF ReadOK
  <2>2. Unfinished(file, at - 1, current, array) BY <1>1, <1>2, <1>3, <2>1, ReadWhere
  <2> QED BY <1>2, <2>1, <2>2, ArraysSame, PlacesSame DEF Unfinished
<1>7. T!Parsed => err = 0 BY DEF T!Parsed, T!AtEnd
<1> QED BY <1>2, <1>4, <1>5, <1>6, <1>7 DEF T!ReadsExactly

\* At first nothing has been read.
LEMMA ReadFirst ==
  ASSUME Init
  PROVE  ReadOK
<1>1. ParsedOK BY DispatchInit DEF DispatchOK
<1>2. /\ at = 1 /\ err = 0 /\ doc = [loc \in {Root} |-> << >>] /\ current = Root
      /\ array = T!NoArray
  BY DEF Init, T!Start, T!Root, Root, T!NoKeys
<1>3. Written(file) /\ Len(file) \in Nat BY <1>1, WrittenIs, ToksAre DEF ParsedOK
<1>4. ReadSo(file, 0, doc, current, array) BY <1>2, <1>3, ReadInit
<1>5. at - 1 = 0 /\ at \in 1..(Len(file) + 1) BY <1>2, <1>3
<1> QED BY <1>2, <1>4, <1>5 DEF ReadOK

\* Every step of the program, or of its parser.
LEMMA ReadNext ==
  ASSUME ParsedOK, ReadOK, [Next]_vars
  PROVE  ReadOK'
<1>1. CASE ReadConfig BY <1>1, ReadStep DEF ReadConfig, ParsedOK
<1>2. CASE UNCHANGED parseVars BY <1>2 DEF parseVars, ReadOK
<1>3. Arguments \/ ServeCommand \/ Deliveries => UNCHANGED parseVars
  BY DEF Arguments, GlobalConfig, GlobalHelp, NoCommand, ChooseCommand, CommandHelp, NoFlags,
         ParseFlags, Positional, FlagsEnd, FlagAlone, FlagEquals, FlagValue, FlagRefused,
         FlagsParsed, ParsingFlags, At, ServeCommand, Deliveries
<1>4. Commanded => ReadConfig \/ UNCHANGED parseVars
  BY DEF Commanded, InitCommand, ConfigUnreadable, ConfigRefused, LoadConfig, ReadClock, LoadState,
         Status, Save, RecordRefused, Record, DispatchNext, Finish, At
<1> QED BY <1>1, <1>2, <1>3, <1>4 DEF Next, vars

\* The file is not misread, whatever it holds, and errors name the line at fault.
THEOREM AlwaysReadsExactly == Spec => []ReadsExactly
<1> DEFINE Inv == ParsedOK /\ ReadOK
<1>1. Init => Inv BY ReadFirst, DispatchInit DEF DispatchOK
<1>2. Inv /\ [Next]_vars => Inv' BY ReadNext, ParsedNext
<1>3. Inv => ReadsExactly BY ReadsRight DEF ParsedOK, ReadsExactly
<1> QED BY <1>1, <1>2, <1>3, PTL DEF Spec

-----------------------------------------------------------------------------
(***************************************************************************)
(* The headers of a file, counted.                                         *)
(***************************************************************************)

\* How many of some lines come first.
LEMMA UpToStep ==
  ASSUME NEW n \in Nat, NEW H \in SUBSET (1..n)
  PROVE  /\ IsFiniteSet(H) /\ Cardinality(H) \in Nat /\ UpTo(H, n) = Cardinality(H)
         /\ UpTo(H, 0) = 0
         /\ \A m \in Nat : /\ UpTo(H, m) \in Nat
                           /\ UpTo(H, m + 1) = UpTo(H, m) + IF m + 1 \in H THEN 1 ELSE 0
<1>1. IsFiniteSet(H) /\ Cardinality(H) \in Nat
  <2>1. IsFiniteSet(1..n) BY FS_Interval
  <2> QED BY <2>1, FS_Subset, FS_CardinalityType
<1>2. {i \in H : i <= n} = H /\ {i \in H : i <= 0} = {}
  <2>1. \A i \in H : i \in Nat /\ 1 <= i /\ i <= n OBVIOUS
  <2>2. {i \in H : i <= n} = H BY <2>1
  <2>3. {i \in H : i <= 0} = {}
    <3>1. \A i \in H : ~(i <= 0) BY <2>1
    <3> QED BY <3>1, Zenon
  <2> QED BY <2>2, <2>3
<1>3. UpTo(H, n) = Cardinality(H) /\ UpTo(H, 0) = 0 BY <1>2, FS_EmptySet DEF UpTo
<1>4. ASSUME NEW m \in Nat
      PROVE  /\ UpTo(H, m) \in Nat
             /\ UpTo(H, m + 1) = UpTo(H, m) + IF m + 1 \in H THEN 1 ELSE 0
  <2> DEFINE F == {i \in H : i <= m}
             G == {i \in H : i <= m + 1}
  <2>1. IsFiniteSet(F) /\ Cardinality(F) \in Nat BY <1>1, FS_Subset, FS_CardinalityType
  <2> DEFINE k == m + 1
  <2>6. /\ \A i : i \in F <=> i \in H /\ i <= m
        /\ \A i : i \in G <=> i \in H /\ i <= k
        /\ \A i \in H : i <= k <=> i <= m \/ i = k
        /\ ~(k <= m)
    OBVIOUS
  <2> HIDE DEF F, G, k
  <2>2. k \in H => G = F \cup {k} /\ k \notin F BY <2>6
  <2>3. k \notin H => G = F BY <2>6
  <2>4. k \in H => Cardinality(G) = Cardinality(F) + 1 BY <2>1, <2>2, FS_AddElement
  <2>5. UpTo(H, m) = Cardinality(F) /\ UpTo(H, k) = Cardinality(G) BY DEF UpTo, F, G, k
  <2> QED BY <2>1, <2>3, <2>4, <2>5 DEF k
<1> QED BY <1>1, <1>3, <1>4

\* Lines are numbered without gaps, and no two alike.
LEMMA NumberedLines ==
  ASSUME NEW N \in Nat, NEW H \in SUBSET (1..N)
  PROVE  /\ \A j \in H : UpTo(H, j) \in 1..Cardinality(H)
         /\ \A n \in 1..Cardinality(H) : NthLine(H, n) \in H /\ UpTo(H, NthLine(H, n)) = n
         /\ \A j \in H : NthLine(H, UpTo(H, j)) = j
<1> DEFINE U(m) == UpTo(H, m)
<1>1. /\ Cardinality(H) \in Nat /\ U(N) = Cardinality(H) /\ U(0) = 0
      /\ \A m \in Nat : U(m) \in Nat /\ U(m + 1) = U(m) + IF m + 1 \in H THEN 1 ELSE 0
  BY UpToStep
<1> HIDE DEF U
<1> DEFINE Ns == {m \in Nat : /\ \A n \in 1..U(m) : \E j \in H : U(j) = n
                              /\ \A k \in 0..m : U(k) <= U(m)
                              /\ \A j \in H : \A k \in 0..m : j <= m /\ k < j => U(k) < U(j)}
<1>2. 0 \in Ns BY <1>1
<1>3. ASSUME NEW m \in Nat, m \in Ns
      PROVE  m + 1 \in Ns
  <2>1. U(m) \in Nat /\ U(m + 1) = U(m) + IF m + 1 \in H THEN 1 ELSE 0 BY <1>1
  <2>2. \A n \in 1..U(m + 1) : \E j \in H : U(j) = n
    <3>1. CASE m + 1 \in H BY <1>3, <2>1, <3>1
    <3>2. CASE m + 1 \notin H BY <1>3, <2>1, <3>2
    <3> QED BY <3>1, <3>2
  <2>3. \A k \in 0..(m + 1) : U(k) <= U(m + 1)
    <3> SUFFICES ASSUME NEW k \in 0..(m + 1)
                 PROVE  U(k) <= U(m + 1)
      OBVIOUS
    <3>1. U(k) \in Nat BY <1>1
    <3>2. CASE k = m + 1 BY <3>1, <3>2
    <3>3. CASE k # m + 1 BY <1>3, <2>1, <3>1, <3>3
    <3> QED BY <3>2, <3>3
  <2>4. ASSUME NEW j \in H, NEW k \in 0..(m + 1), j <= m + 1, k < j
        PROVE  U(k) < U(j)
    <3>1. k \in 0..m /\ U(k) \in Nat BY <1>1, <2>4
    <3>2. CASE j <= m BY <1>3, <2>4, <3>1, <3>2
    <3>3. CASE j = m + 1 BY <1>3, <2>1, <3>1, <3>3
    <3> QED BY <2>4, <3>2, <3>3
  <2> QED BY <2>2, <2>3, <2>4
<1>4. N \in Ns
  <2> HIDE DEF Ns
  <2>1. Nat \subseteq Ns BY <1>2, <1>3, SetInduction
  <2> QED BY <2>1
<1>5. \A n \in 1..U(N) : \E j \in H : U(j) = n BY <1>4
<1>6. \A j \in H, k \in H : U(j) = U(k) => j = k
  <2> SUFFICES ASSUME NEW j \in H, NEW k \in H, U(j) = U(k), j # k
               PROVE  FALSE
    OBVIOUS
  <2>1. j \in 1..N /\ k \in 1..N /\ U(j) \in Nat /\ U(k) \in Nat BY <1>1
  <2>2. CASE j < k BY <1>4, <2>1, <2>2
  <2>3. CASE k < j BY <1>4, <2>1, <2>3
  <2> QED BY <2>1, <2>2, <2>3
<1>7. \A j \in H : U(j) \in 1..Cardinality(H)
  <2> SUFFICES ASSUME NEW j \in H
               PROVE  U(j) \in 1..Cardinality(H)
    OBVIOUS
  <2>1. j \in 1..N /\ U(j) \in Nat /\ U(0) = 0 /\ U(N) = Cardinality(H) BY <1>1
  <2>2. U(j) <= U(N) /\ U(0) < U(j) BY <1>4, <2>1
  <2> QED BY <1>1, <2>1, <2>2
<1>8. \A n : NthLine(H, n) = CHOOSE j \in H : U(j) = n BY DEF NthLine, U
<1>9. \A n \in 1..Cardinality(H) : NthLine(H, n) \in H /\ U(NthLine(H, n)) = n BY <1>1, <1>5, <1>8
<1>10. \A j \in H : NthLine(H, U(j)) = j BY <1>6, <1>7, <1>9
<1> QED BY <1>7, <1>9, <1>10 DEF U

-----------------------------------------------------------------------------
(***************************************************************************)
(* The tables of a whole file.                                             *)
(***************************************************************************)

\* Each assignment stands in its place.
LEMMA WholeIs ==
  ASSUME NEW f, Whole(f)
  PROVE  /\ Len(f) \in Nat /\ DOMAIN f = 1..Len(f) /\ Len(f) \in 0..Len(f)
         /\ IsTree(Located(f)) /\ Placed(Assigned(f), Located(f)) /\ NoTables(Assigned(f))
         /\ DOMAIN Assigned(f) = {Place(f, i) : i \in Assignments(f)}
         /\ \A i \in Assignments(f) :
              /\ Assigned(f)[Place(f, i)] = Said(f, i) /\ Said(f, i).is \notin {"table", "tables"}
              /\ TableAt(f, i) \in Located(f) /\ f[i].key \in Keys /\ i \in 1..Len(f) /\ f[i].kind = "set"
         /\ \A i, k \in Assignments(f) : Place(f, i) = Place(f, k) => i = k
<1>1. /\ Len(f) \in Nat /\ DOMAIN f = 1..Len(f) /\ Len(f) \in 0..Len(f)
      /\ Readable(f, Len(f)) /\ Written(f) /\ NoClash(f, Len(f))
  BY ToksAre DEF Whole, Readable
<1>2. IsTree(Located(f)) BY <1>1, LocationsAre DEF Located
<1>3. Placed(Assigned(f), Located(f)) /\ NoTables(Assigned(f))
  BY <1>1, ValuesPlaced DEF Located, Assigned
<1>4. Full(f, Len(f)) = SetLines(f, Len(f)) BY <1>1, FullIs DEF Whole
<1>5. /\ DOMAIN Assigned(f) = {Place(f, i) : i \in Full(f, Len(f))}
      /\ \A i \in Full(f, Len(f)) : Assigned(f)[Place(f, i)] = Said(f, i)
  BY <1>1, ValuesAre DEF Assigned, Said
<1>6. ASSUME NEW i \in Assignments(f)
      PROVE  /\ Assigned(f)[Place(f, i)] = Said(f, i) /\ Said(f, i).is \notin {"table", "tables"}
             /\ TableAt(f, i) \in Located(f) /\ f[i].key \in Keys /\ i \in 1..Len(f) /\ f[i].kind = "set"
  <2>1. i \in 1..Len(f) /\ f[i].kind = "set" /\ i \in SetLines(f, Len(f))
    BY DEF Assignments, SetLines
  <2>2. f[i].key \in Keys BY <1>1, <2>1 DEF Written
  <2>3. TableAt(f, i) \in Located(f) BY <1>1, <2>1, TableIsThere DEF Located
  <2>4. Assigned(f)[Place(f, i)] = Said(f, i) /\ Place(f, i) \in DOMAIN Assigned(f)
    BY <1>4, <1>5, <2>1
  <2> QED BY <1>3, <2>1, <2>2, <2>3, <2>4 DEF NoTables
<1>7. \A i, k \in Assignments(f) : Place(f, i) = Place(f, k) => i = k
  BY <1>1 DEF NoClash, Assignments
<1>8. DOMAIN Assigned(f) = {Place(f, i) : i \in Assignments(f)} BY <1>4, <1>5, Zenon DEF Assignments
<1> QED BY <1>1, <1>2, <1>3, <1>6, <1>7, <1>8

\* The keys of a table.
LEMMA TreeKeys ==
  ASSUME NEW locs, NEW values, NEW t \in locs
  PROVE  DOMAIN Tree(locs, values) = locs /\ DOMAIN Tree(locs, values)[t] = KeysOf(locs, values, t)
<1> DEFINE d == Tree(locs, values)
           cell(l, k) == IF << l, k >> \in DOMAIN values THEN values[<< l, k >>]
                         ELSE IF Positions(locs, l, k) = {0} THEN Table
                         ELSE Tables(Max(Positions(locs, l, k)))
<1>1. d = [l \in locs |-> [k \in KeysOf(locs, values, l) |-> cell(l, k)]] BY DEF Tree
<1> HIDE DEF cell, d
<1>2. DOMAIN d = locs /\ d[t] = [k \in KeysOf(locs, values, t) |-> cell(t, k)] BY <1>1
<1> QED BY <1>2 DEF d

\* What is found in a table of the document.
LEMMA DocumentKeys ==
  ASSUME NEW f, Whole(f), NEW t \in Located(f)
  PROVE  LET d == Document(f, Len(f)) IN
         /\ DOMAIN d = Located(f) /\ DOMAIN d[t] \subseteq Keys
         /\ \A key \in Keys :
              /\ key \in DOMAIN d[t] <=> << t, key >> \in DOMAIN Assigned(f) \/ TablesAt(f, t, key) # {}
              /\ << t, key >> \in DOMAIN Assigned(f) =>
                   TablesAt(f, t, key) = {} /\ d[t][key] = Assigned(f)[<< t, key >>]
              /\ TablesAt(f, t, key) = {0} => d[t][key] = Table
              /\ TablesAt(f, t, key) \notin {{}, {0}} => d[t][key] = Tables(Max(TablesAt(f, t, key)))
<1> DEFINE d == Document(f, Len(f))
<1>1. d = Tree(Located(f), Assigned(f)) BY DEF Document, Located, Assigned
<1>2. IsTree(Located(f)) /\ Placed(Assigned(f), Located(f)) /\ t \in Locs /\ Len(f) \in 0..Len(f) /\ Written(f)
  BY WholeIs DEF IsTree, Whole
<1>3. DOMAIN d = Located(f) /\ DOMAIN d[t] \subseteq Keys
  <2>1. DOMAIN d[t] = KeysOf(Located(f), Assigned(f), t) /\ DOMAIN d = Located(f)
    <3> HIDE DEF d
    <3>1. DOMAIN Tree(Located(f), Assigned(f)) = Located(f) BY TreeKeys
    <3>2. DOMAIN Tree(Located(f), Assigned(f))[t] = KeysOf(Located(f), Assigned(f), t) BY TreeKeys
    <3> QED BY <1>1, <3>1, <3>2, Zenon
  <2>2. \A x \in Below(Located(f), t) : x[1] \in Keys BY <1>2, BelowIs, SegIs
  <2>3. \A p \in DOMAIN Assigned(f) : p[2] \in Keys BY <1>2 DEF Placed
  <2>4. KeysOf(Located(f), Assigned(f), t) \subseteq Keys BY <2>2, <2>3 DEF KeysOf
  <2> HIDE DEF d
  <2> QED BY <2>1, <2>4
<1>4. ASSUME NEW key \in Keys, << t, key >> \in DOMAIN Assigned(f)
      PROVE  TablesAt(f, t, key) = {}
  <2>3. DOMAIN Assigned(f) = {Place(f, i) : i \in Assignments(f)} BY WholeIs
  <2>1. PICK i \in Assignments(f) : Place(f, i) = << t, key >> BY <1>4, <2>3, Zenon
  <2>2. \A j \in HeaderLines(f, Len(f)) : << t, key >> \notin Places(Location(f, j))
    BY <2>1 DEF Whole, Readable, NoClash, Assignments
  <2> QED BY <1>2, <2>2, KeyFree DEF TablesAt, Located
<1>5. ASSUME NEW key \in Keys
      PROVE  /\ key \in DOMAIN d[t] <=> << t, key >> \in DOMAIN Assigned(f) \/ TablesAt(f, t, key) # {}
             /\ key \in DOMAIN d[t] => d[t][key] =
                  IF << t, key >> \in DOMAIN Assigned(f) THEN Assigned(f)[<< t, key >>]
                  ELSE IF TablesAt(f, t, key) = {0} THEN Table
                  ELSE Tables(Max(TablesAt(f, t, key)))
  BY <1>1, <1>2, TreeIs DEF TablesAt
<1> HIDE DEF d
<1>6. ASSUME NEW key \in Keys
      PROVE  /\ key \in DOMAIN d[t] <=> << t, key >> \in DOMAIN Assigned(f) \/ TablesAt(f, t, key) # {}
             /\ << t, key >> \in DOMAIN Assigned(f) =>
                  TablesAt(f, t, key) = {} /\ d[t][key] = Assigned(f)[<< t, key >>]
             /\ TablesAt(f, t, key) = {0} => d[t][key] = Table
             /\ TablesAt(f, t, key) \notin {{}, {0}} => d[t][key] = Tables(Max(TablesAt(f, t, key)))
  <2>1. {0} # {} OBVIOUS
  <2> QED BY <1>4, <1>5, <2>1
<1> QED BY <1>3, <1>6 DEF d

\* Paths of one key.
LEMMA SingleIs ==
  /\ \A key \in Keys : /\ << key >> \in Paths /\ Len(<< key >>) = 1 /\ << key >>[1] = key
                       /\ << key >> = Then(<< >>, key)
  /\ \A p \in Paths : Len(p) = 1 => p = << p[1] >> /\ p[1] \in Keys
  /\ << >> \in Paths /\ Root \in Locs /\ Root = << >>
<1>1. << >> \in Paths /\ Root \in Locs /\ Root = << >> /\ Len(<< >>) = 0
  BY EmptySeq DEF Paths, Locs, Root
<1>2. ASSUME NEW key \in Keys
      PROVE  /\ << key >> \in Paths /\ Len(<< key >>) = 1 /\ << key >>[1] = key
             /\ << key >> = Then(<< >>, key)
  <2>1. << key >> = Then(<< >>, key) BY DEF Then
  <2> QED BY <2>1 DEF Paths
<1>3. ASSUME NEW p \in Paths, Len(p) = 1
      PROVE  p = << p[1] >> /\ p[1] \in Keys
  BY <1>3 DEF Paths
<1> QED BY <1>1, <1>2, <1>3

\* Locations of one segment.
LEMMA OneIs ==
  ASSUME NEW key \in Keys, NEW num \in Nat
  PROVE  /\ One(key, num) \in Locs /\ One(key, num) # Root /\ One(key, num) = << << key, num >> >>
         /\ Append(Root, << key, num >>) = One(key, num)
         /\ Len(One(key, num)) = 1 /\ One(key, num)[1] = Seg(key, num)
         /\ Front(One(key, num)) = Root /\ Last(One(key, num)) = Seg(key, num)
         /\ \A k \in Keys, n \in Nat : One(key, num) = One(k, n) <=> key = k /\ num = n
<1>1. Seg(key, num) \in Segments /\ Root \in Locs /\ Root = << >> /\ Len(Root) = 0
  BY SegIs, SingleIs
<1>2. /\ One(key, num) \in Locs /\ One(key, num) # << >>
      /\ Len(One(key, num)) = 1 /\ One(key, num)[1] = Seg(key, num)
      /\ Front(One(key, num)) = Root /\ Last(One(key, num)) = Seg(key, num)
  <2> DEFINE e == Seg(key, num)
  <2>1. e \in Segments BY <1>1
  <2> HIDE DEF e
  <2>2. /\ Then(Root, e) \in Locs /\ Then(Root, e) # << >>
        /\ Len(Then(Root, e)) = Len(Root) + 1 /\ Then(Root, e)[Len(Root) + 1] = e
        /\ Front(Then(Root, e)) = Root /\ Last(Then(Root, e)) = e
    BY <1>1, <2>1, LocThen
  <2>3. Len(Root) + 1 = 1 BY <1>1
  <2> QED BY <2>2, <2>3 DEF One, e
<1>3. One(key, num) = << << key, num >> >> /\ Append(Root, << key, num >>) = One(key, num)
  BY <1>1 DEF One, Then, Seg
<1>4. ASSUME NEW k \in Keys, NEW n \in Nat
      PROVE  One(key, num) = One(k, n) <=> key = k /\ num = n
  <2>1. Seg(k, n) \in Segments BY SegIs
  <2>2. One(key, num) = One(k, n) <=> Seg(key, num) = Seg(k, n) BY <1>1, <2>1, LocSame DEF One
  <2>3. Seg(key, num) = Seg(k, n) <=> key = k /\ num = n BY SegIs
  <2> QED BY <2>2, <2>3
<1> QED BY <1>1, <1>2, <1>3, <1>4

\* Counting positions of a single key is counting its headers.
LEMMA PositionCounts ==
  ASSUME NEW f, Written(f), NEW key \in Keys, NEW m \in 0..Len(f)
  PROVE  Position(f, << key >>, m) = UpTo(HeadersFor(f, ArrayHeader(<< key >>)), m)
<1> DEFINE p == << key >>
           H == HeadersFor(f, ArrayHeader(p))
           deeper(i) == \E k \in (i + 1)..m : f[k].kind = "tables" /\ IsStrictPrefix(f[k].path, p)
<1>1. Len(f) \in Nat /\ DOMAIN f = 1..Len(f) BY ToksAre
<1>2. p \in Paths /\ Len(p) = 1 BY SingleIs
<1>3. H = {j \in HeaderLines(f, Len(f)) : f[j].kind = "tables" /\ f[j].path = p}
  BY DEF HeadersFor, ArrayHeader
<1> HIDE DEF p, H
<1>4. \A i \in 1..m : ~deeper(i)
  <2> SUFFICES ASSUME NEW i \in 1..m, NEW k \in (i + 1)..m, f[k].kind = "tables",
                      IsStrictPrefix(f[k].path, p)
               PROVE  FALSE
    OBVIOUS
  <2>1. k \in DOMAIN f BY <1>1
  <2>2. f[k].path \in Paths /\ f[k].path # << >> BY <2>1 DEF Written, Paths
  <2>3. Len(f[k].path) \in Nat \ {0} BY <2>2, LenProperties, EmptySeq DEF Paths
  <2>4. Len(f[k].path) < Len(p) BY <1>2, <2>2, PrefixIs
  <2> QED BY <1>2, <2>3, <2>4
<1>5. Position(f, p, m) = Cardinality({i \in 1..m : f[i].kind = "tables" /\ f[i].path = p /\ ~deeper(i)})
  BY DEF Position
<1> HIDE DEF deeper
<1>6. {i \in 1..m : f[i].kind = "tables" /\ f[i].path = p /\ ~deeper(i)} = {i \in H : i <= m}
  <2>1. \A i : i \in H <=> i \in 1..Len(f) /\ f[i].kind = "tables" /\ f[i].path = p
    BY <1>3 DEF HeaderLines
  <2>2. \A i : i \in 1..m <=> i \in 1..Len(f) /\ i <= m BY <1>1
  <2> QED BY <1>4, <2>1, <2>2
<1> QED BY <1>5, <1>6 DEF UpTo, p, H

\* The tables at the top, by counting headers.
LEMMA TopIs ==
  ASSUME NEW f, Whole(f), NEW key \in Keys
  PROVE  LET x == Cardinality(HeadersFor(f, ArrayHeader(<< key >>))) IN
         /\ x \in Nat /\ LastIs(x, TablesAt(f, Root, key))
         /\ x # 0 => x \in TablesAt(f, Root, key) /\ Max(TablesAt(f, Root, key)) = x
         /\ \A y : y \in TablesAt(f, Root, key) <=> y \in Nat /\ One(key, y) \in Located(f)
<1> DEFINE H == HeadersFor(f, ArrayHeader(<< key >>))
           x == Cardinality(H)
           ps == TablesAt(f, Root, key)
<1>1. Len(f) \in Nat /\ Len(f) \in 0..Len(f) /\ IsTree(Located(f)) /\ Written(f)
  BY WholeIs DEF Whole
<1>2. << >> \in Paths /\ Root \in Locs /\ Root = << >> /\ << key >> = Then(<< >>, key) BY SingleIs
<1>3. H \in SUBSET (1..Len(f)) BY DEF HeadersFor, HeaderLines
<1>4. x \in Nat /\ UpTo(H, Len(f)) = x BY <1>1, <1>3, UpToStep
<1>5. Position(f, << key >>, Len(f)) = x BY <1>1, <1>4, PositionCounts
<1>6. Live(f, << >>, Len(f)) = Root BY <1>2 DEF Live
<1>7. LastIs(x, ps)
  <2>1. LET z == Position(f, Then(<< >>, key), Len(f))
            zs == Positions(Locations(f, Len(f)), Live(f, << >>, Len(f)), key)
        IN  (z = 0 /\ zs \subseteq {0}) \/ (z > 0 /\ z \in zs /\ zs \subseteq 1..z)
    BY <1>2 DEF Whole, Sync
  <2>2. ps = Positions(Locations(f, Len(f)), Live(f, << >>, Len(f)), key)
    BY <1>6 DEF TablesAt, Located
  <2> HIDE DEF ps, x
  <2> QED BY <1>2, <1>5, <2>1, <2>2 DEF LastIs
<1>8. \A y : y \in ps <=> y \in Nat /\ One(key, y) \in Located(f)
  BY <1>1, <1>2, PositionsAre DEF TablesAt, One
<1> HIDE DEF ps, x
<1>9. x # 0 => x \in ps /\ Max(ps) = x
  <2> SUFFICES ASSUME x # 0
               PROVE  x \in ps /\ Max(ps) = x
    OBVIOUS
  <2>1. x \in ps /\ ps \subseteq 0..x BY <1>4, <1>7 DEF LastIs
  <2> QED BY <1>4, <2>1, MaxIs
<1> QED BY <1>4, <1>7, <1>8, <1>9 DEF ps, x

\* Where a header leads.
LEMMA HeaderLeads ==
  ASSUME NEW f, Whole(f), NEW j \in HeaderLines(f, Len(f))
  PROVE  LET p == f[j].path
             y == Position(f, << p[1] >>, j)
         IN  /\ j \in 1..Len(f) /\ f[j].kind \in {"table", "tables"}
             /\ p \in Paths /\ Len(p) \in Nat \ {0} /\ p[1] \in Keys /\ y \in Nat
             /\ One(p[1], y) \in Located(f)
             /\ Len(p) = 1 => p = << p[1] >> /\ Location(f, j) = One(p[1], y)
             /\ Len(p) # 1 => p[2] \in Keys /\ TablesAt(f, One(p[1], y), p[2]) # {}
<1> DEFINE p == f[j].path
           y == Position(f, << p[1] >>, j)
<1>1. Written(f) /\ Len(f) \in 0..Len(f) /\ IsTree(Located(f)) /\ Len(f) \in Nat
  BY WholeIs DEF Whole
<1>2. /\ j \in 1..Len(f) /\ f[j].kind \in {"table", "tables"} /\ j \in Nat
      /\ p \in Paths /\ p # << >> /\ Len(p) \in Nat \ {0} /\ Location(f, j) = Live(f, p, j)
  BY <1>1, LocationIs DEF HeaderLines
<1> HIDE DEF p
<1>3. \A m \in 1..Len(p) : p[m] \in Keys BY <1>2, ElementOfSeq DEF Paths
<1>4. /\ << >> \in Paths /\ Root = << >>
      /\ << p[1] >> \in Paths /\ Len(<< p[1] >>) = 1 /\ << p[1] >> = Then(<< >>, p[1])
  BY <1>2, <1>3, SingleIs
<1>5. y \in Nat BY <1>1, <1>2, <1>4, PositionStep
<1>6. Live(f, << p[1] >>, j) = One(p[1], y)
  <2>1. Live(f, << >>, j) = Root BY <1>4 DEF Live
  <2>2. Live(f, Then(<< >>, p[1]), j) = Then(Live(f, << >>, j), Seg(p[1], Position(f, Then(<< >>, p[1]), j)))
    BY <1>1, <1>2, <1>3, <1>4, LiveThen
  <2> QED BY <1>4, <2>1, <2>2 DEF One
<1> HIDE DEF y
<1>7. SubSeq(p, 1, 1) = << p[1] >> /\ 1 \in 1..Len(p)
  <2>1. 1 \in 1..Len(p) /\ p \in Seq(Keys) BY <1>2 DEF Paths
  <2>2. SubSeq(p, 1, 1) = Then(SubSeq(p, 1, 1 - 1), p[1]) BY <2>1, BeginThen, Zenon
  <2>3. SubSeq(p, 1, 1 - 1) = << >> BY <1>2 DEF Paths
  <2> QED BY <1>4, <2>1, <2>2, <2>3
<1>8. \A m \in 1..Len(p) : Live(f, SubSeq(p, 1, m), j) \in Located(f)
  BY <1>1, LocationsAre DEF Located, p
<1>9. One(p[1], y) \in Located(f)
  <2>1. Live(f, SubSeq(p, 1, 1), j) \in Located(f) BY <1>7, <1>8
  <2> QED BY <1>6, <1>7, <2>1, Zenon
<1>10. ASSUME Len(p) = 1
       PROVE  p = << p[1] >> /\ Location(f, j) = One(p[1], y)
  BY <1>2, <1>6, <1>10, SingleIs
<1>11. ASSUME Len(p) # 1
       PROVE  p[2] \in Keys /\ TablesAt(f, One(p[1], y), p[2]) # {}
  <2> DEFINE z == Position(f, SubSeq(p, 1, 2), j)
  <2> HIDE DEF z
  <2>8. 2 \in 1..Len(p) /\ 2 - 1 = 1 /\ p \in Seq(Keys)
    <3>1. p \in Seq(Keys) BY <1>2 DEF Paths
    <3>2. Len(p) \in Nat \ {0} /\ Len(p) # 1 BY <1>2, <1>11
    <3>3. 2 \in 1..Len(p) BY <3>2
    <3> QED BY <3>1, <3>3
  <2>1. 2 \in 1..Len(p) /\ p[2] \in Keys BY <1>3, <2>8
  <2>2. SubSeq(p, 1, 2) = Then(<< p[1] >>, p[2])
    <3>1. SubSeq(p, 1, 2) = Then(SubSeq(p, 1, 2 - 1), p[2]) BY <2>8, BeginThen, Zenon
    <3> QED BY <1>7, <2>8, <3>1, Zenon
  <2>3. z \in Nat
    <3>1. SubSeq(p, 1, 2) \in Paths BY <1>4, <2>1, <2>2, PathThen
    <3> QED BY <1>1, <1>2, <3>1, PositionStep DEF z
  <2>4. Live(f, SubSeq(p, 1, 2), j) = Then(One(p[1], y), Seg(p[2], z))
    <3>1. Live(f, Then(<< p[1] >>, p[2]), j) =
            Then(Live(f, << p[1] >>, j), Seg(p[2], Position(f, Then(<< p[1] >>, p[2]), j)))
      BY <1>1, <1>2, <1>4, <2>1, LiveThen
    <3> QED BY <1>6, <2>2, <3>1, Zenon DEF z
  <2>5. Then(One(p[1], y), Seg(p[2], z)) \in Located(f) BY <1>8, <2>1, <2>4
  <2>6. One(p[1], y) \in Locs BY <1>1, <1>9 DEF IsTree
  <2>7. z \in TablesAt(f, One(p[1], y), p[2])
    BY <1>1, <2>1, <2>3, <2>5, <2>6, PositionsAre DEF TablesAt
  <2> QED BY <2>1, <2>7
<1> QED BY <1>2, <1>3, <1>5, <1>9, <1>10, <1>11 DEF p, y

-----------------------------------------------------------------------------
(***************************************************************************)
(* The types of what the decoder asks for.                                 *)
(***************************************************************************)

\* Which values have a type, and what the keys of each table have for types.
LEMMA TypesTell ==
  /\ \A type \in Types : \A value : HasType(value, type) =>
       /\ value.is = "table" <=> type = "table"
       /\ value.is = "tables" <=> type = "tables"
       /\ type \in {"string", "duration"} => value.is = "string"
       /\ type = "strings" => value.is = "array"
  /\ \A key \in DOMAIN TopKeys :
       /\ TopKeys[key] \in Types
       /\ TopKeys[key] = "table" <=> key = "defaults"
       /\ TopKeys[key] = "tables" <=> key \in {"check", "alert"}
  /\ \A key \in DOMAIN DefaultsKeys : DefaultsKeys[key] \in Types \ {"table", "tables"}
  /\ \A key \in DOMAIN CheckKeys : CheckKeys[key] \in Types \ {"table", "tables"}
  /\ \A key \in DOMAIN AlertKeys : AlertKeys[key] \in Types \ {"table", "tables"}
<1>1. ASSUME NEW value, NEW type \in Types, HasType(value, type)
      PROVE  /\ value.is = "table" <=> type = "table"
             /\ value.is = "tables" <=> type = "tables"
             /\ type \in {"string", "duration"} => value.is = "string"
             /\ type = "strings" => value.is = "array"
  BY <1>1 DEF HasType, Types
<1>2. \A key \in DOMAIN TopKeys :
        /\ TopKeys[key] \in Types
        /\ TopKeys[key] = "table" <=> key = "defaults"
        /\ TopKeys[key] = "tables" <=> key \in {"check", "alert"}
  BY DEF TopKeys, Types
<1>3. \A key \in DOMAIN DefaultsKeys : DefaultsKeys[key] \in Types \ {"table", "tables"}
  BY DEF DefaultsKeys, Types
<1>4. \A key \in DOMAIN CheckKeys : CheckKeys[key] \in Types \ {"table", "tables"}
  BY DEF CheckKeys, Types
<1>5. \A key \in DOMAIN AlertKeys : AlertKeys[key] \in Types \ {"table", "tables"}
  BY DEF AlertKeys, Types
<1> QED BY <1>1, <1>2, <1>3, <1>4, <1>5

\* A table decoded by keys that lead to no tables has none below it.
LEMMA NoneBelow ==
  ASSUME NEW f, Whole(f), NEW t \in Located(f), NEW keys,
         \A key \in DOMAIN keys : keys[key] \in Types \ {"table", "tables"},
         Decodes(Document(f, Len(f))[t], keys), NEW k \in Keys
  PROVE  TablesAt(f, t, k) = {}
<1> DEFINE v == Document(f, Len(f))[t][k]
           ps == TablesAt(f, t, k)
<1>1. SUFFICES ASSUME ps # {}
               PROVE  FALSE
  OBVIOUS
<1>2. k \in DOMAIN Document(f, Len(f))[t] /\ (ps = {0} => v = Table) /\ (ps # {0} => v = Tables(Max(ps)))
  BY <1>1, DocumentKeys
<1>3. k \in DOMAIN keys /\ HasType(v, keys[k]) BY <1>2 DEF Decodes
<1> HIDE DEF v, ps
<1>4. v.is \in {"table", "tables"} BY <1>2 DEF Table, Tables
<1>5. keys[k] \in Types \ {"table", "tables"} BY <1>3, Zenon
<1> DEFINE type == keys[k]
<1> HIDE DEF type
<1>6. type \in Types /\ type # "table" /\ type # "tables" /\ HasType(v, type) BY <1>3, <1>5 DEF type
<1>7. /\ v.is = "table" <=> type = "table"
      /\ v.is = "tables" <=> type = "tables"
  BY <1>6, TypesTell
<1> QED BY <1>4, <1>6, <1>7

\* The place of a table at the top.
LEMMA PlaceOfOne ==
  ASSUME NEW key \in Keys, NEW num \in Nat
  PROVE  LastPlace(One(key, num)) = << Root, key >> /\ Places(One(key, num)) = {<< Root, key >>}
<1> DEFINE l == One(key, num)
<1>1. /\ l \in Locs /\ Len(l) = 1 /\ l[1] = Seg(key, num) /\ Front(l) = Root /\ Last(l) = Seg(key, num)
      /\ Seg(key, num)[1] = key
  BY OneIs, SegIs
<1> HIDE DEF l
<1>2. DOMAIN l = {1} /\ SubSeq(l, 1, 1 - 1) = Root BY <1>1, LenProperties DEF Locs, Root
<1>3. Places(l) = {<< SubSeq(l, 1, m - 1), l[m][1] >> : m \in {1}} BY <1>2 DEF Places
<1>4. Places(l) = {<< Root, key >>} BY <1>1, <1>2, <1>3
<1>5. LastPlace(l) = << Root, key >> BY <1>1 DEF LastPlace
<1> QED BY <1>4, <1>5 DEF l

\* A header [key] below [[key]] would clash.
LEMMA TableFirst ==
  ASSUME NEW f, Whole(f), NEW j \in HeaderLines(f, Len(f)), NEW key \in Keys, f[j].path = << key >>,
         f[j].kind = "table"
  PROVE  Position(f, << key >>, j) = 0
<1> DEFINE H == HeadersFor(f, ArrayHeader(<< key >>))
<1>1. /\ Len(f) \in Nat /\ Written(f) /\ j \in 1..Len(f) /\ j \in 0..Len(f) /\ H \in SUBSET (1..Len(f))
      /\ << key >>[1] = key /\ Len(<< key >>) = 1
  BY WholeIs, SingleIs DEF Whole, HeaderLines, HeadersFor
<1>2. Position(f, << key >>, j) = UpTo(H, j) BY <1>1, PositionCounts
<1>3. \A i \in H : ~(i <= j)
  <2> SUFFICES ASSUME NEW i \in H, i <= j
               PROVE  FALSE
    OBVIOUS
  <2>1. i \in HeaderLines(f, Len(f)) /\ f[i].kind = "tables" /\ f[i].path = << key >>
    BY DEF HeadersFor, ArrayHeader
  <2>2. i \in HeaderLines(f, j - 1)
    <3>1. i \in 1..Len(f) /\ i # j BY <2>1 DEF HeaderLines
    <3> QED BY <1>1, <2>1, <3>1 DEF HeaderLines
  <2>3. Location(f, i) = One(key, Position(f, << key >>, i)) /\ Position(f, << key >>, i) \in Nat
    BY <1>1, <2>1, HeaderLeads
  <2>4. Location(f, j) = One(key, Position(f, << key >>, j)) /\ Position(f, << key >>, j) \in Nat
    BY <1>1, HeaderLeads
  <2>5. LastPlace(Location(f, j)) \in Places(Location(f, i)) BY <2>3, <2>4, PlaceOfOne
  <2>6. NoClash(f, Len(f)) BY DEF Whole, Readable
  <2>7. f[j].kind = "tables" BY <2>2, <2>5, <2>6 DEF NoClash
  <2> QED BY <2>7
<1>4. {i \in H : i <= j} = {}
  <2> HIDE DEF H
  <2> QED BY <1>3, Zenon
<1> QED BY <1>2, <1>4, FS_EmptySet DEF UpTo

-----------------------------------------------------------------------------
(***************************************************************************)
(* The documented headers, and what they name.                             *)
(***************************************************************************)

\* The documentation's way to say it.
LEMMA HeadersKnownIs ==
  ASSUME NEW f
  PROVE  HeadersKnown(f) <=>
           HeaderLines(f, Len(f)) = UNION {HeadersFor(f, header) : header \in Documented}
<1> DEFINE H == HeaderLines(f, Len(f))
           known(j) == \/ f[j].kind = "table" /\ f[j].path = << "defaults" >>
                       \/ f[j].kind = "tables" /\ (f[j].path = << "check" >> \/ f[j].path = << "alert" >>)
<1>1. UNION {HeadersFor(f, header) : header \in Documented} =
        HeadersFor(f, Header(<< "defaults" >>)) \cup HeadersFor(f, ArrayHeader(<< "check" >>))
          \cup HeadersFor(f, ArrayHeader(<< "alert" >>))
  BY DEF Documented
<1>2. /\ HeadersFor(f, Header(<< "defaults" >>)) = {j \in H : f[j].kind = "table" /\ f[j].path = << "defaults" >>}
      /\ HeadersFor(f, ArrayHeader(<< "check" >>)) = {j \in H : f[j].kind = "tables" /\ f[j].path = << "check" >>}
      /\ HeadersFor(f, ArrayHeader(<< "alert" >>)) = {j \in H : f[j].kind = "tables" /\ f[j].path = << "alert" >>}
  BY DEF HeadersFor, Header, ArrayHeader
<1>3. UNION {HeadersFor(f, header) : header \in Documented} = {j \in H : known(j)}
  <2>1. \A j : j \in UNION {HeadersFor(f, header) : header \in Documented} <=> j \in H /\ known(j)
    BY <1>1, <1>2, Zenon
  <2> HIDE DEF H, known
  <2> QED BY <2>1, Zenon
<1>4. HeadersKnown(f) <=> \A j \in H : known(j) BY DEF HeadersKnown
<1> HIDE DEF H, known
<1>5. (\A j \in H : known(j)) <=> H = {j \in H : known(j)} OBVIOUS
<1> QED BY <1>3, <1>4, <1>5 DEF H

\* How the header of a list differs from that of a table.
LEMMA ArrayFirst ==
  ASSUME NEW f, Whole(f), NEW j \in HeaderLines(f, Len(f)), NEW key \in Keys, f[j].path = << key >>,
         f[j].kind = "tables"
  PROVE  LET H == HeadersFor(f, ArrayHeader(<< key >>)) IN
         /\ j \in H /\ H \in SUBSET (1..Len(f)) /\ Len(f) \in Nat
         /\ Position(f, << key >>, j) = UpTo(H, j) /\ UpTo(H, j) \in 1..Cardinality(H)
         /\ NthLine(H, UpTo(H, j)) = j
<1> DEFINE H == HeadersFor(f, ArrayHeader(<< key >>))
<1>1. /\ Len(f) \in Nat /\ Written(f) /\ j \in 0..Len(f) /\ H \in SUBSET (1..Len(f)) /\ j \in H
  BY WholeIs DEF Whole, HeaderLines, HeadersFor, ArrayHeader
<1>2. Position(f, << key >>, j) = UpTo(H, j) BY <1>1, PositionCounts
<1> HIDE DEF H
<1>3. UpTo(H, j) \in 1..Cardinality(H) /\ NthLine(H, UpTo(H, j)) = j BY <1>1, NumberedLines
<1> QED BY <1>1, <1>2, <1>3 DEF H

\* What the decoder knows of the top of a file that it accepts.
LEMMA TopDecoded ==
  ASSUME NEW f, Whole(f), Decodes(Document(f, Len(f))[Root], TopKeys), NEW key \in Keys,
         TablesAt(f, Root, key) # {}
  PROVE  LET x == Cardinality(HeadersFor(f, ArrayHeader(<< key >>)))
             v == Document(f, Len(f))[Root][key]
         IN  /\ key \in DOMAIN Document(f, Len(f))[Root]
             /\ \/ key = "defaults" /\ TablesAt(f, Root, key) = {0} /\ v = Table
                \/ /\ key = "check" \/ key = "alert"
                   /\ x \in Nat \ {0} /\ TablesAt(f, Root, key) \subseteq 1..x /\ v = Tables(x)
<1> DEFINE x == Cardinality(HeadersFor(f, ArrayHeader(<< key >>)))
           v == Document(f, Len(f))[Root][key]
           ps == TablesAt(f, Root, key)
<1>1. /\ key \in DOMAIN Document(f, Len(f))[Root]
      /\ ps = {0} => v = Table
      /\ ps # {0} => v = Tables(Max(ps))
  <2>1. Root \in Located(f) BY WholeIs DEF IsTree
  <2> QED BY <2>1, DocumentKeys
<1>2. key \in DOMAIN TopKeys /\ HasType(v, TopKeys[key]) BY <1>1 DEF Decodes
<1>3. x \in Nat /\ LastIs(x, ps) /\ (x # 0 => Max(ps) = x) BY TopIs
<1> HIDE DEF x, v, ps
<1>4. /\ TopKeys[key] \in Types
      /\ TopKeys[key] = "table" <=> key = "defaults"
      /\ TopKeys[key] = "tables" <=> key \in {"check", "alert"}
  BY <1>2, TypesTell
<1> DEFINE type == TopKeys[key]
<1>5. /\ v.is = "table" <=> type = "table"
      /\ v.is = "tables" <=> type = "tables"
  <2> HIDE DEF type
  <2>1. type \in Types /\ HasType(v, type) BY <1>2, <1>4 DEF type
  <2> QED BY <2>1, TypesTell
<1>6. CASE ps = {0}
  <2>1. v = Table /\ v.is = "table" BY <1>1, <1>6 DEF Table
  <2> QED BY <1>1, <1>4, <1>5, <1>6, <2>1 DEF x, v, ps
<1>7. CASE ps # {0}
  <2>1. v = Tables(Max(ps)) /\ v.is = "tables" BY <1>1, <1>7 DEF Tables
  <2>2. ps # {} BY DEF ps
  <2>3. x \in Nat \ {0} /\ ps \subseteq 1..x
    <3>1. CASE x = 0 /\ ps \subseteq {0} BY <1>7, <2>2, <3>1
    <3>2. CASE x > 0 /\ ps \subseteq 1..x BY <1>3, <3>2
    <3> QED BY <1>3, <3>1, <3>2 DEF LastIs
  <2> QED BY <1>1, <1>3, <1>4, <1>5, <2>1, <2>3 DEF x, v, ps
<1> QED BY <1>6, <1>7

\* A file that the decoder accepts has no other headers.
LEMMA DecodedHeaders ==
  ASSUME NEW f, Whole(f), Decodable(Document(f, Len(f)))
  PROVE  HeadersKnown(f)
<1> DEFINE d == Document(f, Len(f))
<1> SUFFICES ASSUME NEW j \in HeaderLines(f, Len(f))
             PROVE  \/ f[j].kind = "table" /\ f[j].path = << "defaults" >>
                    \/ f[j].kind = "tables" /\ (f[j].path = << "check" >> \/ f[j].path = << "alert" >>)
  BY DEF HeadersKnown
<1> DEFINE p == f[j].path
           key == p[1]
           y == Position(f, << key >>, j)
           x == Cardinality(HeadersFor(f, ArrayHeader(<< key >>)))
<1>1. /\ f[j].kind \in {"table", "tables"} /\ Len(p) \in Nat /\ key \in Keys /\ y \in Nat
      /\ One(key, y) \in Located(f)
      /\ Len(p) = 1 => p = << key >>
      /\ Len(p) # 1 => p[2] \in Keys /\ TablesAt(f, One(key, y), p[2]) # {}
  BY HeaderLeads
<1>2. Len(p) = 1 /\ f[j].kind = "table" => y = 0 BY <1>1, TableFirst
<1>3. Len(p) = 1 /\ f[j].kind = "tables" => y # 0
  <2> SUFFICES ASSUME Len(p) = 1, f[j].kind = "tables"
               PROVE  y # 0
    OBVIOUS
  <2>1. p = << key >> BY <1>1
  <2>2. \E n \in Nat : y \in 1..n
    <3> DEFINE H == HeadersFor(f, ArrayHeader(<< key >>))
    <3>1. y = UpTo(H, j) /\ UpTo(H, j) \in 1..Cardinality(H) BY <1>1, <2>1, ArrayFirst
    <3>2. Cardinality(H) \in Nat BY <1>1, TopIs
    <3> QED BY <3>1, <3>2
  <2> HIDE DEF y
  <2> QED BY <2>2
<1>4. y \in TablesAt(f, Root, key) BY <1>1, TopIs
<1>5. Decodes(d[Root], TopKeys) /\ Decodes(Defaults(d), DefaultsKeys)
      /\ (\A i \in 1..Size(d, "check") : Decodes(Nth(d, "check", i), CheckKeys))
      /\ (\A i \in 1..Size(d, "alert") : Decodes(Nth(d, "alert", i), AlertKeys))
  BY DEF Decodable
<1>6. /\ key \in DOMAIN d[Root]
      /\ \/ key = "defaults" /\ TablesAt(f, Root, key) = {0}
         \/ /\ key = "check" \/ key = "alert"
            /\ x \in Nat \ {0} /\ TablesAt(f, Root, key) \subseteq 1..x /\ d[Root][key] = Tables(x)
  BY <1>1, <1>4, <1>5, TopDecoded
<1>7. One(key, y) = << << key, y >> >> BY <1>1, OneIs
<1> HIDE DEF d, p, x, y, key
<1>8. ASSUME NEW keys, Decodes(d[One(key, y)], keys),
             \A k \in DOMAIN keys : keys[k] \in Types \ {"table", "tables"}
      PROVE  Len(p) = 1
  <2> SUFFICES ASSUME Len(p) # 1
               PROVE  FALSE
    OBVIOUS
  <2> QED BY <1>1, <1>8, NoneBelow DEF d
<1>9. CASE key = "defaults" /\ TablesAt(f, Root, key) = {0}
  <2>1. y = 0 BY <1>4, <1>9
  <2>2. Defaults(d) = d[One(key, y)] BY <1>6, <1>7, <1>9, <2>1 DEF Defaults, HasDefaults
  <2>3. Len(p) = 1 BY <1>5, <1>8, <2>2, TypesTell
  <2> QED BY <1>1, <1>3, <1>9, <2>1, <2>3 DEF p
<1>10. ASSUME NEW k \in {"check", "alert"}, key = k, x \in Nat \ {0},
              TablesAt(f, Root, key) \subseteq 1..x, d[Root][key] = Tables(x)
       PROVE  y \in 1..Size(d, k) /\ Nth(d, k, y) = d[One(key, y)]
  <2>1. Size(d, k) = x BY <1>6, <1>10 DEF Size, Tables
  <2> QED BY <1>4, <1>7, <1>10, <2>1 DEF Nth
<1>11. CASE key = "check" /\ x \in Nat \ {0} /\ TablesAt(f, Root, key) \subseteq 1..x /\ d[Root][key] = Tables(x)
  <2>1. y \in 1..Size(d, "check") /\ Nth(d, "check", y) = d[One(key, y)] BY <1>10, <1>11
  <2>2. Decodes(d[One(key, y)], CheckKeys) BY <1>5, <2>1
  <2>3. Len(p) = 1 BY <1>8, <2>2, TypesTell
  <2>4. y # 0 BY <1>4, <1>11
  <2> QED BY <1>1, <1>2, <1>11, <2>3, <2>4 DEF p
<1>12. CASE key = "alert" /\ x \in Nat \ {0} /\ TablesAt(f, Root, key) \subseteq 1..x /\ d[Root][key] = Tables(x)
  <2>1. y \in 1..Size(d, "alert") /\ Nth(d, "alert", y) = d[One(key, y)] BY <1>10, <1>12
  <2>2. Decodes(d[One(key, y)], AlertKeys) BY <1>5, <2>1
  <2>3. Len(p) = 1 BY <1>8, <2>2, TypesTell
  <2>4. y # 0 BY <1>4, <1>12
  <2> QED BY <1>1, <1>2, <1>12, <2>3, <2>4 DEF p
<1> QED BY <1>6, <1>9, <1>11, <1>12

\* What the documented headers name.
LEMMA HeaderNames ==
  ASSUME NEW f, Whole(f), HeadersKnown(f), NEW j \in HeaderLines(f, Len(f))
  PROVE  LET key == f[j].path[1]
             y   == Position(f, << key >>, j)
         IN  /\ key \in Keys /\ y \in Nat /\ f[j].path = << key >> /\ Location(f, j) = One(key, y)
             /\ \/ key = "defaults" /\ y = 0 /\ f[j].kind = "table"
                \/ /\ key = "check" \/ key = "alert"
                   /\ f[j].kind = "tables" /\ j \in Begins(f, key)
                   /\ y \in 1..Cardinality(Begins(f, key)) /\ NthLine(Begins(f, key), y) = j
<1> DEFINE p == f[j].path
           key == p[1]
           y == Position(f, << key >>, j)
<1>1. \/ f[j].kind = "table" /\ p = << "defaults" >>
      \/ f[j].kind = "tables" /\ (p = << "check" >> \/ p = << "alert" >>)
  BY DEF HeadersKnown
<1>2. /\ Len(p) = 1
      /\ \/ f[j].kind = "table" /\ key = "defaults"
         \/ f[j].kind = "tables" /\ (key = "check" \/ key = "alert")
  <2>1. \A x : Len(<< x >>) = 1 /\ << x >>[1] = x OBVIOUS
  <2> HIDE DEF p
  <2> QED BY <1>1, <2>1, Zenon DEF key
<1>3. key \in Keys /\ y \in Nat /\ p = << key >> /\ Location(f, j) = One(key, y)
  BY <1>2, HeaderLeads
<1>4. CASE f[j].kind = "table"
  <2>1. y = 0 BY <1>3, <1>4, TableFirst
  <2> QED BY <1>2, <1>3, <1>4, <2>1
<1>5. CASE f[j].kind = "tables"
  <2> DEFINE H == Begins(f, key)
  <2>1. j \in H /\ y = UpTo(H, j) /\ UpTo(H, j) \in 1..Cardinality(H) /\ NthLine(H, UpTo(H, j)) = j
    BY <1>3, <1>5, ArrayFirst DEF Begins
  <2> HIDE DEF H, y
  <2>2. y \in 1..Cardinality(H) /\ NthLine(H, y) = j BY <2>1
  <2> QED BY <1>2, <1>3, <1>5, <2>1, <2>2 DEF H, y
<1> QED BY <1>2, <1>4, <1>5

\* No two name the same.
LEMMA HeadersApart ==
  ASSUME NEW f, Whole(f), HeadersKnown(f), NEW j \in HeaderLines(f, Len(f)),
         NEW k \in HeaderLines(f, Len(f)), Location(f, j) = Location(f, k)
  PROVE  j = k
<1>1. ASSUME NEW i \in HeaderLines(f, Len(f)), NEW l \in HeaderLines(f, Len(f)), i < l,
             f[l].kind = "table", Location(f, i) = Location(f, l)
      PROVE  FALSE
  <2>1. /\ i \in 1..Len(f) /\ l \in 1..Len(f) /\ Len(f) \in Nat
        /\ f[i].kind \in {"table", "tables"}
    BY WholeIs DEF HeaderLines
  <2>2. i \in HeaderLines(f, l - 1) BY <1>1, <2>1 DEF HeaderLines
  <2>3. \E key \in Keys, n \in Nat : Location(f, l) = One(key, n) BY HeaderNames
  <2>4. LastPlace(Location(f, l)) \in Places(Location(f, i)) BY <1>1, <2>3, PlaceOfOne
  <2>5. NoClash(f, Len(f)) BY DEF Whole, Readable
  <2>6. f[l].kind = "tables" BY <2>2, <2>4, <2>5 DEF NoClash
  <2> QED BY <1>1, <2>6
<1> DEFINE key == f[j].path[1]
           y   == Position(f, << key >>, j)
           key2 == f[k].path[1]
           y2   == Position(f, << key2 >>, k)
           B(x) == Begins(f, x)
<1>2. /\ key \in Keys /\ y \in Nat /\ Location(f, j) = One(key, y)
      /\ \/ key = "defaults" /\ f[j].kind = "table"
         \/ (key = "check" \/ key = "alert") /\ NthLine(B(key), y) = j
  BY HeaderNames
<1>3. /\ key2 \in Keys /\ y2 \in Nat /\ Location(f, k) = One(key2, y2)
      /\ \/ key2 = "defaults" /\ f[k].kind = "table"
         \/ (key2 = "check" \/ key2 = "alert") /\ NthLine(B(key2), y2) = k
  BY HeaderNames
<1> HIDE DEF key, y, key2, y2
<1>4. key = key2 /\ y = y2
  <2>1. One(key, y) = One(key2, y2) BY <1>2, <1>3
  <2> QED BY <1>2, <1>3, <2>1, OneIs
<1>5. CASE key = "defaults"
  <2>1. j \in Nat /\ k \in Nat BY DEF HeaderLines
  <2>2. f[j].kind = "table" /\ f[k].kind = "table" BY <1>2, <1>3, <1>4, <1>5
  <2>3. ~(j < k) /\ ~(k < j) BY <1>1, <2>2
  <2> QED BY <2>1, <2>3
<1>6. CASE key # "defaults" BY <1>2, <1>3, <1>4, <1>6
<1> QED BY <1>5, <1>6

\* The tables are those that headers name.
LEMMA LocatedIs ==
  ASSUME NEW f, Whole(f), HeadersKnown(f)
  PROVE  \A l : l \in Located(f) <=> l = Root \/ \E j \in HeaderLines(f, Len(f)) : l = Location(f, j)
<1>1. Written(f) /\ Len(f) \in 0..Len(f) BY WholeIs DEF Whole
<1>2. ASSUME NEW j \in HeaderLines(f, Len(f))
      PROVE  /\ 1..Len(f[j].path) = {1}
             /\ Live(f, SubSeq(f[j].path, 1, 1), j) = Location(f, j)
  <2> DEFINE key == f[j].path[1]
             p == f[j].path
  <2>1. key \in Keys /\ p = << key >> BY HeaderNames
  <2>2. Location(f, j) = Live(f, p, j) BY <1>1, LocationIs
  <2> HIDE DEF key, p
  <2>3. Len(p) = 1 /\ SubSeq(p, 1, 1) = p
    <3>1. p \in Paths /\ p \in Seq(Keys) /\ Len(p) = 1 BY <2>1, SingleIs DEF Paths
    <3> QED BY <3>1
  <2>4. 1..Len(p) = {1} BY <2>3
  <2> QED BY <2>2, <2>3, <2>4 DEF p
<1>3. \A l : l \in Located(f) <=>
              \/ l = Root
              \/ \E j \in HeaderLines(f, Len(f)) : \E m \in 1..Len(f[j].path) :
                   l = Live(f, SubSeq(f[j].path, 1, m), j)
  BY <1>1, LocationsAre DEF Located
<1>4. \A j \in HeaderLines(f, Len(f)) : \A l :
        (\E m \in 1..Len(f[j].path) : l = Live(f, SubSeq(f[j].path, 1, m), j)) <=> l = Location(f, j)
  <2> SUFFICES ASSUME NEW j \in HeaderLines(f, Len(f)), NEW l
               PROVE  (\E m \in 1..Len(f[j].path) : l = Live(f, SubSeq(f[j].path, 1, m), j))
                        <=> l = Location(f, j)
    OBVIOUS
  <2> DEFINE live(m) == Live(f, SubSeq(f[j].path, 1, m), j)
             loc == Location(f, j)
             ms == 1..Len(f[j].path)
  <2>1. ms = {1} /\ live(1) = loc BY <1>2
  <2> HIDE DEF live, loc, ms
  <2>2. (\E m \in ms : l = live(m)) <=> l = loc BY <2>1
  <2> QED BY <2>2, Zenon DEF live, loc, ms
<1> DEFINE way(l, j) == \E m \in 1..Len(f[j].path) : l = Live(f, SubSeq(f[j].path, 1, m), j)
           loc(j) == Location(f, j)
           H == HeaderLines(f, Len(f))
<1>5. /\ \A l : l \in Located(f) <=> l = Root \/ \E j \in H : way(l, j)
      /\ \A j \in H : \A l : way(l, j) <=> l = loc(j)
  BY <1>3, <1>4, Zenon
<1> HIDE DEF way, loc, H
<1>6. \A l : l \in Located(f) <=> l = Root \/ \E j \in H : l = loc(j) BY <1>5
<1> QED BY <1>6 DEF loc, H

\* Below the root there are the tables of the headers.
LEMMA TopTables ==
  ASSUME NEW f, Whole(f), HeadersKnown(f), NEW key \in Keys
  PROVE  /\ key = "defaults" =>
              /\ TablesAt(f, Root, key) \subseteq {0}
              /\ TablesAt(f, Root, key) # {} <=>
                   \E j \in HeaderLines(f, Len(f)) : f[j].path[1] = "defaults"
         /\ key = "check" \/ key = "alert" =>
              /\ Cardinality(Begins(f, key)) \in Nat
              /\ TablesAt(f, Root, key) = 1..Cardinality(Begins(f, key))
         /\ key \notin {"defaults", "check", "alert"} => TablesAt(f, Root, key) = {}
<1> DEFINE ps == TablesAt(f, Root, key)
           H == HeaderLines(f, Len(f))
           B == Begins(f, key)
           nth(j) == Position(f, << key >>, j)
<1>1. \A y : y \in ps <=> y \in Nat /\ One(key, y) \in Located(f) BY TopIs
<1>2. \A y : y \in ps <=> \E j \in H : f[j].path[1] = key /\ y = nth(j)
  <2>1. ASSUME NEW j \in H, NEW y \in Nat
        PROVE  One(key, y) = Location(f, j) <=> f[j].path[1] = key /\ y = nth(j)
    <3> DEFINE key2 == f[j].path[1]
               y2 == Position(f, << key2 >>, j)
    <3>1. key2 \in Keys /\ y2 \in Nat /\ Location(f, j) = One(key2, y2) BY HeaderNames
    <3> HIDE DEF y2, key2
    <3>2. One(key, y) = Location(f, j) <=> key = key2 /\ y = y2 BY <3>1, OneIs
    <3> QED BY <3>2, Zenon DEF y2, key2
  <2>2. \A j \in H : f[j].path[1] = key => nth(j) \in Nat BY HeaderNames
  <2>3. \A y \in Nat : One(key, y) # Root BY OneIs
  <2>4. \A y \in Nat : One(key, y) \in Located(f) <=> \E j \in H : One(key, y) = Location(f, j)
    BY <2>3, LocatedIs
  <2> HIDE DEF ps, H, nth
  <2> QED BY <1>1, <2>1, <2>2, <2>4
<1>3. ASSUME NEW j \in H, f[j].path[1] = key
      PROVE  \/ key = "defaults" /\ nth(j) = 0
             \/ /\ key = "check" \/ key = "alert"
                /\ nth(j) \in 1..Cardinality(B)
  BY <1>3, HeaderNames
<1>4. /\ Cardinality(B) \in Nat
      /\ \A n \in 1..Cardinality(B) : \E j \in H : f[j].path[1] = key /\ n = nth(j)
  <2>1. /\ Len(f) \in Nat /\ B \in SUBSET (1..Len(f)) /\ Written(f)
        /\ \A j \in B : j \in H /\ j \in 0..Len(f) /\ f[j].path = << key >>
    BY WholeIs DEF Whole, Begins, HeadersFor, HeaderLines, ArrayHeader
  <2>2. \A j \in B : nth(j) = UpTo(B, j) BY <2>1, PositionCounts DEF Begins
  <2>3. \A j \in B : f[j].path[1] = key BY <2>1
  <2> HIDE DEF B, H, nth
  <2>4. Cardinality(B) \in Nat BY <2>1, UpToStep
  <2>5. \A n \in 1..Cardinality(B) : NthLine(B, n) \in B /\ UpTo(B, NthLine(B, n)) = n
    BY <2>1, NumberedLines
  <2> QED BY <2>1, <2>2, <2>3, <2>4, <2>5
<1> HIDE DEF ps, H, B, nth
<1>5. CASE key = "defaults"
  <2>1. ps \subseteq {0} BY <1>2, <1>3, <1>5
  <2>2. ps # {} <=> \E j \in H : f[j].path[1] = "defaults" BY <1>2, <1>5, Zenon
  <2> QED BY <1>5, <2>1, <2>2 DEF ps, H
<1>6. CASE key = "check" \/ key = "alert"
  <2>1. ps = 1..Cardinality(B) BY <1>2, <1>3, <1>4, <1>6
  <2> QED BY <1>4, <1>6, <2>1 DEF ps, B
<1>7. CASE key \notin {"defaults", "check", "alert"}
  <2>1. ps = {} BY <1>2, <1>3, <1>7
  <2> QED BY <1>7, <2>1 DEF ps
<1> QED BY <1>5, <1>6, <1>7

\* Below those there are none.
LEMMA NoneUnder ==
  ASSUME NEW f, Whole(f), HeadersKnown(f), NEW j \in HeaderLines(f, Len(f)), NEW key \in Keys
  PROVE  TablesAt(f, Location(f, j), key) = {}
<1> SUFFICES ASSUME NEW y, y \in TablesAt(f, Location(f, j), key)
             PROVE  FALSE
  OBVIOUS
<1> DEFINE t == Location(f, j)
<1>1. \A i \in HeaderLines(f, Len(f)) : Location(f, i) \in Locs /\ Len(Location(f, i)) = 1
  <2> SUFFICES ASSUME NEW i \in HeaderLines(f, Len(f))
               PROVE  Location(f, i) \in Locs /\ Len(Location(f, i)) = 1
    OBVIOUS
  <2>1. \E k \in Keys, n \in Nat : Location(f, i) = One(k, n) BY HeaderNames
  <2> QED BY <2>1, OneIs
<1>2. t \in Locs /\ Len(t) = 1 /\ IsTree(Located(f)) BY <1>1, WholeIs
<1>3. y \in Nat /\ Then(t, Seg(key, y)) \in Located(f) BY <1>2, PositionsAre DEF TablesAt
<1> HIDE DEF t
<1>4. Len(Then(t, Seg(key, y))) = 2 /\ Then(t, Seg(key, y)) # << >>
  <2>1. Seg(key, y) \in Segments BY <1>3, SegIs
  <2> DEFINE e == Seg(key, y)
  <2> HIDE DEF e
  <2>2. Len(Then(t, e)) = Len(t) + 1 /\ Then(t, e) # << >> BY <1>2, <2>1, LocThen DEF e
  <2> QED BY <1>2, <2>2 DEF e
<1>5. Then(t, Seg(key, y)) # Root BY <1>4, SingleIs
<1>6. PICK i \in HeaderLines(f, Len(f)) : Then(t, Seg(key, y)) = Location(f, i)
  BY <1>3, <1>5, LocatedIs
<1> DEFINE l == Location(f, i)
<1> HIDE DEF l
<1>7. Len(l) = 2 /\ Len(l) = 1 BY <1>1, <1>4, <1>6 DEF l
<1> QED BY <1>7

-----------------------------------------------------------------------------
(***************************************************************************)
(* What the decoder finds, and what the lines say.                         *)
(***************************************************************************)

\* What is found there.
LEMMA TableKeys ==
  ASSUME NEW f, Whole(f), HeadersKnown(f), NEW j \in Tops(f)
  PROVE  LET t == TableOf(f, j)
             d == Document(f, Len(f))
         IN  /\ t \in Located(f) /\ DOMAIN d[t] \subseteq Keys
             /\ \A key : \A i \in Givings(f, j, key) :
                  /\ key \in DOMAIN d[t] /\ d[t][key] = Said(f, i)
                  /\ Said(f, i).is \notin {"table", "tables"}
                  /\ Givings(f, j, key) = {i}
             /\ \A key \in DOMAIN d[t] : Givings(f, j, key) # {} \/ TablesAt(f, t, key) # {}
             /\ \A key \in Keys : /\ TablesAt(f, t, key) # {} => key \in DOMAIN d[t]
                                  /\ j # 0 => TablesAt(f, t, key) = {}
<1> DEFINE t == TableOf(f, j)
           d == Document(f, Len(f))
           H == HeaderLines(f, Len(f))
<1>1. t \in Located(f) BY WholeIs, LocatedIs DEF TableOf, Tops, IsTree
<1>2. ASSUME NEW i \in Assignments(f)
      PROVE  TableAt(f, i) = t <=> Above(f, i) = j
  <2>1. Above(f, i) \in Tops(f)
    <3>1. Written(f) /\ i \in 1..Len(f) /\ Len(f) \in Nat BY <1>2, WholeIs DEF Whole
    <3>2. i - 1 \in 0..Len(f) /\ (i - 1) + 1 = i BY <3>1
    <3>3. Above(f, (i - 1) + 1) \in HeaderLines(f, i - 1) \cup {0} BY <3>1, <3>2, AboveIs
    <3>4. HeaderLines(f, i - 1) \subseteq H BY <3>1 DEF HeaderLines
    <3> QED BY <3>2, <3>3, <3>4 DEF Tops
  <2>2. TableAt(f, i) = TableOf(f, Above(f, i)) BY DEF TableAt, TableOf
  <2>3. \A k \in H : Location(f, k) # Root
    <3> SUFFICES ASSUME NEW k \in H
                 PROVE  Location(f, k) # Root
      OBVIOUS
    <3>1. \E key \in Keys, n \in Nat : Location(f, k) = One(key, n) BY HeaderNames
    <3> QED BY <3>1, OneIs
  <2>4. 0 \notin H BY DEF HeaderLines
  <2> DEFINE k == Above(f, i)
  <2> HIDE DEF H, k
  <2>5. ASSUME NEW a \in H \cup {0}, NEW b \in H \cup {0}, TableOf(f, a) = TableOf(f, b)
        PROVE  a = b
    <3>1. CASE a = 0 \/ b = 0 BY <2>3, <2>5, <3>1 DEF TableOf
    <3>2. CASE a # 0 /\ b # 0
      <4>1. a \in H /\ b \in H /\ Location(f, a) = Location(f, b) BY <2>5, <3>2 DEF TableOf
      <4> QED BY <4>1, HeadersApart DEF H
    <3> QED BY <3>1, <3>2
  <2>6. k \in H \cup {0} /\ j \in H \cup {0} BY <2>1 DEF Tops, H, k
  <2>7. TableOf(f, k) = TableOf(f, j) <=> k = j BY <2>5, <2>6
  <2> QED BY <2>2, <2>7 DEF k
<1>3. /\ DOMAIN d[t] \subseteq Keys
      /\ \A key \in Keys :
           /\ key \in DOMAIN d[t] <=> << t, key >> \in DOMAIN Assigned(f) \/ TablesAt(f, t, key) # {}
           /\ << t, key >> \in DOMAIN Assigned(f) => d[t][key] = Assigned(f)[<< t, key >>]
  BY <1>1, DocumentKeys
<1>4. /\ DOMAIN Assigned(f) = {Place(f, i) : i \in Assignments(f)}
      /\ \A i \in Assignments(f) :
           /\ Assigned(f)[Place(f, i)] = Said(f, i) /\ Said(f, i).is \notin {"table", "tables"}
           /\ f[i].key \in Keys
      /\ \A i, k \in Assignments(f) : Place(f, i) = Place(f, k) => i = k
  BY WholeIs
<1> HIDE DEF t, d
<1>5. ASSUME NEW key, NEW i \in Givings(f, j, key)
      PROVE  i \in Assignments(f) /\ Place(f, i) = << t, key >> /\ key \in Keys
  <2>1. i \in Assignments(f) /\ Above(f, i) = j /\ f[i].key = key BY DEF Givings, Assignments
  <2>2. TableAt(f, i) = t BY <1>2, <2>1
  <2>3. Place(f, i) = << TableAt(f, i), f[i].key >> BY DEF Place
  <2> QED BY <1>4, <2>1, <2>2, <2>3
<1>6. ASSUME NEW key, NEW i \in Givings(f, j, key)
      PROVE  /\ key \in DOMAIN d[t] /\ d[t][key] = Said(f, i)
             /\ Said(f, i).is \notin {"table", "tables"}
             /\ Givings(f, j, key) = {i}
  <2> DEFINE p == << t, key >>
  <2>1. i \in Assignments(f) /\ Place(f, i) = p /\ key \in Keys BY <1>5
  <2>2. p \in DOMAIN Assigned(f) /\ Assigned(f)[p] = Said(f, i)
    <3> HIDE DEF p
    <3>1. Place(f, i) \in DOMAIN Assigned(f) BY <1>4, <2>1, Zenon
    <3> QED BY <1>4, <2>1, <3>1
  <2>3. \A k \in Givings(f, j, key) : k = i
    <3> SUFFICES ASSUME NEW k \in Givings(f, j, key)
                 PROVE  k = i
      OBVIOUS
    <3>1. k \in Assignments(f) /\ Place(f, k) = p BY <1>5
    <3> HIDE DEF p
    <3> QED BY <1>4, <2>1, <3>1
  <2>4. Givings(f, j, key) = {i} BY <2>3
  <2> QED BY <1>3, <1>4, <2>1, <2>2, <2>4
<1>7. ASSUME NEW key \in DOMAIN d[t]
      PROVE  Givings(f, j, key) # {} \/ TablesAt(f, t, key) # {}
  <2> SUFFICES ASSUME TablesAt(f, t, key) = {}
               PROVE  Givings(f, j, key) # {}
    OBVIOUS
  <2>1. << t, key >> \in DOMAIN Assigned(f) /\ key \in Keys BY <1>3
  <2>2. PICK i \in Assignments(f) : << t, key >> = Place(f, i) BY <1>4, <2>1, Zenon
  <2>3. TableAt(f, i) = t /\ f[i].key = key BY <2>2 DEF Place
  <2>4. i \in Givings(f, j, key) BY <1>2, <2>3 DEF Givings, Assignments
  <2> QED BY <2>4
<1>8. ASSUME NEW key \in Keys
      PROVE  /\ TablesAt(f, t, key) # {} => key \in DOMAIN d[t]
             /\ j # 0 => TablesAt(f, t, key) = {}
  <2>1. j # 0 => j \in H /\ t = Location(f, j) BY DEF Tops, TableOf, t
  <2> QED BY <1>3, <2>1, NoneUnder
<1> QED BY <1>1, <1>3, <1>6, <1>7, <1>8 DEF t, d

\* At the root there stand the tables and the lists, too.
LEMMA RootKeys ==
  ASSUME NEW f, Whole(f), HeadersKnown(f), NEW key \in Keys, TablesAt(f, Root, key) # {}
  PROVE  /\ key \in DOMAIN TopKeys /\ HasType(Document(f, Len(f))[Root][key], TopKeys[key])
         /\ key = "defaults" =>
              /\ Document(f, Len(f))[Root][key] = Table
              /\ \E j \in HeaderLines(f, Len(f)) : f[j].path[1] = "defaults"
         /\ key = "check" \/ key = "alert" =>
              Document(f, Len(f))[Root][key] = Tables(Cardinality(Begins(f, key)))
<1> DEFINE ps == TablesAt(f, Root, key)
           v  == Document(f, Len(f))[Root][key]
           x  == Cardinality(Begins(f, key))
<1>1. Root \in Located(f) BY WholeIs DEF IsTree
<1>2. (ps = {0} => v = Table) /\ (ps # {0} => v = Tables(Max(ps))) BY <1>1, DocumentKeys
<1>3. /\ key = "defaults" => ps \subseteq {0} /\ \E j \in HeaderLines(f, Len(f)) : f[j].path[1] = "defaults"
      /\ key = "check" \/ key = "alert" => x \in Nat /\ ps = 1..x
      /\ key \in {"defaults", "check", "alert"}
  BY TopTables
<1>4. ps # {} OBVIOUS
<1> HIDE DEF ps, v, x
<1>5. CASE key = "defaults"
  <2>1. v = Table BY <1>2, <1>3, <1>4, <1>5
  <2>2. HasType(v, TopKeys["defaults"]) /\ "defaults" \in DOMAIN TopKeys
    BY <2>1 DEF Table, HasType, TopKeys
  <2> QED BY <1>3, <1>5, <2>1, <2>2 DEF v
<1>6. CASE key = "check" \/ key = "alert"
  <2>1. x \in Nat /\ ps = 1..x BY <1>3, <1>6
  <2>2. x \in ps /\ ps \subseteq 0..x /\ 0 \notin ps BY <1>4, <2>1
  <2>3. Max(ps) = x BY <2>1, <2>2, MaxIs
  <2>4. v = Tables(x) BY <1>2, <2>2, <2>3
  <2>5. /\ HasType(v, TopKeys["check"]) /\ "check" \in DOMAIN TopKeys
        /\ HasType(v, TopKeys["alert"]) /\ "alert" \in DOMAIN TopKeys
    BY <2>4 DEF Tables, HasType, TopKeys
  <2>6. key \in DOMAIN TopKeys /\ HasType(v, TopKeys[key]) BY <1>6, <2>5
  <2> QED BY <1>6, <2>4, <2>6 DEF v, x
<1> QED BY <1>3, <1>5, <1>6

\* A table decodes if its lines are documented.
LEMMA DecodesIs ==
  ASSUME NEW f, Whole(f), HeadersKnown(f), NEW j \in Tops(f), NEW keys, j = 0 => keys = TopKeys
  PROVE  Decodes(Document(f, Len(f))[TableOf(f, j)], keys) <=> GivesOnly(f, j, keys)
<1> DEFINE t == TableOf(f, j)
           d == Document(f, Len(f))
           u == d[t]
<1>1. /\ DOMAIN u \subseteq Keys
      /\ \A key : \A i \in Givings(f, j, key) : key \in DOMAIN u /\ u[key] = Said(f, i)
      /\ \A key \in DOMAIN u : Givings(f, j, key) # {} \/ TablesAt(f, t, key) # {}
      /\ \A key \in Keys : j # 0 => TablesAt(f, t, key) = {}
  BY TableKeys
<1>2. \A key : \A i : i \in Givings(f, j, key) <=> i \in Assignments(f) /\ Above(f, i) = j /\ f[i].key = key
  BY DEF Givings, Assignments
<1>3. \A key \in DOMAIN u : Givings(f, j, key) = {} =>
        key \in DOMAIN keys /\ HasType(u[key], keys[key])
  <2> SUFFICES ASSUME NEW key \in DOMAIN u, Givings(f, j, key) = {}
               PROVE  key \in DOMAIN keys /\ HasType(u[key], keys[key])
    OBVIOUS
  <2>1. key \in Keys /\ TablesAt(f, t, key) # {} /\ j = 0 BY <1>1
  <2>2. t = Root /\ keys = TopKeys BY <2>1 DEF TableOf
  <2> HIDE DEF t, u, d
  <2>3. TablesAt(f, Root, key) # {} BY <2>1, <2>2
  <2>4. key \in DOMAIN TopKeys /\ HasType(Document(f, Len(f))[Root][key], TopKeys[key])
    BY <2>1, <2>3, RootKeys
  <2> QED BY <2>2, <2>4 DEF u, d
<1> HIDE DEF u
<1>4. ASSUME Decodes(u, keys)
      PROVE  GivesOnly(f, j, keys)
  <2> SUFFICES ASSUME NEW i \in Assignments(f), Above(f, i) = j
               PROVE  f[i].key \in DOMAIN keys /\ HasType(Said(f, i), keys[f[i].key])
    BY DEF GivesOnly
  <2> DEFINE key == f[i].key
  <2>1. i \in Givings(f, j, key) BY <1>2
  <2>2. key \in DOMAIN u /\ u[key] = Said(f, i) BY <1>1, <2>1
  <2> HIDE DEF key
  <2>3. key \in DOMAIN keys /\ HasType(Said(f, i), keys[key]) BY <1>4, <2>2 DEF Decodes
  <2> QED BY <2>3 DEF key
<1>5. ASSUME GivesOnly(f, j, keys)
      PROVE  Decodes(u, keys)
  <2> SUFFICES ASSUME NEW key \in DOMAIN u, Givings(f, j, key) # {}
               PROVE  key \in DOMAIN keys /\ HasType(u[key], keys[key])
    BY <1>3 DEF Decodes
  <2>1. PICK i \in Givings(f, j, key) : TRUE OBVIOUS
  <2>2. i \in Assignments(f) /\ Above(f, i) = j /\ f[i].key = key /\ u[key] = Said(f, i)
    BY <1>1, <1>2, <2>1
  <2>3. f[i].key \in DOMAIN keys /\ HasType(Said(f, i), keys[f[i].key]) BY <1>5, <2>2 DEF GivesOnly
  <2> QED BY <2>2, <2>3
<1> QED BY <1>4, <1>5 DEF u

\* Where the decoder looks for the tables of a file whose top it accepts.
LEMMA TopsAre ==
  ASSUME NEW f, Whole(f), HeadersKnown(f), Decodes(Document(f, Len(f))[Root], TopKeys)
  PROVE  LET d == Document(f, Len(f)) IN
         /\ HasDefaults(d) <=> HeadersFor(f, Header(<< "defaults" >>)) # {}
         /\ \A j \in HeadersFor(f, Header(<< "defaults" >>)) :
              j \in Tops(f) /\ j # 0 /\ f[j].path[1] = "defaults" /\ Defaults(d) = d[TableOf(f, j)]
         /\ \A key \in {"check", "alert"} :
              /\ Size(d, key) = Cardinality(Begins(f, key)) /\ Cardinality(Begins(f, key)) \in Nat
              /\ \A n \in 1..Cardinality(Begins(f, key)) : LET j == NthLine(Begins(f, key), n) IN
                   /\ j \in Tops(f) /\ j # 0 /\ f[j].path[1] = key /\ Nth(d, key, n) = d[TableOf(f, j)]
<1> DEFINE d == Document(f, Len(f))
           H == HeaderLines(f, Len(f))
           D == HeadersFor(f, Header(<< "defaults" >>))
<1>1. /\ Root \in Located(f) /\ 0 \in Tops(f) /\ TableOf(f, 0) = Root
      /\ H \in SUBSET (1..Len(f)) /\ Len(f) \in Nat /\ H \subseteq Tops(f)
  BY WholeIs DEF IsTree, Tops, TableOf, HeaderLines
<1>2. ASSUME NEW key \in DOMAIN d[Root], key \in {"defaults", "check", "alert"}
      PROVE  key \in Keys /\ TablesAt(f, Root, key) # {}
  <2>1. key \in Keys /\ (Givings(f, 0, key) # {} \/ TablesAt(f, Root, key) # {}) BY <1>1, TableKeys
  <2>2. \A i \in Givings(f, 0, key) : d[Root][key] = Said(f, i) /\ Said(f, i).is \notin {"table", "tables"}
    BY <1>1, TableKeys
  <2>3. d[Root][key].is \in {"table", "tables"}
    <3>1. HasType(d[Root][key], TopKeys[key]) BY DEF Decodes
    <3>2. TopKeys[key] \in {"table", "tables"} BY <1>2 DEF TopKeys
    <3> QED BY <3>1, <3>2 DEF HasType
  <2> QED BY <2>1, <2>2, <2>3
<1>3. ASSUME NEW key \in Keys, TablesAt(f, Root, key) # {}
      PROVE  key \in DOMAIN d[Root]
  BY <1>1, <1>3, TableKeys
<1>4. ASSUME NEW j \in D
      PROVE  /\ j \in H /\ f[j].path[1] = "defaults" /\ "defaults" \in Keys
             /\ Location(f, j) = << << "defaults", 0 >> >>
  <2>1. j \in H /\ f[j].path = << "defaults" >> BY DEF HeadersFor, Header
  <2>2. f[j].path[1] = "defaults" BY <2>1
  <2> DEFINE key == f[j].path[1]
             y == Position(f, << key >>, j)
  <2>3. key \in Keys /\ y \in Nat /\ Location(f, j) = One(key, y) /\ (key = "defaults" => y = 0)
    BY <2>1, HeaderNames
  <2> HIDE DEF y, key
  <2>4. key = "defaults" BY <2>2 DEF key
  <2>5. One(key, y) = << << key, y >> >> BY <2>3, OneIs
  <2> QED BY <2>1, <2>2, <2>3, <2>4, <2>5
<1>5. \A j \in H : f[j].path[1] = "defaults" => j \in D
  <2> SUFFICES ASSUME NEW j \in H, f[j].path[1] = "defaults"
               PROVE  j \in D
    OBVIOUS
  <2>1. f[j].kind = "table" /\ f[j].path = << f[j].path[1] >> BY HeaderNames
  <2> QED BY <2>1 DEF HeadersFor, Header
<1> HIDE DEF d, D
<1>6. HasDefaults(d) <=> D # {}
  <2>1. ASSUME "defaults" \in DOMAIN d[Root]
        PROVE  D # {}
    <3>1. "defaults" \in Keys /\ TablesAt(f, Root, "defaults") # {} BY <1>2, <2>1
    <3>2. \E j \in H : f[j].path[1] = "defaults" BY <3>1, RootKeys
    <3> QED BY <1>5, <3>2
  <2>2. ASSUME NEW j \in D
        PROVE  "defaults" \in DOMAIN d[Root]
    <3>1. "defaults" \in Keys /\ j \in H /\ f[j].path[1] = "defaults" BY <1>4
    <3>2. TablesAt(f, Root, "defaults") # {} BY <3>1, TopTables
    <3> QED BY <1>3, <3>1, <3>2
  <2> QED BY <2>1, <2>2 DEF HasDefaults
<1>7. ASSUME NEW j \in D
      PROVE  j \in Tops(f) /\ j # 0 /\ f[j].path[1] = "defaults" /\ Defaults(d) = d[TableOf(f, j)]
  <2>1. j \in H /\ f[j].path[1] = "defaults" /\ Location(f, j) = << << "defaults", 0 >> >> BY <1>4
  <2>2. j \in Tops(f) /\ j # 0 BY <1>1, <2>1
  <2>3. TableOf(f, j) = << << "defaults", 0 >> >> BY <2>1, <2>2 DEF TableOf
  <2>4. HasDefaults(d) BY <1>6
  <2> QED BY <2>1, <2>2, <2>3, <2>4 DEF Defaults
<1>8. ASSUME NEW key \in {"check", "alert"}
      PROVE  /\ Size(d, key) = Cardinality(Begins(f, key)) /\ Cardinality(Begins(f, key)) \in Nat
             /\ \A n \in 1..Cardinality(Begins(f, key)) : LET j == NthLine(Begins(f, key), n) IN
                  /\ j \in Tops(f) /\ j # 0 /\ f[j].path[1] = key /\ Nth(d, key, n) = d[TableOf(f, j)]
  <2> DEFINE B == Begins(f, key)
             x == Cardinality(B)
  <2>1. /\ B \in SUBSET (1..Len(f))
        /\ \A j \in B : j \in H /\ f[j].kind = "tables" /\ f[j].path = << key >>
    BY <1>1 DEF Begins, HeadersFor, ArrayHeader
  <2> HIDE DEF B
  <2>2. x \in Nat BY <1>1, <2>1, UpToStep
  <2>3. ASSUME NEW j \in B
        PROVE  /\ j \in H /\ f[j].path[1] = key /\ key \in Keys
               /\ Location(f, j) = << << key, Position(f, << key >>, j) >> >>
               /\ Position(f, << key >>, j) = UpTo(B, j)
    <3>1. j \in H /\ f[j].path = << key >> /\ f[j].kind = "tables" BY <2>1
    <3>2. f[j].path[1] = key BY <3>1
    <3> DEFINE k == f[j].path[1]
               y == Position(f, << k >>, j)
    <3>3. k \in Keys /\ y \in Nat /\ Location(f, j) = One(k, y) BY <3>1, HeaderNames
    <3> HIDE DEF y
    <3>4. One(k, y) = << << k, y >> >> BY <3>3, OneIs
    <3>5. key \in Keys /\ Location(f, j) = << << key, Position(f, << key >>, j) >> >>
      BY <3>2, <3>3, <3>4, Zenon DEF y
    <3>6. Position(f, << key >>, j) = UpTo(B, j) BY <3>1, <3>5, ArrayFirst DEF B, Begins
    <3> QED BY <3>1, <3>2, <3>5, <3>6
  <2>4. \A n \in 1..x : NthLine(B, n) \in B /\ UpTo(B, NthLine(B, n)) = n
    BY <1>1, <2>1, NumberedLines
  <2>5. Size(d, key) = x
    <3>1. CASE key \in DOMAIN d[Root]
      <4>1. key \in Keys /\ TablesAt(f, Root, key) # {} BY <1>2, <3>1
      <4>2. d[Root][key] = Tables(x) BY <4>1, RootKeys DEF d, B
      <4> QED BY <3>1, <4>2 DEF Size, Tables
    <3>2. CASE key \notin DOMAIN d[Root]
      <4>1. ASSUME NEW j \in B
            PROVE  FALSE
        <5>1. key \in Keys BY <2>3
        <5>2. TablesAt(f, Root, key) = 1..x BY <5>1, TopTables DEF B
        <5>3. TablesAt(f, Root, key) = {} BY <1>3, <3>2, <5>1
        <5>4. UpTo(B, j) \in 1..x BY <1>1, <2>1, NumberedLines
        <5> QED BY <5>2, <5>3, <5>4
      <4>2. B = {} BY <4>1
      <4> QED BY <3>2, <4>2, FS_EmptySet DEF Size
    <3> QED BY <3>1, <3>2
  <2>6. ASSUME NEW n \in 1..x
        PROVE  LET j == NthLine(B, n) IN
               j \in Tops(f) /\ j # 0 /\ f[j].path[1] = key /\ Nth(d, key, n) = d[TableOf(f, j)]
    <3> DEFINE j == NthLine(B, n)
    <3>1. j \in B /\ UpTo(B, j) = n BY <2>4
    <3> HIDE DEF j
    <3>2. j \in H /\ f[j].path[1] = key /\ Location(f, j) = << << key, n >> >> BY <2>3, <3>1
    <3>3. j \in Tops(f) /\ j # 0 /\ TableOf(f, j) = << << key, n >> >> BY <1>1, <3>2 DEF TableOf
    <3> QED BY <3>2, <3>3 DEF Nth, j
  <2> QED BY <2>2, <2>5, <2>6 DEF B
<1> QED BY <1>6, <1>7, <1>8 DEF d, D

\* Every assignment stands under one of the headers or above them all.
LEMMA AboveTops ==
  ASSUME NEW f, Whole(f), NEW i \in Assignments(f)
  PROVE  Above(f, i) \in Tops(f)
<1>1. Written(f) /\ i \in 1..Len(f) /\ Len(f) \in Nat BY WholeIs DEF Whole
<1>2. i - 1 \in 0..Len(f) /\ (i - 1) + 1 = i BY <1>1
<1>3. Above(f, (i - 1) + 1) \in HeaderLines(f, i - 1) \cup {0} BY <1>1, <1>2, AboveIs
<1>4. HeaderLines(f, i - 1) \subseteq HeaderLines(f, Len(f)) BY <1>1 DEF HeaderLines
<1> QED BY <1>2, <1>3, <1>4 DEF Tops

\* The decoder accepts the tables that the documentation describes.
LEMMA DecodableIs ==
  ASSUME NEW f, Whole(f)
  PROVE  Decodable(Document(f, Len(f))) <=> OnlyDocumented(f)
<1> DEFINE d == Document(f, Len(f))
           gives(j) == GivesOnly(f, j, KeysUnder(f, j))
<1>1. OnlyDocumented(f) <=> HeadersKnown(f) /\ \A j \in Tops(f) : gives(j)
  <2>1. \A i \in Assignments(f) : Above(f, i) \in Tops(f) BY AboveTops
  <2> DEFINE fine(i, keys) == f[i].key \in DOMAIN keys /\ HasType(Said(f, i), keys[f[i].key])
  <2>2. OnlyDocumented(f) <=>
          HeadersKnown(f) /\ \A i \in Assignments(f) : fine(i, KeysUnder(f, Above(f, i)))
    BY HeadersKnownIs DEF OnlyDocumented, Assignments, Said
  <2>3. \A j : gives(j) <=> \A i \in Assignments(f) : Above(f, i) = j => fine(i, KeysUnder(f, j))
    BY DEF GivesOnly
  <2> HIDE DEF fine, gives
  <2> QED BY <2>1, <2>2, <2>3, Zenon
<1>2. Decodable(d) => HeadersKnown(f) BY DecodedHeaders
<1>3. Decodable(d) <=>
        /\ Decodes(d[Root], TopKeys) /\ Decodes(Defaults(d), DefaultsKeys)
        /\ \A n \in 1..Size(d, "check") : Decodes(Nth(d, "check", n), CheckKeys)
        /\ \A n \in 1..Size(d, "alert") : Decodes(Nth(d, "alert", n), AlertKeys)
  BY DEF Decodable
<1> HIDE DEF gives
<1> SUFFICES ASSUME HeadersKnown(f)
             PROVE  Decodable(d) <=> \A j \in Tops(f) : gives(j)
  BY <1>1, <1>2
<1>4. /\ 0 \in Tops(f) /\ KeysUnder(f, 0) = TopKeys /\ TableOf(f, 0) = Root
      /\ \A j : j # 0 /\ f[j].path[1] = "defaults" => KeysUnder(f, j) = DefaultsKeys
      /\ \A j : j # 0 /\ f[j].path[1] = "check" => KeysUnder(f, j) = CheckKeys
      /\ \A j : j # 0 /\ f[j].path[1] = "alert" => KeysUnder(f, j) = AlertKeys
  BY DEF Tops, KeysUnder, TableOf
<1>5. \A j \in Tops(f) : gives(j) <=> Decodes(d[TableOf(f, j)], KeysUnder(f, j))
  BY <1>4, DecodesIs DEF gives
<1> DEFINE D == HeadersFor(f, Header(<< "defaults" >>))
<1>6. ASSUME Decodes(d[Root], TopKeys)
      PROVE  /\ HasDefaults(d) <=> D # {}
             /\ \A j \in D : j \in Tops(f) /\ j # 0 /\ f[j].path[1] = "defaults" /\ Defaults(d) = d[TableOf(f, j)]
             /\ \A key \in {"check", "alert"} :
                  /\ Size(d, key) = Cardinality(Begins(f, key)) /\ Cardinality(Begins(f, key)) \in Nat
                  /\ \A n \in 1..Cardinality(Begins(f, key)) : LET j == NthLine(Begins(f, key), n) IN
                       /\ j \in Tops(f) /\ j # 0 /\ f[j].path[1] = key /\ Nth(d, key, n) = d[TableOf(f, j)]
  BY <1>6, TopsAre
<1>7. \A j \in Tops(f) : j = 0 \/ j \in D
        \/ \E key \in {"check", "alert"} : \E n \in 1..Cardinality(Begins(f, key)) : j = NthLine(Begins(f, key), n)
  <2> SUFFICES ASSUME NEW j \in HeaderLines(f, Len(f))
               PROVE  j \in D \/ \E key \in {"check", "alert"} : \E n \in 1..Cardinality(Begins(f, key)) :
                                   j = NthLine(Begins(f, key), n)
    BY DEF Tops
  <2> DEFINE key == f[j].path[1]
             y == Position(f, << key >>, j)
  <2>1. /\ f[j].path = << key >>
        /\ \/ key = "defaults" /\ f[j].kind = "table"
           \/ /\ key = "check" \/ key = "alert"
              /\ y \in 1..Cardinality(Begins(f, key)) /\ NthLine(Begins(f, key), y) = j
    BY HeaderNames
  <2>2. key = "defaults" => j \in D BY <2>1 DEF HeadersFor, Header
  <2> HIDE DEF key, y, D
  <2> QED BY <2>1, <2>2
<1> HIDE DEF d, D
<1>8. ASSUME Decodable(d), NEW j \in Tops(f)
      PROVE  gives(j)
  <2>1. Decodes(d[Root], TopKeys) BY <1>3, <1>8
  <2>2. CASE j = 0 BY <1>4, <1>5, <2>1, <2>2
  <2>3. CASE j \in D
    <3>1. Defaults(d) = d[TableOf(f, j)] /\ KeysUnder(f, j) = DefaultsKeys BY <1>4, <1>6, <2>1, <2>3
    <3> QED BY <1>3, <1>5, <1>8, <3>1
  <2>4. CASE \E n \in 1..Cardinality(Begins(f, "check")) : j = NthLine(Begins(f, "check"), n)
    <3>1. PICK n \in 1..Cardinality(Begins(f, "check")) : j = NthLine(Begins(f, "check"), n) BY <2>4
    <3>2. n \in 1..Size(d, "check") /\ j # 0 /\ f[j].path[1] = "check" /\ Nth(d, "check", n) = d[TableOf(f, j)]
      BY <1>6, <2>1, <3>1
    <3>3. Decodes(d[TableOf(f, j)], CheckKeys) /\ KeysUnder(f, j) = CheckKeys
      BY <1>3, <1>4, <1>8, <3>2
    <3> QED BY <1>5, <3>3
  <2>5. CASE \E n \in 1..Cardinality(Begins(f, "alert")) : j = NthLine(Begins(f, "alert"), n)
    <3>1. PICK n \in 1..Cardinality(Begins(f, "alert")) : j = NthLine(Begins(f, "alert"), n) BY <2>5
    <3>2. n \in 1..Size(d, "alert") /\ j # 0 /\ f[j].path[1] = "alert" /\ Nth(d, "alert", n) = d[TableOf(f, j)]
      BY <1>6, <2>1, <3>1
    <3>3. Decodes(d[TableOf(f, j)], AlertKeys) /\ KeysUnder(f, j) = AlertKeys
      BY <1>3, <1>4, <1>8, <3>2
    <3> QED BY <1>5, <3>3
  <2> QED BY <1>7, <2>2, <2>3, <2>4, <2>5
<1>9. ASSUME \A j \in Tops(f) : gives(j)
      PROVE  Decodable(d)
  <2>1. Decodes(d[Root], TopKeys) BY <1>4, <1>5, <1>9
  <2>2. Decodes(Defaults(d), DefaultsKeys)
    <3>1. CASE HasDefaults(d)
      <4>1. PICK j \in D : TRUE BY <1>6, <2>1, <3>1
      <4>2. j \in Tops(f) /\ Defaults(d) = d[TableOf(f, j)] /\ KeysUnder(f, j) = DefaultsKeys
        BY <1>4, <1>6, <2>1, <4>1
      <4> QED BY <1>5, <1>9, <4>2
    <3>2. CASE ~HasDefaults(d) BY <3>2 DEF Defaults, NoKeys, Decodes
    <3> QED BY <3>1, <3>2
  <2>3. ASSUME NEW n \in 1..Size(d, "check")
        PROVE  Decodes(Nth(d, "check", n), CheckKeys)
    <3> DEFINE j == NthLine(Begins(f, "check"), n)
    <3>1. j \in Tops(f) /\ j # 0 /\ f[j].path[1] = "check" /\ Nth(d, "check", n) = d[TableOf(f, j)]
      BY <1>6, <2>1
    <3> HIDE DEF j
    <3>2. KeysUnder(f, j) = CheckKeys /\ gives(j) BY <1>4, <1>9, <3>1
    <3> QED BY <1>5, <3>1, <3>2
  <2>4. ASSUME NEW n \in 1..Size(d, "alert")
        PROVE  Decodes(Nth(d, "alert", n), AlertKeys)
    <3> DEFINE j == NthLine(Begins(f, "alert"), n)
    <3>1. j \in Tops(f) /\ j # 0 /\ f[j].path[1] = "alert" /\ Nth(d, "alert", n) = d[TableOf(f, j)]
      BY <1>6, <2>1
    <3> HIDE DEF j
    <3>2. KeysUnder(f, j) = AlertKeys /\ gives(j) BY <1>4, <1>9, <3>1
    <3> QED BY <1>5, <3>1, <3>2
  <2> QED BY <1>3, <2>1, <2>2, <2>3, <2>4
<1> QED BY <1>8, <1>9 DEF d

\* A string that is assigned is a text of the file.
LEMMA SaidText ==
  ASSUME NEW f, Whole(f), LinesOK(f), NEW i \in Assignments(f), Said(f, i).is = "string"
  PROVE  Said(f, i).text \in Text
<1> DEFINE v == ValueText(f, i, Len(f))
<1>1. /\ Written(f) /\ Len(f) \in 0..Len(f) /\ DOMAIN f = 1..Len(f) /\ i \in DOMAIN f /\ f[i].kind = "set"
  BY WholeIs DEF Whole, Assignments, SetLines
<1>2. /\ BeginsArray(f[i]) => Len(v) >= 1 /\ v[1] = Open
      /\ ~BeginsArray(f[i]) => v = Toks(f[i])
  BY <1>1, TextIs DEF TextHolds, Assignments
<1>3. WellFormed(v) BY DEF Whole, Readable, Assignments
<1> HIDE DEF v
<1>4. Said(f, i) = ValueOf(v) BY DEF Said, v
<1>5. Len(v) = 1 /\ Said(f, i) = v[1]
  <2>1. ~(\E items : Said(f, i) = Array(items)) BY DEF Array
  <2> QED BY <1>4, <2>1 DEF ValueOf
<1>6. ~BeginsArray(f[i]) BY <1>2, <1>5 DEF Open
<1>7. v = f[i].toks BY <1>1, <1>2, <1>6 DEF Toks
<1>8. 1 \in 1..Len(f[i].toks) BY <1>5, <1>7
<1> QED BY <1>1, <1>5, <1>7, <1>8 DEF LinesOK

\* What the decoder makes of a key is what the documentation says.
LEMMA GivenIs ==
  ASSUME NEW f, Whole(f), LinesOK(f), HeadersKnown(f), NEW j \in Tops(f), NEW keys,
         Decodes(Document(f, Len(f))[TableOf(f, j)], keys), NEW key \in DOMAIN keys
  PROVE  LET u == Document(f, Len(f))[TableOf(f, j)] IN
         /\ keys[key] = "string" => \A default : TextOf(u, key, default) = Given(f, j, key, default)
         /\ keys[key] = "duration" => \A default : Dur(u, key, default) = GivenTime(f, j, key, default)
         /\ keys[key] = "duration" => \A default \in Nat : Dur(u, key, default) \in Nat
         /\ keys[key] = "strings" => Texts(u, key) = Given(f, j, key, << >>)
<1> DEFINE u == Document(f, Len(f))[TableOf(f, j)]
           t == TableOf(f, j)
           L == Givings(f, j, key)
           said(i) == Said(f, i)
<1>1. /\ DOMAIN u \subseteq Keys
      /\ \A i \in L : key \in DOMAIN u /\ u[key] = said(i) /\ L = {i}
      /\ key \in DOMAIN u => L # {} \/ TablesAt(f, t, key) # {}
      /\ \A k \in Keys : j # 0 => TablesAt(f, t, k) = {}
  BY TableKeys
<1>2. \A other : Given(f, j, key, other) =
        IF L = {} THEN other
        ELSE LET value == said(CHOOSE i \in L : TRUE)
             IN  CASE value.is = "array" -> [k \in DOMAIN value.items |-> value.items[k].text]
                   [] OTHER              -> value.text
  BY DEF Given, Givings, Said
<1>3. key \in DOMAIN u => HasType(u[key], keys[key]) BY DEF Decodes
<1>4. \A i \in L : said(i).is = "string" => said(i).text \in Text
  BY SaidText DEF Givings, Assignments
<1>5. ASSUME key \in DOMAIN u, keys[key] \in {"string", "duration", "strings"}
      PROVE  L # {}
  <2> SUFFICES ASSUME TablesAt(f, t, key) # {}
               PROVE  FALSE
    BY <1>1, <1>5
  <2>1. key \in Keys /\ j = 0 BY <1>1, <1>5
  <2>2. t = Root BY <2>1 DEF TableOf
  <2>3. TablesAt(f, Root, key) # {} BY <2>2
  <2>4. u[key] = Table \/ u[key] = Tables(Max(TablesAt(f, Root, key)))
    <3> DEFINE w == Document(f, Len(f))[Root]
               ps == TablesAt(f, Root, key)
    <3>1. Root \in Located(f) BY WholeIs DEF IsTree
    <3>2. (ps = {0} => w[key] = Table) /\ (ps # {0} => w[key] = Tables(Max(ps)))
      BY <2>1, <2>3, <3>1, DocumentKeys
    <3>3. u = w BY <2>2
    <3> HIDE DEF u, t, L, said, w, ps
    <3>4. u[key] = Table \/ u[key] = Tables(Max(ps)) BY <3>2, <3>3
    <3> QED BY <3>4 DEF ps
  <2> DEFINE type == keys[key]
             v == u[key]
  <2>5. HasType(v, type) /\ type \in {"string", "duration", "strings"} BY <1>3, <1>5
  <2>6. v.is = "table" \/ v.is = "tables"
    <3> HIDE DEF u
    <3> QED BY <2>4 DEF Table, Tables
  <2> HIDE DEF type, v
  <2> QED BY <2>5, <2>6 DEF HasType
<1> HIDE DEF u, t, L, said
<1>6. CASE L = {}
  <2>1. \A other : Given(f, j, key, other) = other BY <1>2, <1>6
  <2> DEFINE type == keys[key]
  <2> HIDE DEF type
  <2>2. type \in {"string", "duration", "strings"} => key \notin DOMAIN u BY <1>5, <1>6 DEF type
  <2>3. type = "string" => \A default : TextOf(u, key, default) = Given(f, j, key, default)
    BY <2>1, <2>2 DEF TextOf
  <2>4. type = "duration" => \A default : Dur(u, key, default) = GivenTime(f, j, key, default)
    BY <2>1, <2>2 DEF Dur, GivenTime
  <2>5. type = "strings" => Texts(u, key) = Given(f, j, key, << >>) BY <2>1, <2>2 DEF Texts
  <2>6. type = "duration" => \A default \in Nat : Dur(u, key, default) \in Nat BY <2>2 DEF Dur
  <2> QED BY <2>3, <2>4, <2>5, <2>6 DEF type, u
<1>7. ASSUME NEW i \in L
      PROVE  /\ keys[key] = "string" => \A default : TextOf(u, key, default) = Given(f, j, key, default)
             /\ keys[key] = "duration" => \A default : Dur(u, key, default) = GivenTime(f, j, key, default)
             /\ keys[key] = "duration" => \A default \in Nat : Dur(u, key, default) \in Nat
             /\ keys[key] = "strings" => Texts(u, key) = Given(f, j, key, << >>)
  <2> DEFINE type == keys[key]
             v == u[key]
  <2>1. L = {i} /\ key \in DOMAIN u /\ v = said(i) BY <1>1
  <2>2. (CHOOSE k \in L : TRUE) = i /\ L # {} BY <2>1
  <2>3. HasType(v, type) /\ (v.is = "string" => v.text \in Text) BY <1>3, <1>4, <2>1
  <2> HIDE DEF type, v
  <2>4. \A other : Given(f, j, key, other) =
          CASE v.is = "array" -> [k \in DOMAIN v.items |-> v.items[k].text]
            [] OTHER          -> v.text
    BY <1>2, <2>1, <2>2
  <2>5. v.is = "string" => \A other : Given(f, j, key, other) = v.text BY <2>4
  <2>6. v.is = "array" => \A other : Given(f, j, key, other) = [k \in DOMAIN v.items |-> v.items[k].text]
    BY <2>4
  <2>7. type = "string" => \A default : TextOf(u, key, default) = Given(f, j, key, default)
    BY <2>1, <2>3, <2>5 DEF TextOf, HasType, v
  <2>8. type = "duration" => \A default : Dur(u, key, default) = GivenTime(f, j, key, default)
    <3> SUFFICES ASSUME type = "duration", NEW default
                 PROVE  Dur(u, key, default) = GivenTime(f, j, key, default)
      OBVIOUS
    <3>1. v.is = "string" /\ Lasts[v.text] # NoDuration /\ v.text \in Text BY <2>3 DEF HasType
    <3>2. v.text # "" BY <3>1, ConfigFileAssumption
    <3>3. Given(f, j, key, "") = v.text BY <2>5, <3>1
    <3>4. Dur(u, key, default) = Lasts[v.text] BY <2>1 DEF Dur, v
    <3> QED BY <3>2, <3>3, <3>4 DEF GivenTime
  <2>9. type = "strings" => Texts(u, key) = Given(f, j, key, << >>)
    <3> SUFFICES ASSUME type = "strings"
                 PROVE  Texts(u, key) = Given(f, j, key, << >>)
      OBVIOUS
    <3>1. v.is = "array" BY <2>3 DEF HasType
    <3>2. Given(f, j, key, << >>) = [k \in DOMAIN v.items |-> v.items[k].text] BY <2>6, <3>1
    <3>3. Texts(u, key) = [k \in DOMAIN v.items |-> v.items[k].text] BY <2>1 DEF Texts, v
    <3> QED BY <3>2, <3>3
  <2>10. type = "duration" => \A default \in Nat : Dur(u, key, default) \in Nat
    <3> SUFFICES ASSUME type = "duration", NEW default \in Nat
                 PROVE  Dur(u, key, default) \in Nat
      OBVIOUS
    <3>1. Lasts[v.text] # NoDuration /\ v.text \in Text BY <2>3 DEF HasType
    <3>2. Lasts[v.text] \in Nat BY <3>1, ConfigFileAssumption
    <3> QED BY <2>1, <3>2 DEF Dur, v
  <2> QED BY <2>7, <2>8, <2>9, <2>10 DEF type
<1> QED BY <1>6, <1>7 DEF u

\* A check, decoded and as documented.
LEMMA CheckMeant ==
  ASSUME NEW f, Whole(f), LinesOK(f), HeadersKnown(f), NEW j \in Tops(f),
         Decodes(Document(f, Len(f))[TableOf(f, j)], CheckKeys)
  PROVE  DecodeCheck(Document(f, Len(f))[TableOf(f, j)], GraceOfAll(f)) = MeantCheck(f, j)
<1> DEFINE u == Document(f, Len(f))[TableOf(f, j)]
<1>1. /\ "name" \in DOMAIN CheckKeys /\ CheckKeys["name"] = "string"
      /\ "interval" \in DOMAIN CheckKeys /\ CheckKeys["interval"] = "duration"
      /\ "grace" \in DOMAIN CheckKeys /\ CheckKeys["grace"] = "duration"
      /\ "alerts" \in DOMAIN CheckKeys /\ CheckKeys["alerts"] = "strings"
  BY DEF CheckKeys
<1>2. \A key \in DOMAIN CheckKeys :
        /\ CheckKeys[key] = "string" => \A default : TextOf(u, key, default) = Given(f, j, key, default)
        /\ CheckKeys[key] = "duration" => \A default : Dur(u, key, default) = GivenTime(f, j, key, default)
        /\ CheckKeys[key] = "strings" => Texts(u, key) = Given(f, j, key, << >>)
  BY GivenIs
<1> HIDE DEF u
<1>3. TextOf(u, "name", "") = Given(f, j, "name", "") BY <1>1, <1>2
<1>4. Dur(u, "interval", 0) = GivenTime(f, j, "interval", 0) BY <1>1, <1>2
<1>5. Dur(u, "grace", GraceOfAll(f)) = GivenTime(f, j, "grace", GraceOfAll(f)) BY <1>1, <1>2
<1>6. Texts(u, "alerts") = Given(f, j, "alerts", << >>) BY <1>1, <1>2
<1> QED BY <1>3, <1>4, <1>5, <1>6, Zenon DEF DecodeCheck, MeantCheck, u

\* A channel, decoded and as documented.
LEMMA AlertMeant ==
  ASSUME NEW f, Whole(f), LinesOK(f), HeadersKnown(f), NEW j \in Tops(f),
         Decodes(Document(f, Len(f))[TableOf(f, j)], AlertKeys)
  PROVE  DecodeAlert(Document(f, Len(f))[TableOf(f, j)]) = MeantAlert(f, j)
<1> DEFINE u == Document(f, Len(f))[TableOf(f, j)]
<1>1. /\ "name" \in DOMAIN AlertKeys /\ AlertKeys["name"] = "string"
      /\ "url" \in DOMAIN AlertKeys /\ AlertKeys["url"] = "string"
      /\ "command" \in DOMAIN AlertKeys /\ AlertKeys["command"] = "strings"
      /\ "events" \in DOMAIN AlertKeys /\ AlertKeys["events"] = "strings"
      /\ "timeout" \in DOMAIN AlertKeys /\ AlertKeys["timeout"] = "duration"
  BY DEF AlertKeys
<1>2. \A key \in DOMAIN AlertKeys :
        /\ AlertKeys[key] = "string" => \A default : TextOf(u, key, default) = Given(f, j, key, default)
        /\ AlertKeys[key] = "duration" => \A default : Dur(u, key, default) = GivenTime(f, j, key, default)
        /\ AlertKeys[key] = "strings" => Texts(u, key) = Given(f, j, key, << >>)
  BY GivenIs
<1> HIDE DEF u
<1>3. TextOf(u, "name", "") = Given(f, j, "name", "") /\ TextOf(u, "url", "") = Given(f, j, "url", "")
  BY <1>1, <1>2
<1>4. Dur(u, "timeout", DefaultTimeout) = GivenTime(f, j, "timeout", DefaultTimeout) BY <1>1, <1>2
<1>5. /\ Texts(u, "command") = Given(f, j, "command", << >>)
      /\ Texts(u, "events") = Given(f, j, "events", << >>)
  BY <1>1, <1>2
<1>6. Events(u) = IF Given(f, j, "events", << >>) # << >> THEN Given(f, j, "events", << >>)
                  ELSE << "down", "failed", "recovered" >>
  BY <1>5 DEF Events
<1> QED BY <1>3, <1>4, <1>5, <1>6, Zenon DEF DecodeAlert, MeantAlert, u

\* What is decoded is what the documentation says that the file means.
LEMMA DecodeIs ==
  ASSUME NEW f, Whole(f), LinesOK(f), Decodable(Document(f, Len(f)))
  PROVE  Decode(Document(f, Len(f))) = Meant(f)
<1> DEFINE d == Document(f, Len(f))
           D == HeadersFor(f, Header(<< "defaults" >>))
<1>1. HeadersKnown(f) BY DecodedHeaders
<1>2. /\ Decodes(d[Root], TopKeys) /\ Decodes(Defaults(d), DefaultsKeys)
      /\ \A n \in 1..Size(d, "check") : Decodes(Nth(d, "check", n), CheckKeys)
      /\ \A n \in 1..Size(d, "alert") : Decodes(Nth(d, "alert", n), AlertKeys)
  BY DEF Decodable
<1>3. /\ HasDefaults(d) <=> D # {}
      /\ \A j \in D : j \in Tops(f) /\ Defaults(d) = d[TableOf(f, j)]
      /\ \A key \in {"check", "alert"} :
           /\ Size(d, key) = Cardinality(Begins(f, key))
           /\ \A n \in 1..Cardinality(Begins(f, key)) : LET j == NthLine(Begins(f, key), n) IN
                j \in Tops(f) /\ Nth(d, key, n) = d[TableOf(f, j)]
  BY <1>1, <1>2, TopsAre
<1>4. GraceByDefault(d) = GraceOfAll(f)
  <2>1. CASE D = {}
    <3>1. Defaults(d) = << >> BY <1>3, <2>1 DEF Defaults, NoKeys
    <3>2. Dur(Defaults(d), "grace", DefaultGrace) = DefaultGrace BY <3>1 DEF Dur
    <3> QED BY <2>1, <3>2 DEF GraceByDefault, GraceOfAll
  <2>2. CASE D # {}
    <3> DEFINE j == CHOOSE j \in D : TRUE
    <3>1. j \in D BY <2>2
    <3> HIDE DEF j
    <3>2. j \in Tops(f) /\ Defaults(d) = d[TableOf(f, j)] BY <1>3, <3>1
    <3>3. "grace" \in DOMAIN DefaultsKeys /\ DefaultsKeys["grace"] = "duration" BY DEF DefaultsKeys
    <3>4. Decodes(d[TableOf(f, j)], DefaultsKeys) BY <1>2, <3>2
    <3>5. Dur(d[TableOf(f, j)], "grace", DefaultGrace) = GivenTime(f, j, "grace", DefaultGrace)
      BY <1>1, <3>2, <3>3, <3>4, GivenIs
    <3>6. GraceOfAll(f) = GivenTime(f, j, "grace", DefaultGrace) BY <2>2 DEF GraceOfAll, j
    <3> HIDE DEF D, d
    <3> QED BY <3>2, <3>5, <3>6 DEF GraceByDefault
  <2> QED BY <2>1, <2>2
<1>5. /\ TextOf(d[Root], "listen", "127.0.0.1:8377") = Given(f, 0, "listen", "127.0.0.1:8377")
      /\ TextOf(d[Root], "state_file", "lastbeat.state.json") = Given(f, 0, "state_file", "lastbeat.state.json")
      /\ TextOf(d[Root], "ping_key", "") = Given(f, 0, "ping_key", "")
      /\ Dur(d[Root], "sweep_every", DefaultSweep) = GivenTime(f, 0, "sweep_every", DefaultSweep)
  <2>1. /\ "listen" \in DOMAIN TopKeys /\ TopKeys["listen"] = "string"
        /\ "state_file" \in DOMAIN TopKeys /\ TopKeys["state_file"] = "string"
        /\ "ping_key" \in DOMAIN TopKeys /\ TopKeys["ping_key"] = "string"
        /\ "sweep_every" \in DOMAIN TopKeys /\ TopKeys["sweep_every"] = "duration"
    BY DEF TopKeys
  <2>2. 0 \in Tops(f) /\ TableOf(f, 0) = Root BY DEF Tops, TableOf
  <2> DEFINE u == d[TableOf(f, 0)]
  <2>3. Decodes(u, TopKeys) BY <1>2, <2>2
  <2>4. \A key \in DOMAIN TopKeys :
          /\ TopKeys[key] = "string" => \A default : TextOf(u, key, default) = Given(f, 0, key, default)
          /\ TopKeys[key] = "duration" => \A default : Dur(u, key, default) = GivenTime(f, 0, key, default)
    BY <1>1, <2>2, <2>3, GivenIs
  <2>5. u = d[Root] BY <2>2
  <2> HIDE DEF u, d
  <2>6. /\ TextOf(u, "listen", "127.0.0.1:8377") = Given(f, 0, "listen", "127.0.0.1:8377")
        /\ TextOf(u, "state_file", "lastbeat.state.json") = Given(f, 0, "state_file", "lastbeat.state.json")
        /\ TextOf(u, "ping_key", "") = Given(f, 0, "ping_key", "")
        /\ Dur(u, "sweep_every", DefaultSweep) = GivenTime(f, 0, "sweep_every", DefaultSweep)
    BY <2>1, <2>4
  <2> QED BY <2>5, <2>6
<1> DEFINE B(key) == Begins(f, key)
<1>6. ASSUME NEW n \in 1..Cardinality(B("check"))
      PROVE  DecodeCheck(Nth(d, "check", n), GraceByDefault(d)) = MeantCheck(f, NthLine(B("check"), n))
  <2> DEFINE j == NthLine(B("check"), n)
  <2>1. j \in Tops(f) /\ Nth(d, "check", n) = d[TableOf(f, j)] BY <1>3
  <2>2. Decodes(d[TableOf(f, j)], CheckKeys) BY <1>2, <1>3, <2>1
  <2> HIDE DEF j
  <2>3. DecodeCheck(d[TableOf(f, j)], GraceOfAll(f)) = MeantCheck(f, j)
    BY <1>1, <2>1, <2>2, CheckMeant
  <2> HIDE DEF d
  <2> QED BY <1>4, <2>1, <2>3 DEF j
<1>7. ASSUME NEW n \in 1..Cardinality(B("alert"))
      PROVE  DecodeAlert(Nth(d, "alert", n)) = MeantAlert(f, NthLine(B("alert"), n))
  <2> DEFINE j == NthLine(B("alert"), n)
  <2>1. j \in Tops(f) /\ Nth(d, "alert", n) = d[TableOf(f, j)] BY <1>3
  <2>2. Decodes(d[TableOf(f, j)], AlertKeys) BY <1>2, <1>3, <2>1
  <2> HIDE DEF j
  <2>3. DecodeAlert(d[TableOf(f, j)]) = MeantAlert(f, j) BY <1>1, <2>1, <2>2, AlertMeant
  <2> HIDE DEF d
  <2> QED BY <2>1, <2>3 DEF j
<1>8. Size(d, "check") = Cardinality(B("check")) /\ Size(d, "alert") = Cardinality(B("alert"))
  BY <1>3
<1> HIDE DEF d, B
<1>9. [i \in 1..Size(d, "check") |-> DecodeCheck(Nth(d, "check", i), GraceByDefault(d))]
        = [n \in 1..Cardinality(B("check")) |-> MeantCheck(f, NthLine(B("check"), n))]
  BY <1>6, <1>8
<1>10. [i \in 1..Size(d, "alert") |-> DecodeAlert(Nth(d, "alert", i))]
        = [n \in 1..Cardinality(B("alert")) |-> MeantAlert(f, NthLine(B("alert"), n))]
  BY <1>7, <1>8
<1>11. /\ B("check") = HeadersFor(f, ArrayHeader(<< "check" >>))
       /\ B("alert") = HeadersFor(f, ArrayHeader(<< "alert" >>))
  BY DEF B, Begins
<1>12. Decode(d) = Meant(f) BY <1>5, <1>9, <1>10, <1>11, Zenon DEF Decode, Meant
<1> QED BY <1>12 DEF d

-----------------------------------------------------------------------------
(***************************************************************************)
(* What validate refuses.                                                  *)
(***************************************************************************)

\* No name twice: as many names as there are elements.
LEMMA NamesAre ==
  ASSUME NEW n \in Nat, NEW s, s = [i \in 1..n |-> s[i]]
  PROVE  /\ Len(s) = n /\ DOMAIN s = 1..n /\ (s # << >> <=> n > 0)
         /\ NamesOK(s) <=> Names(s) \subseteq GoodName /\ Cardinality(Names(s)) = Len(s)
<1>1. DOMAIN s = 1..n OBVIOUS
<1>2. s \in Seq(ToSet(s)) /\ Len(s) = n
  <2>1. \A i \in 1..n : s[i] \in ToSet(s) BY <1>1 DEF ToSet
  <2>2. s \in Seq(ToSet(s)) BY <1>1, <2>1, SeqDef
  <2> QED BY <1>1, <2>2, LenProperties
<1>3. s # << >> <=> n > 0 BY <1>2, EmptySeq
<1> DEFINE S == 1..n
           T2 == Names(s)
           g == [i \in S |-> s[i].name]
<1>4. Names(s) = {s[i].name : i \in 1..n} BY <1>1 DEF Names
<1>5. g \in Surjection(S, T2)
  <2>1. g \in [S -> T2] /\ \A y \in T2 : \E i \in S : g[i] = y BY <1>4
  <2> QED BY <2>1 DEF Surjection
<1>6. IsFiniteSet(S) /\ Cardinality(S) = n BY FS_Interval
<1> HIDE DEF S, T2, g
<1>7. Cardinality(T2) = n <=> g \in Injection(S, T2) BY <1>5, <1>6, FS_Surjection
<1>8. g \in Injection(S, T2) <=> \A i, j \in 1..n : s[i].name = s[j].name => i = j
  <2>1. g \in [S -> T2] BY <1>5 DEF Surjection
  <2>2. g \in Injection(S, T2) <=> \A i, j \in S : g[i] = g[j] => i = j
    BY <2>1 DEF Injection, IsInjective
  <2>3. \A i \in S : g[i] = s[i].name BY DEF g
  <2> QED BY <2>2, <2>3 DEF S
<1>9. NamesOK(s) <=> /\ \A i \in 1..n : s[i].name \in GoodName
                     /\ \A i, j \in 1..n : i < j => s[j].name # s[i].name
  BY <1>1 DEF NamesOK
<1>10. (\A i, j \in 1..n : i < j => s[j].name # s[i].name) <=>
          \A i, j \in 1..n : s[i].name = s[j].name => i = j
  <2> DEFINE name(i) == s[i].name
  <2> HIDE DEF name
  <2>1. (\A i, j \in 1..n : i < j => name(j) # name(i)) <=> \A i, j \in 1..n : name(i) = name(j) => i = j
    OBVIOUS
  <2> QED BY <2>1 DEF name
<1>11. Names(s) \subseteq GoodName <=> \A i \in 1..n : s[i].name \in GoodName BY <1>4
<1> QED BY <1>1, <1>2, <1>3, <1>7, <1>8, <1>9, <1>10, <1>11 DEF T2

\* What validate refuses is what the documentation says cannot be used.
LEMMA ValidateIs ==
  ASSUME NEW c, NEW n \in Nat, NEW m \in Nat,
         c.checks = [i \in 1..n |-> c.checks[i]], c.alerts = [i \in 1..m |-> c.alerts[i]],
         \A i \in 1..n : c.checks[i].interval \in Nat,
         \A i \in 1..m : c.alerts[i].timeout \in Nat, c.sweepEvery \in Nat
  PROVE  Validate(c) <=> Usable(c)
<1> DEFINE q == c.checks
           r == c.alerts
<1>1. /\ Len(q) = n /\ DOMAIN q = 1..n /\ (q # << >> <=> n > 0)
      /\ NamesOK(q) <=> Names(q) \subseteq GoodName /\ Cardinality(Names(q)) = Len(q)
  <2> HIDE DEF q
  <2>1. q = [i \in 1..n |-> q[i]] BY DEF q
  <2> QED BY <2>1, NamesAre
<1>2. /\ DOMAIN r = 1..m
      /\ NamesOK(r) <=> Names(r) \subseteq GoodName /\ Cardinality(Names(r)) = Len(r)
  <2> HIDE DEF r
  <2>1. r = [i \in 1..m |-> r[i]] BY DEF r
  <2> QED BY <2>1, NamesAre
<1> HIDE DEF q, r
<1>3. ASSUME NEW i \in 1..n
      PROVE  /\ q[i].interval >= 1 <=> q[i].interval > 0
             /\ ToSet(q[i].alerts) \subseteq Names(r) <=>
                  \A k \in DOMAIN q[i].alerts : \E j \in DOMAIN r : r[j].name = q[i].alerts[k]
  <2>1. q[i].interval \in Nat BY DEF q
  <2> DEFINE a == q[i].alerts
  <2> HIDE DEF a
  <2>2. ToSet(a) \subseteq Names(r) <=> \A k \in DOMAIN a : \E j \in DOMAIN r : r[j].name = a[k]
    <3>1. ToSet(a) \subseteq Names(r) <=> \A k \in DOMAIN a : a[k] \in Names(r) BY DEF ToSet
    <3>2. \A x : x \in Names(r) <=> \E j \in DOMAIN r : r[j].name = x BY DEF Names
    <3> QED BY <3>1, <3>2, Zenon
  <2> QED BY <2>1, <2>2 DEF a
<1>4. ASSUME NEW j \in 1..m
      PROVE  /\ (r[j].url = "") # (r[j].command = << >>) <=> (r[j].url = "" <=> r[j].command # << >>)
             /\ ToSet(r[j].events) \subseteq AllEvents <=>
                  \A k \in DOMAIN r[j].events : r[j].events[k] \in AllEvents
             /\ r[j].timeout >= 1 <=> r[j].timeout > 0
  <2>1. r[j].timeout \in Nat BY DEF r
  <2> DEFINE e == r[j].events
  <2> HIDE DEF e
  <2>2. ToSet(e) \subseteq AllEvents <=> \A k \in DOMAIN e : e[k] \in AllEvents BY DEF ToSet
  <2>3. (r[j].url = "") # (r[j].command = << >>) <=> (r[j].url = "" <=> r[j].command # << >>)
    OBVIOUS
  <2>4. r[j].timeout >= 1 <=> r[j].timeout > 0 BY <2>1
  <2> QED BY <2>2, <2>3, <2>4, Zenon DEF e
<1> DEFINE linked(i) == ToSet(q[i].alerts) \subseteq Names(r)
           paced(i) == q[i].interval >= 1
           known(j) == ToSet(r[j].events) \subseteq AllEvents
           placed(j) == (r[j].url = "") # (r[j].command = << >>)
           timed(j) == r[j].timeout >= 1
<1>5. Validate(c) <=>
        /\ n > 0 /\ NamesOK(q) /\ NamesOK(r)
        /\ \A i \in 1..n : paced(i)
        /\ \A j \in 1..m : placed(j) /\ known(j) /\ timed(j)
        /\ \A i \in 1..n : linked(i)
        /\ c.sweepEvery > 0
  <2>1. Validate(c) <=>
          /\ q # << >> /\ NamesOK(q) /\ NamesOK(r)
          /\ \A i \in DOMAIN q : paced(i)
          /\ \A j \in DOMAIN r : placed(j) /\ known(j) /\ timed(j)
          /\ \A i \in DOMAIN q : linked(i)
          /\ c.sweepEvery >= 1
    BY Zenon DEF Validate, q, r
  <2>2. c.sweepEvery >= 1 <=> c.sweepEvery > 0 OBVIOUS
  <2> HIDE DEF linked, paced, known, placed, timed
  <2> QED BY <1>1, <1>2, <2>1, <2>2, Zenon
<1>6. Usable(c) <=>
        /\ n > 0 /\ NamesOK(q) /\ NamesOK(r)
        /\ \A i \in 1..n : paced(i) /\ linked(i)
        /\ \A j \in 1..m : placed(j) /\ known(j) /\ timed(j)
        /\ c.sweepEvery > 0
  <2>1. (\A i \in DOMAIN q :
          /\ q[i].interval > 0
          /\ \A k \in DOMAIN q[i].alerts : \E j \in DOMAIN r : r[j].name = q[i].alerts[k])
        <=> \A i \in 1..n : paced(i) /\ linked(i)
    BY <1>1, <1>3, Zenon
  <2>2. (\A j \in DOMAIN r :
          /\ r[j].url = "" <=> r[j].command # << >>
          /\ \A k \in DOMAIN r[j].events : r[j].events[k] \in AllEvents
          /\ r[j].timeout > 0)
        <=> \A j \in 1..m : placed(j) /\ known(j) /\ timed(j)
    BY <1>2, <1>4, Zenon
  <2>3. /\ Names(q) \cup Names(r) \subseteq GoodName <=> Names(q) \subseteq GoodName /\ Names(r) \subseteq GoodName
        /\ Len(q) > 0 <=> n > 0
    BY <1>1
  <2> HIDE DEF linked, paced, known, placed, timed
  <2> QED BY <1>1, <1>2, <2>1, <2>2, <2>3, Zenon DEF Usable, q, r
<1> HIDE DEF linked, paced, known, placed, timed
<1> QED BY <1>5, <1>6

\* A whole file is accepted exactly if it says nothing else than the
\* documentation; then it means what the documentation says.
LEMMA LoadsIs ==
  ASSUME NEW f, Whole(f), LinesOK(f)
  PROVE  /\ Loads(Document(f, Len(f))) <=> OnlyDocumented(f) /\ Usable(Meant(f))
         /\ Loads(Document(f, Len(f))) => Decode(Document(f, Len(f))) = Meant(f)
<1> DEFINE d == Document(f, Len(f))
           c == Decode(d)
           n == Size(d, "check")
           m == Size(d, "alert")
<1>1. Decodable(d) <=> OnlyDocumented(f) BY DecodableIs
<1>2. Decodable(d) => c = Meant(f) BY DecodeIs
<1>3. ASSUME Decodable(d)
      PROVE  Validate(c) <=> Usable(c)
  <2>1. HeadersKnown(f) BY <1>3, DecodedHeaders
  <2>2. /\ Decodes(d[Root], TopKeys)
        /\ \A i \in 1..n : Decodes(Nth(d, "check", i), CheckKeys)
        /\ \A i \in 1..m : Decodes(Nth(d, "alert", i), AlertKeys)
    BY <1>3 DEF Decodable
  <2>3. \A key \in {"check", "alert"} :
          /\ Size(d, key) \in Nat
          /\ \A i \in 1..Size(d, key) : \E j \in Tops(f) : Nth(d, key, i) = d[TableOf(f, j)]
    <3>1. \A key \in {"check", "alert"} :
            /\ Size(d, key) = Cardinality(Begins(f, key)) /\ Cardinality(Begins(f, key)) \in Nat
            /\ \A i \in 1..Cardinality(Begins(f, key)) : LET j == NthLine(Begins(f, key), i) IN
                 j \in Tops(f) /\ Nth(d, key, i) = d[TableOf(f, j)]
      BY <2>1, <2>2, TopsAre
    <3> HIDE DEF d
    <3> SUFFICES ASSUME NEW key \in {"check", "alert"}
                 PROVE  /\ Size(d, key) \in Nat
                        /\ \A i \in 1..Size(d, key) : \E j \in Tops(f) : Nth(d, key, i) = d[TableOf(f, j)]
      OBVIOUS
    <3>2. Size(d, key) = Cardinality(Begins(f, key)) /\ Size(d, key) \in Nat BY <3>1
    <3>3. \A i \in 1..Size(d, key) : \E j \in Tops(f) : Nth(d, key, i) = d[TableOf(f, j)]
      BY <3>1, <3>2
    <3> QED BY <3>2, <3>3
  <2>4. ASSUME NEW i \in 1..n
        PROVE  Dur(Nth(d, "check", i), "interval", 0) \in Nat
    <3>1. PICK j \in Tops(f) : Nth(d, "check", i) = d[TableOf(f, j)] BY <2>3
    <3>2. "interval" \in DOMAIN CheckKeys /\ CheckKeys["interval"] = "duration" BY DEF CheckKeys
    <3>3. Decodes(d[TableOf(f, j)], CheckKeys) BY <2>2, <3>1
    <3>4. Dur(d[TableOf(f, j)], "interval", 0) \in Nat BY <2>1, <3>2, <3>3, GivenIs
    <3> HIDE DEF d
    <3> QED BY <3>1, <3>4
  <2>5. ASSUME NEW i \in 1..m
        PROVE  Dur(Nth(d, "alert", i), "timeout", DefaultTimeout) \in Nat
    <3>1. PICK j \in Tops(f) : Nth(d, "alert", i) = d[TableOf(f, j)] BY <2>3
    <3>2. "timeout" \in DOMAIN AlertKeys /\ AlertKeys["timeout"] = "duration" /\ DefaultTimeout \in Nat
      BY ConfigFileAssumption DEF AlertKeys
    <3>3. Decodes(d[TableOf(f, j)], AlertKeys) BY <2>2, <3>1
    <3>4. Dur(d[TableOf(f, j)], "timeout", DefaultTimeout) \in Nat BY <2>1, <3>2, <3>3, GivenIs
    <3> HIDE DEF d
    <3> QED BY <3>1, <3>4
  <2>6. Dur(d[Root], "sweep_every", DefaultSweep) \in Nat
    <3>1. /\ "sweep_every" \in DOMAIN TopKeys /\ TopKeys["sweep_every"] = "duration"
          /\ DefaultSweep \in Nat
      BY ConfigFileAssumption DEF TopKeys
    <3>2. 0 \in Tops(f) /\ TableOf(f, 0) = Root BY DEF Tops, TableOf
    <3>3. Decodes(d[TableOf(f, 0)], TopKeys) BY <2>2, <3>2
    <3>4. Dur(d[TableOf(f, 0)], "sweep_every", DefaultSweep) \in Nat
      BY <2>1, <3>1, <3>2, <3>3, GivenIs
    <3> HIDE DEF d
    <3> QED BY <3>2, <3>4
  <2>7. n \in Nat /\ m \in Nat BY <2>3
  <2> HIDE DEF d, n, m
  <2>8. /\ c.checks = [i \in 1..n |-> DecodeCheck(Nth(d, "check", i), GraceByDefault(d))]
        /\ c.alerts = [i \in 1..m |-> DecodeAlert(Nth(d, "alert", i))]
        /\ c.sweepEvery = Dur(d[Root], "sweep_every", DefaultSweep)
    BY DEF Decode, n, m
  <2> HIDE DEF c
  <2>9. /\ c.checks = [i \in 1..n |-> c.checks[i]] /\ c.alerts = [i \in 1..m |-> c.alerts[i]]
        /\ c.sweepEvery \in Nat
    BY <2>6, <2>8
  <2>10. \A i \in 1..n : c.checks[i].interval \in Nat
    <3>2. \A t, g : DecodeCheck(t, g).interval = Dur(t, "interval", 0) BY DEF DecodeCheck
    <3>3. \A i \in 1..n : c.checks[i] = DecodeCheck(Nth(d, "check", i), GraceByDefault(d)) BY <2>8
    <3>1. \A i \in 1..n : c.checks[i].interval = Dur(Nth(d, "check", i), "interval", 0)
      BY <3>2, <3>3, Zenon
    <3> QED BY <2>4, <3>1
  <2>11. \A i \in 1..m : c.alerts[i].timeout \in Nat
    <3>2. \A t : DecodeAlert(t).timeout = Dur(t, "timeout", DefaultTimeout) BY DEF DecodeAlert
    <3>3. \A i \in 1..m : c.alerts[i] = DecodeAlert(Nth(d, "alert", i)) BY <2>8
    <3>1. \A i \in 1..m : c.alerts[i].timeout = Dur(Nth(d, "alert", i), "timeout", DefaultTimeout)
      BY <3>2, <3>3, Zenon
    <3> QED BY <2>5, <3>1
  <2> QED BY <2>7, <2>9, <2>10, <2>11, ValidateIs
<1>4. Loads(d) <=> Decodable(d) /\ Validate(c) BY DEF Loads
<1> HIDE DEF d, c
<1> QED BY <1>1, <1>2, <1>3, <1>4 DEF d, c

\* What may begin a file begins with what may begin a file.
LEMMA ReadableBefore ==
  ASSUME NEW f, Written(f), NEW n \in Nat, n + 1 \in DOMAIN f, Readable(f, n + 1)
  PROVE  Readable(f, n)
<1>1. Len(f) \in Nat /\ DOMAIN f = 1..Len(f) /\ n \in 0..Len(f)
  <2>1. Len(f) \in Nat /\ DOMAIN f = 1..Len(f) BY ToksAre
  <2> QED BY <2>1
<1>2. \A i \in 1..n : i \in 1..(n + 1) OBVIOUS
<1>3. SetLines(f, n) \subseteq SetLines(f, n + 1) /\ HeaderLines(f, n) \subseteq HeaderLines(f, n + 1)
  BY <1>2 DEF SetLines, HeaderLines
<1>4. \A i \in 1..n : Fits(f, i) BY <1>2 DEF Readable
<1>5. NoClash(f, n) BY <1>3 DEF Readable, NoClash
<1>6. ASSUME NEW i \in SetLines(f, n)
      PROVE  WellFormed(ValueText(f, i, n))
  <2> DEFINE v == ValueText(f, i, n)
             w == ValueText(f, i, n + 1)
  <2>1. WellFormed(w) BY <1>3 DEF Readable
  <2>2. i \in 1..n /\ i \in DOMAIN f /\ i <= n BY <1>1 DEF SetLines
  <2>3. v \in Seq(TokensOf(f)) /\ Toks(f[n + 1]) \in Seq(TokensOf(f))
    BY <1>1, TextIs, ToksAre DEF TextHolds
  <2>4. CASE ~InArrayOf(f, i, n + 1) BY <2>1, <2>2, <2>4, TextStep
  <2>5. CASE InArrayOf(f, i, n + 1)
    <3>1. w = v \o Toks(f[n + 1]) BY <2>2, <2>5, TextStep
    <3>2. Len(v) >= 1 /\ v[1] = Open BY <1>1, <2>5, TextIs DEF TextHolds
    <3> DEFINE toks == Toks(f[n + 1])
               S == TokensOf(f)
    <3> HIDE DEF v, w, toks, S
    <3>3. /\ Len(v) \in Nat /\ Len(toks) \in Nat /\ Len(w) = Len(v) + Len(toks)
          /\ \A k \in 1..Len(v) : w[k] = v[k]
      BY <2>3, <3>1 DEF toks, S
    <3>4. w[1] = Open /\ v # << >> BY <2>3, <3>2, <3>3, EmptySeq DEF S
    <3>5. \A k \in 2..Len(w) :
            \/ w[k] = Close /\ k = Len(w)
            \/ IsScalar(w[k]) /\ k % 2 = 0
            \/ w[k] = Comma /\ k % 2 = 1
      BY <2>1, <3>4 DEF WellFormed, IsScalar, Open
    <3>6. \A k \in 2..Len(v) :
            \/ v[k] = Close /\ k = Len(v)
            \/ IsScalar(v[k]) /\ k % 2 = 0
            \/ v[k] = Comma /\ k % 2 = 1
      <4> SUFFICES ASSUME NEW k \in 2..Len(v)
                   PROVE  \/ v[k] = Close /\ k = Len(v)
                          \/ IsScalar(v[k]) /\ k % 2 = 0
                          \/ v[k] = Comma /\ k % 2 = 1
        OBVIOUS
      <4>1. k \in 2..Len(w) /\ w[k] = v[k] /\ (k = Len(w) => k = Len(v)) BY <3>3
      <4> QED BY <3>5, <4>1
    <3> QED BY <3>2, <3>4, <3>6 DEF WellFormed, v
  <2> QED BY <2>4, <2>5
<1> QED BY <1>4, <1>5, <1>6 DEF Readable

\* So a file is not read to its end that cannot be read to this line.
LEMMA ReadableDown ==
  ASSUME NEW f, Written(f), NEW n \in 0..Len(f), Readable(f, Len(f))
  PROVE  Readable(f, n)
<1>1. Len(f) \in Nat /\ DOMAIN f = 1..Len(f) BY ToksAre
<1> DEFINE Ns == {k \in Nat : \A m \in Nat : m + k = Len(f) => Readable(f, m)}
<1>2. 0 \in Ns
  <2> SUFFICES ASSUME NEW m \in Nat, m + 0 = Len(f)
               PROVE  Readable(f, m)
    OBVIOUS
  <2>1. m = Len(f) OBVIOUS
  <2> QED BY <2>1
<1>3. ASSUME NEW k \in Nat, k \in Ns
      PROVE  k + 1 \in Ns
  <2> SUFFICES ASSUME NEW m \in Nat, m + (k + 1) = Len(f)
               PROVE  Readable(f, m)
    OBVIOUS
  <2>1. m + 1 \in Nat /\ (m + 1) + k = Len(f) /\ m + 1 \in DOMAIN f BY <1>1
  <2>2. Readable(f, m + 1) BY <1>3, <2>1
  <2> QED BY <2>1, <2>2, ReadableBefore
<1>4. Nat \subseteq Ns
  <2> HIDE DEF Ns
  <2> QED BY <1>2, <1>3, SetInduction
<1>5. Len(f) - n \in Nat /\ n \in Nat /\ n + (Len(f) - n) = Len(f) BY <1>1
<1>6. Len(f) - n \in Ns
  <2> HIDE DEF Ns
  <2> QED BY <1>4, <1>5
<1> QED BY <1>5, <1>6

-----------------------------------------------------------------------------
(***************************************************************************)
(* The configuration in force.                                             *)
(***************************************************************************)

\* A file that has been read is whole; then validity is what the decoder tests.
LEMMA ParsedIs ==
  ASSUME ParsedOK, ReadOK, T!Parsed
  PROVE  /\ Valid(file) <=> Loads(doc)
         /\ Loads(doc) => Decode(doc) = Meant(file)
<1>1. Written(file) /\ Len(file) \in Nat /\ LinesOK(file) BY WrittenIs, ToksAre DEF ParsedOK
<1>2. at = Len(file) + 1 /\ array.line = 0 BY <1>1 DEF T!Parsed, T!AtEnd, T!InArray, ReadOK
<1>3. at - 1 = Len(file) /\ Len(file) \in 0..Len(file) BY <1>1, <1>2
<1>4. ReadSo(file, Len(file), doc, current, array) BY <1>3 DEF ReadOK
<1>5. ~Within(file, Len(file) + 1) BY <1>1, <1>2, <1>3, <1>4, ReadWhere
<1>6. Whole(file) /\ doc = Document(file, Len(file)) BY <1>1, <1>4, <1>5 DEF ReadSo, Whole
<1>7. Valid(file) <=> OnlyDocumented(file) /\ Usable(Meant(file)) BY <1>6 DEF Valid, Whole
<1> QED BY <1>1, <1>6, <1>7, LoadsIs

\* A file with an error is not valid.
LEMMA ErrorIs ==
  ASSUME ParsedOK, ReadOK, err # 0
  PROVE  ~Valid(file)
<1>1. Written(file) /\ Len(file) \in Nat BY WrittenIs, ToksAre DEF ParsedOK
<1>2. CASE err = at /\ at <= Len(file) /\ ~Readable(file, at)
  <2>1. at \in 0..Len(file) BY <1>1, <1>2 DEF ReadOK
  <2>2. ~Readable(file, Len(file)) BY <1>1, <1>2, <2>1, ReadableDown
  <2> QED BY <2>2 DEF Valid
<1>3. CASE at = Len(file) + 1 /\ array.line # 0
  <2>1. at - 1 = Len(file) /\ Len(file) \in 0..Len(file) BY <1>1, <1>3
  <2>2. ReadSo(file, Len(file), doc, current, array) BY <2>1 DEF ReadOK
  <2>3. Within(file, Len(file) + 1) BY <1>1, <1>3, <2>1, <2>2, ReadWhere
  <2> QED BY <2>3 DEF Valid
<1> QED BY <1>2, <1>3 DEF ReadOK

\* An empty file has no check.
LEMMA EmptyIs ==
  ASSUME NEW f, Len(f) = 0
  PROVE  ~Valid(f)
<1> DEFINE H == HeadersFor(f, ArrayHeader(<< "check" >>))
           c == Meant(f)
<1>1. HeaderLines(f, Len(f)) = {} BY DEF HeaderLines
<1>2. H = {} BY <1>1 DEF HeadersFor
<1>3. Cardinality(H) = 0 BY <1>2, FS_EmptySet
<1>4. c.checks = [n \in 1..Cardinality(H) |-> MeantCheck(f, NthLine(H, n))] BY DEF Meant
<1> HIDE DEF H, c
<1>5. c.checks = << >> BY <1>3, <1>4
<1>6. ~(Len(c.checks) > 0) BY <1>5
<1> QED BY <1>6 DEF Valid, Usable, c

\* What loads and refuses configurations, step by step.
LEMMA LoadsStep ==
  ASSUME ParsedOK, ReadOK, ProgressOK, [Next]_vars
  PROVE  /\ cfg' # cfg => cfg = NoConfig /\ Valid(file) /\ cfg' = Meant(file)
         /\ step = "config" /\ exit' = ExitRuntime /\ (err # 0 \/ T!Parsed) => ~Valid(file)
<1> USE DEF Running, ExitOK, ExitRuntime, ExitUsage, ExitBreach
<1>1. step = "config" => cfg = NoConfig /\ exit = Running BY DEF ProgressOK, BeforeConfig
<1>2. CASE LoadConfig
  <2>1. step = "config" /\ T!Parsed /\ Loads(doc) /\ cfg' = Decode(doc) BY <1>2 DEF LoadConfig
  <2>2. Valid(file) /\ cfg' = Meant(file) BY <2>1, ParsedIs
  <2>3. exit' = ExitOK \/ exit' = exit BY <1>2 DEF LoadConfig, Exit, Goto
  <2> QED BY <1>1, <2>1, <2>2, <2>3
<1>3. CASE ConfigRefused
  <2>1. cfg' = cfg /\ (err # 0 \/ (T!Parsed /\ ~Loads(doc))) BY <1>3 DEF ConfigRefused, At
  <2>2. ~Valid(file) BY <2>1, ParsedIs, ErrorIs
  <2> QED BY <2>1, <2>2
<1>4. CASE ConfigUnreadable
  <2>1. cfg' = cfg /\ at = 1 /\ err = 0 BY <1>4 DEF ConfigUnreadable, At
  <2>2. T!Parsed => Len(file) = 0
    <3>1. Len(file) \in Nat BY WrittenIs, ToksAre DEF ParsedOK
    <3> QED BY <2>1, <3>1 DEF T!Parsed, T!AtEnd
  <2> QED BY <2>1, <2>2, EmptyIs
<1>5. CASE ReadConfig BY <1>1, <1>5 DEF ReadConfig, runVars
<1>6. CASE UNCHANGED vars BY <1>1, <1>6 DEF vars, runVars
<1>7. ASSUME Next, ~LoadConfig, ~ConfigRefused, ~ConfigUnreadable, ~ReadConfig
      PROVE  cfg' = cfg /\ (step # "config" \/ exit' = exit \/ exit' = ExitUsage)
  <2>1. Arguments \/ ServeCommand => cfg' = cfg /\ step # "config"
    BY DEF Arguments, GlobalConfig, GlobalHelp, NoCommand, ChooseCommand, CommandHelp, NoFlags,
           ParseFlags, Positional, FlagsEnd, FlagAlone, FlagEquals, FlagValue, FlagRefused,
           FlagsParsed, ParsingFlags, At, ServeCommand
  <2>2. Deliveries => cfg' = cfg /\ exit' = exit
    BY DEF Deliveries, Delivery, Own, Others, Tick, Skip, Deliver, AnswerTooLate, Killed, RunReturns,
           Answer, ChildExits, StartFails, Forks, OffspringEnds, Child, Return, Webhook, Command,
           runVars
  <2>3. Commanded => cfg' = cfg /\ step # "config"
    BY <1>7 DEF Commanded, InitCommand, ReadClock, LoadState, Status, Save, RecordRefused, Record,
                DispatchNext, Finish, At, Call
  <2> QED BY <1>7, <2>1, <2>2, <2>3 DEF Next
<1> QED BY <1>1, <1>2, <1>3, <1>4, <1>5, <1>6, <1>7

\* The configuration in force is what the documentation says that the file
\* means, and only a file that says something else is refused.
THEOREM AlwaysLoadsExactly == Spec => LoadsExactly
<1> DEFINE Inv == ParsedOK /\ ReadOK /\ ProgressOK
           Right == /\ cfg' # cfg => cfg = NoConfig /\ Valid(file) /\ cfg' = Meant(file)
                    /\ step = "config" /\ exit' = ExitRuntime /\ (err # 0 \/ T!Parsed) =>
                         ~Valid(file)
<1>1. Init => Inv BY ReadFirst, DispatchInit DEF DispatchOK
<1>2. Inv /\ [Next]_vars => Inv' BY ReadNext, ParsedNext, ProgressStep
<1>3. Inv /\ [Next]_vars => [Right]_<< cfg, exit >> BY LoadsStep
<1> QED BY <1>1, <1>2, <1>3, PTL DEF Spec, LoadsExactly
=============================================================================
