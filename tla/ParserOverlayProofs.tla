------------------------- MODULE ParserOverlayProofs -------------------------
(***************************************************************************)
(* FoundAsAsked and OnlyDelayWrong for every set of words and lines, however *)
(* often the interrupt handler runs and whatever it queues.                 *)
(*                                                                          *)
(* The inductive invariant says, of a line whose comparisons no interrupt   *)
(* has hit, how far process_line has come: which names the first word is    *)
(* not (Comparing), how far it agrees with the name it is compared with     *)
(* (Agreeing), which digits parse_u16 has read (Reading) and, at the end,    *)
(* what was found (Found).  The shared cells need not hold their values: a  *)
(* cell that was overwritten is noticed in log when it is used.             *)
(***************************************************************************)
EXTENDS ParserOverlay, NumbersProofs, SequenceTheorems

Spelled(word) == Spelling[line.args[word].text]

Positions == {"done", "call", "copy", "compare", "digit", "multiply", "multiply_high"}
CommandNames == {"on", "off", "cycle", "status", "fault", "version", "help"}
Strings == CommandNames \cup {"1"}    \* what strings_equal is called with
Verdicts == CommandNames \cup {"none", NoReply, ERR_invalid_arg, ERR_invalid_command}
Words == 1 .. 3
Positive == Nat \ {0}

CpuTypes ==
    [pc : Positions, name : Strings, word : Words, command : Verdicts, i : Positive,
     parsed : Nat, low : Nat, delay : Nat]
RamTypes == [right : Nat, working : Nat, low : Nat, high : Nat]
LogTypes == [interrupts : Nat, name : BOOLEAN, delay : BOOLEAN]

TypeOK ==
    /\ line \in Lines \cup {NoLine}
    /\ cpu \in CpuTypes /\ ram \in RamTypes /\ log \in LogTypes
    /\ cpu.pc \in {"multiply", "multiply_high"} => IsDigit(Left)

(* process_line stops at this name.                                        *)
Taken(name) ==
    Named(line, name) /\ (name \in {"fault", "version", "help"} => argc = 1)

Comparing ==
    cpu.pc \in {"call", "copy", "compare"} =>
        /\ ~log.delay /\ ~TooLong(line) /\ ~Blank(line)
        /\ \/ /\ cpu.word = 1
              /\ \E n \in 1 .. 7 : cpu.name = Names[n] /\ \A k \in 1 .. n - 1 : ~Taken(Names[k])
           \/ /\ cpu.word = 2 /\ cpu.name = "1" /\ Named(line, cpu.command)
              /\ \/ cpu.command \in {"on", "off", "status"} /\ argc = 2
                 \/ cpu.command = "cycle" /\ argc = 3

Agreeing ==
    /\ cpu.pc \in {"call", "copy"} => cpu.i = 1
    /\ cpu.pc = "copy" => ram.right \in {1, Stray}
    /\ cpu.pc = "compare" =>
          /\ {ram.right, ram.working} \subseteq {cpu.i, Stray}
          /\ cpu.i \leq Len(Spelled(cpu.word)) + 1 /\ cpu.i \leq Len(Spelling[cpu.name]) + 1
          /\ \A k \in 1 .. cpu.i - 1 : Spelled(cpu.word)[k] = Spelling[cpu.name][k]

Reading ==
    cpu.pc \in {"digit", "multiply", "multiply_high"} =>
        /\ Named(line, "cycle")
        /\ \/ cpu.word = 2 /\ argc = 2
           \/ cpu.word = 3 /\ argc = 3 /\ valid_port_arg(line.args[2])
        /\ cpu.i \leq Len(Spelled(cpu.word)) + 1
        /\ ~log.delay => cpu.parsed = Parsed(Spelled(cpu.word))[cpu.i - 1]
        /\ cpu.pc = "multiply_high" /\ ~log.delay => cpu.low = cpu.parsed % 256

Found ==
    cpu.pc = "done" /\ line # NoLine =>
        IF log.delay
        THEN /\ Named(line, "cycle")
             /\ \/ cpu.command = ERR_invalid_arg
                \/ cpu.command = "cycle" /\ InRange(cpu.delay)
        ELSE /\ cpu.command = Asked(line)
             /\ IsCycle(line) => cpu.delay = cycle_ms(line)

Tracked == Comparing /\ Agreeing /\ Reading /\ Found

IInv == TypeOK /\ (~log.name => Tracked)

-----------------------------------------------------------------------------
(* Words and names.                                                        *)
LEMMA WordFacts ==
    ASSUME line \in Lines \cup {NoLine}
    PROVE  /\ argc \in Nat /\ line.overflow \in BOOLEAN
           /\ (line.args = <<>> <=> argc = 0)
           /\ \A k \in 1 .. argc :
                 /\ line.args[k].text \in DOMAIN Spelling
                 /\ line.args[k].number = parse_u16(Spelled(k))
<1>1. line \in Lines => \A k \in DOMAIN line.args :
                            /\ line.args[k].text \in DOMAIN Spelling
                            /\ line.args[k].number = parse_u16(Spelled(k))
  <2>1. \A l \in Lines : \A i \in DOMAIN l.args :
            /\ l.args[i].text \in DOMAIN Spelling
            /\ l.args[i].number = parse_u16(Spelling[l.args[i].text])
    BY OverlayAssumption, Zenon
  <2> QED BY <2>1, Zenon DEF Spelled
<1>2. line.args \in Seq(Word) /\ line.overflow \in BOOLEAN
  <2>1. CASE line \in Lines
    <3>1. line \in Line
      BY <2>1, LinesAssumption
    <3> QED BY <3>1 DEF Line
  <2>2. CASE line = NoLine
    <3>1. <<>> \in Seq(Word)
      BY EmptySeq
    <3> QED BY <2>2, <3>1 DEF NoLine
  <2> QED BY <2>1, <2>2
<1>3. line = NoLine => Len(line.args) = 0
  BY DEF NoLine
<1>4. argc \in Nat /\ DOMAIN line.args = 1 .. argc /\ (line.args = <<>> <=> argc = 0)
  BY <1>2 DEF argc
<1> QED BY <1>1, <1>2, <1>3, <1>4 DEF argc

LEMMA TextFacts ==
    ASSUME NEW t \in DOMAIN Spelling
    PROVE  /\ Spelling[t] \in Seq(Int) /\ Len(Spelling[t]) \in Nat
           /\ \A i \in Nat \ {0} :
                 /\ i \leq Len(Spelling[t]) =>
                       /\ CharAt(t, i) = Spelling[t][i] /\ CharAt(t, i) \in Int
                       /\ CharAt(t, i) # NUL /\ CharAt(t, i) # Other
                 /\ ~(i \leq Len(Spelling[t])) => CharAt(t, i) = NUL
<1>1. Spelling[t] \in Seq(Int) /\ \A i \in DOMAIN Spelling[t] : Spelling[t][i] \notin {NUL, Other}
  BY OverlayAssumption
<1> DEFINE w == Spelling[t]
<1>2. w \in Seq(Int) /\ Len(w) \in Nat /\ DOMAIN w = 1 .. Len(w)
  BY <1>1
<1>3. \A i \in 1 .. Len(w) : w[i] \in Int
  BY <1>2
<1> QED BY <1>1, <1>2, <1>3 DEF CharAt

LEMMA SpelledAlike ==
    ASSUME NEW s \in DOMAIN Spelling, NEW t \in DOMAIN Spelling,
           Len(Spelling[s]) = Len(Spelling[t]),
           \A k \in 1 .. Len(Spelling[s]) : Spelling[s][k] = Spelling[t][k]
    PROVE  s = t
<1> DEFINE v == Spelling[s]
           w == Spelling[t]
<1>1. v \in Seq(Int) /\ w \in Seq(Int)
  BY TextFacts
<1>2. v = w
  <2>1. Len(v) = Len(w) /\ \A k \in 1 .. Len(v) : v[k] = w[k]
    OBVIOUS
  <2> HIDE DEF v, w
  <2> QED BY <1>1, <2>1, SeqEqual
<1> QED BY <1>2, OverlayAssumption

LEMMA NameFacts ==
    /\ Len(Names) = 7 /\ "1" \in DOMAIN Spelling
    /\ \A n \in 1 .. 7 :
          /\ Names[n] \in DOMAIN Spelling /\ Names[n] # "1" /\ Index(Names[n]) = n
          /\ Names[n] \in CommandNames
    /\ \A name \in CommandNames :
          \E n \in 1 .. 7 : name = Names[n]
<1>1. /\ Len(Names) = 7 /\ DOMAIN Names = 1 .. 7
      /\ Names[1] = "on" /\ Names[2] = "off" /\ Names[3] = "cycle" /\ Names[4] = "status"
      /\ Names[5] = "fault" /\ Names[6] = "version" /\ Names[7] = "help"
  BY DEF Names
<1>2. \A n \in 1 .. 7 : n = 1 \/ n = 2 \/ n = 3 \/ n = 4 \/ n = 5 \/ n = 6 \/ n = 7
  OBVIOUS
<1>3. \A m, n \in 1 .. 7 : Names[m] = Names[n] => m = n
  BY <1>1, <1>2
<1>4. \A n \in 1 .. 7 : Index(Names[n]) = n
  <2> TAKE n \in 1 .. 7
  <2>1. n \in DOMAIN Names /\ \A m \in DOMAIN Names : Names[m] = Names[n] <=> m = n
    BY <1>1, <1>3
  <2> QED BY <2>1 DEF Index
<1>5. \A n \in 1 .. 7 :
          Names[n] \in CommandNames
  BY <1>1, <1>2 DEF CommandNames
<1>6. \A n \in 1 .. 7 : Names[n] \in DOMAIN Spelling /\ "1" \in DOMAIN Spelling
  BY <1>1, OverlayAssumption
<1>7. \A name \in CommandNames :
          \E n \in 1 .. 7 : name = Names[n]
  BY <1>1 DEF CommandNames
<1>8. 1 \in 1 .. 7
  OBVIOUS
<1> QED BY <1>1, <1>4, <1>5, <1>6, <1>7, <1>8

(* The three verdicts on a line that names no command exclude each other.  *)
LEMMA AskedFacts ==
    ASSUME line \in Lines \cup {NoLine}
    PROVE  /\ IsBadArg(line) => Asked(line) = ERR_invalid_arg
           /\ IsUnknown(line) => Asked(line) = ERR_invalid_command
           /\ Blank(line) => Asked(line) = NoReply
           /\ ~IsBadArg(line) /\ ~IsUnknown(line) /\ ~Blank(line)
                => Asked(line) = line.args[1].text
<1>1. Blank(line) => ~TooLong(line)
  BY WordFacts DEF Blank, TooLong, argc, REPLUG_MAX_ARGS
<1>2. Blank(line) => ~IsBadArg(line) /\ ~IsUnknown(line)
  BY <1>1 DEF IsBadArg, IsUnknown, Named
<1>3. IsBadArg(line) => ~IsUnknown(line)
  BY DEF IsBadArg, IsUnknown
<1> QED BY <1>2, <1>3 DEF Asked

LEMMA NamedFacts ==
    ASSUME line \in Lines \cup {NoLine}, NEW name, Named(line, name)
    PROVE  /\ ~TooLong(line) /\ ~Blank(line) /\ line.args[1].text = name
           /\ argc = 1 \/ argc = 2 \/ argc = 3
<1>1. argc \in Nat /\ argc # 0 /\ argc \leq 3
  BY WordFacts DEF Named, Blank, TooLong, argc, REPLUG_MAX_ARGS
<1> QED BY <1>1 DEF Named

-----------------------------------------------------------------------------
(* The places process_line can go to when a comparison has returned.       *)
LEMMA TypeNames ==
    /\ {"done", "call", "copy", "compare", "digit", "multiply", "multiply_high"} \subseteq Positions
    /\ {"none", NoReply, ERR_invalid_arg, ERR_invalid_command} \subseteq Verdicts
    /\ CommandNames \subseteq Verdicts /\ CommandNames \subseteq Strings
    /\ "on" \in CommandNames /\ "cycle" \in CommandNames /\ "1" \in Strings
    /\ 1 \in Words /\ 2 \in Words /\ 3 \in Words /\ 1 \in Positive
BY DEF Positions, CommandNames, Verdicts, Strings, Words, Positive

LEMMA VerdictFields ==
    ASSUME NEW command \in Verdicts, NEW delay \in Nat
    PROVE  /\ Verdict(command, delay) \in CpuTypes /\ Verdict(command, delay).pc = "done"
           /\ Verdict(command, delay).command = command /\ Verdict(command, delay).delay = delay
<1>1. "on" \in Strings /\ "done" \in Positions /\ "none" \in Verdicts
  BY TypeNames
<1>2. Idle \in CpuTypes
  BY <1>1, TypeNames DEF Idle, CpuTypes
<1>3. Verdict(command, delay) \in CpuTypes
  BY <1>2 DEF Verdict, CpuTypes
<1> QED BY <1>3 DEF Verdict, Idle

LEMMA ComparedFields ==
    ASSUME cpu \in CpuTypes, NEW name \in Strings, NEW word \in Words
    PROVE  LET c == Compared(name, word) IN
           /\ c \in CpuTypes /\ c.pc = "call" /\ c.name = name /\ c.word = word
           /\ c.i = 1 /\ c.command = cpu.command
<1>1. "call" \in Positions /\ 1 \in Positive
  BY TypeNames
<1> QED BY <1>1 DEF Compared, CpuTypes

LEMMA PortFields ==
    ASSUME cpu \in CpuTypes, NEW command \in Verdicts
    PROVE  LET c == [Compared("1", 2) EXCEPT !.command = command] IN
           /\ c \in CpuTypes /\ c.pc = "call" /\ c.name = "1" /\ c.word = 2
           /\ c.i = 1 /\ c.command = command
<1> DEFINE d == Compared("1", 2)
<1>1. d \in CpuTypes /\ d.pc = "call" /\ d.name = "1" /\ d.word = 2 /\ d.i = 1
  BY ComparedFields, TypeNames
<1> HIDE DEF d
<1>2. LET c == [d EXCEPT !.command = command] IN
      /\ c \in CpuTypes /\ c.pc = "call" /\ c.name = "1" /\ c.word = 2
      /\ c.i = 1 /\ c.command = command
  BY <1>1 DEF CpuTypes
<1> QED BY <1>2 DEF d

LEMMA ParsingFields ==
    ASSUME cpu \in CpuTypes, NEW word \in Words
    PROVE  LET c == Parsing(word) IN
           /\ c \in CpuTypes /\ c.pc = "digit" /\ c.word = word
           /\ c.i = 1 /\ c.parsed = 0 /\ c.command = cpu.command
<1>1. "digit" \in Positions /\ 1 \in Positive
  BY TypeNames
<1> QED BY <1>1 DEF Parsing, CpuTypes

LEMMA DelayFields ==
    ASSUME cpu \in CpuTypes, NEW command \in Verdicts
    PROVE  LET c == [Parsing(2) EXCEPT !.command = command] IN
           /\ c \in CpuTypes /\ c.pc = "digit" /\ c.word = 2 /\ c.i = 1 /\ c.parsed = 0
<1> DEFINE d == Parsing(2)
<1>1. d \in CpuTypes /\ d.pc = "digit" /\ d.word = 2 /\ d.i = 1 /\ d.parsed = 0
  BY ParsingFields, TypeNames
<1> HIDE DEF d
<1>2. LET c == [d EXCEPT !.command = command] IN
      c \in CpuTypes /\ c.pc = "digit" /\ c.word = 2 /\ c.i = 1 /\ c.parsed = 0
  BY <1>1 DEF CpuTypes
<1> QED BY <1>2 DEF d

LEMMA DoneRight ==
    ASSUME cpu'.pc = "done", line' = line, log'.delay = FALSE,
           cpu'.command = Asked(line), IsCycle(line) => cpu'.delay = cycle_ms(line)
    PROVE  Tracked'
BY DEF Tracked, Comparing, Agreeing, Reading, Found

LEMMA PortRight ==
    ASSUME cpu'.pc = "call", cpu'.i = 1, line' = line, log'.delay = FALSE,
           line \in Lines \cup {NoLine}, Named(line, cpu'.command),
           cpu'.word = 2, cpu'.name = "1",
           \/ cpu'.command \in {"on", "off", "status"} /\ argc = 2
           \/ cpu'.command = "cycle" /\ argc = 3
    PROVE  Tracked'
<1>1. ~TooLong(line) /\ ~Blank(line)
  BY NamedFacts
<1>2. Comparing'
  BY <1>1 DEF Comparing, argc
<1> QED BY <1>2 DEF Tracked, Agreeing, Reading, Found

LEMMA DelayRight ==
    ASSUME cpu'.pc = "digit", cpu'.i = 1, cpu'.parsed = 0, line' = line,
           line \in Lines \cup {NoLine}, Named(line, "cycle"),
           \/ cpu'.word = 2 /\ argc = 2
           \/ cpu'.word = 3 /\ argc = 3 /\ valid_port_arg(line.args[2])
    PROVE  Tracked'
<1> DEFINE w == Spelled(cpu'.word)
<1>1. cpu'.word \in 1 .. argc
  OBVIOUS
<1>2. line.args[cpu'.word].text \in DOMAIN Spelling
  BY <1>1, WordFacts
<1>3. w \in Seq(Int) /\ Len(w) \in Nat
  BY <1>2, TextFacts DEF Spelled
<1>4. Parsed(w)[0] = 0
  BY <1>3, ParsedChain
<1>5. Spelled(cpu.word)' = w
  BY DEF Spelled
<1> HIDE DEF w
<1>6. Reading'
  BY <1>3, <1>4, <1>5 DEF Reading, argc
<1> QED BY <1>6 DEF Tracked, Comparing, Agreeing, Found

-----------------------------------------------------------------------------
(* A comparison returns.  The types hold whatever it has found.            *)
LEMMA DefaultDelay == REPLUG_DEFAULT_CYCLE_MS \in Nat /\ 0 \in Nat
BY CycleAssumption

LEMMA HandlerTypes ==
    ASSUME cpu \in CpuTypes, NEW command \in CommandNames
    PROVE  Handler(command) \in CpuTypes /\ Handler(command).pc \in {"done", "call", "digit"}
<1>1. command \in Verdicts /\ ERR_invalid_arg \in Verdicts
  BY TypeNames
<1>2. /\ Verdict(command, 0) \in CpuTypes /\ Verdict(command, 0).pc = "done"
      /\ Verdict(command, REPLUG_DEFAULT_CYCLE_MS) \in CpuTypes
      /\ Verdict(command, REPLUG_DEFAULT_CYCLE_MS).pc = "done"
      /\ Verdict(ERR_invalid_arg, 0) \in CpuTypes /\ Verdict(ERR_invalid_arg, 0).pc = "done"
  BY <1>1, VerdictFields, DefaultDelay
<1>3. LET c == [Compared("1", 2) EXCEPT !.command = command] IN
      c \in CpuTypes /\ c.pc = "call"
  BY <1>1, PortFields
<1>4. LET c == [Parsing(2) EXCEPT !.command = command] IN c \in CpuTypes /\ c.pc = "digit"
  BY <1>1, DelayFields
<1> QED BY <1>2, <1>3, <1>4 DEF Handler

LEMMA ReturnTypes ==
    ASSUME cpu \in CpuTypes, NEW equal \in BOOLEAN, Return(equal)
    PROVE  cpu' \in CpuTypes /\ cpu'.pc \in {"done", "call", "digit"}
<1>1. cpu.command \in Verdicts /\ cpu.name \in Strings
  BY DEF CpuTypes
<1>2. /\ Verdict(ERR_invalid_arg, 0) \in CpuTypes /\ Verdict(ERR_invalid_arg, 0).pc = "done"
      /\ Verdict(ERR_invalid_command, 0) \in CpuTypes
      /\ Verdict(ERR_invalid_command, 0).pc = "done"
      /\ Verdict(cpu.command, 0) \in CpuTypes /\ Verdict(cpu.command, 0).pc = "done"
  BY <1>1, TypeNames, VerdictFields, DefaultDelay
<1>3. Parsing(3) \in CpuTypes /\ Parsing(3).pc = "digit"
  BY ParsingFields, TypeNames
<1>4. CASE cpu.name = "1"
  BY <1>2, <1>3, <1>4 DEF Return, PortCompared
<1>5. CASE cpu.name # "1"
  <2>1. cpu.name \in CommandNames
    BY <1>1, <1>5 DEF Strings
  <2>2. PICK n \in 1 .. 7 : cpu.name = Names[n]
    BY <2>1, NameFacts
  <2>3. Index(cpu.name) = n /\ Len(Names) = 7
    BY <2>2, NameFacts
  <2>4. n # 7 => Names[n + 1] \in Strings
    <3>1. n # 7 => n + 1 \in 1 .. 7
      OBVIOUS
    <3> QED BY <3>1, NameFacts, TypeNames
  <2>5. n # 7 => /\ Compared(Names[n + 1], 1) \in CpuTypes
                 /\ Compared(Names[n + 1], 1).pc = "call"
    BY <2>4, ComparedFields, TypeNames
  <2>6. /\ Handler(cpu.name) \in CpuTypes
        /\ Handler(cpu.name).pc \in {"done", "call", "digit"}
    BY <2>1, HandlerTypes
  <2>7. cpu' = NameCompared(equal)
    BY <1>5 DEF Return
  <2> QED BY <1>2, <2>3, <2>5, <2>6, <2>7 DEF NameCompared
<1> QED BY <1>4, <1>5

(* The command has been found, as it was asked.                            *)
LEMMA HandlerRight ==
    ASSUME cpu \in CpuTypes, line \in Lines \cup {NoLine}, NEW command \in CommandNames,
           Taken(command), cpu' = Handler(command), line' = line, log'.delay = FALSE
    PROVE  Tracked'
<1>1. /\ Named(line, command) /\ ~TooLong(line) /\ ~Blank(line)
      /\ line.args[1].text = command /\ (argc = 1 \/ argc = 2 \/ argc = 3)
      /\ command \in Verdicts /\ ERR_invalid_arg \in Verdicts
  BY NamedFacts, TypeNames DEF Taken
<1>2. \A other : Named(line, other) => other = command
  BY <1>1 DEF Named
<1>3. CASE command \in {"fault", "version", "help"}
  <2>1. argc = 1
    BY <1>3 DEF Taken
  <2>2. cpu' = Verdict(command, 0)
    BY <1>3 DEF Handler
  <2>3. cpu'.pc = "done" /\ cpu'.command = command
    BY <1>1, <2>2, VerdictFields, DefaultDelay
  <2>4. ~IsBadArg(line) /\ ~IsUnknown(line) /\ ~IsCycle(line)
    BY <1>1, <1>2, <1>3, <2>1 DEF IsBadArg, IsUnknown, IsFault, IsInfo, IsCycle, argc
  <2>5. Asked(line) = command
    BY <1>1, <2>4, AskedFacts
  <2> QED BY <2>3, <2>4, <2>5, DoneRight
<1>4. CASE command = "cycle"
  <2>1. CASE argc = 1
    <3>1. cpu' = Verdict("cycle", REPLUG_DEFAULT_CYCLE_MS)
      BY <1>4, <2>1 DEF Handler
    <3>2. cpu'.pc = "done" /\ cpu'.command = "cycle" /\ cpu'.delay = REPLUG_DEFAULT_CYCLE_MS
      BY <1>1, <1>4, <3>1, VerdictFields, DefaultDelay
    <3>3. cycle_ms(line) = REPLUG_DEFAULT_CYCLE_MS
      BY <2>1 DEF cycle_ms, argc
    <3>4. IsCycle(line)
      BY <1>1, <1>4, <3>3, CycleAssumption DEF IsCycle, CycleArgsOk
    <3>5. ~IsBadArg(line) /\ ~IsUnknown(line)
      BY <1>1, <1>2, <1>4, <3>4 DEF IsBadArg, IsUnknown, IsCycle
    <3>6. Asked(line) = "cycle"
      BY <1>1, <1>4, <3>5, AskedFacts
    <3> QED BY <3>2, <3>3, <3>6, DoneRight
  <2>2. CASE argc = 2
    <3>1. cpu' = [Parsing(2) EXCEPT !.command = command]
      BY <1>4, <2>2 DEF Handler
    <3>2. cpu'.pc = "digit" /\ cpu'.word = 2 /\ cpu'.i = 1 /\ cpu'.parsed = 0
      BY <1>1, <3>1, DelayFields
    <3> QED BY <1>1, <1>4, <2>2, <3>2, DelayRight
  <2>3. CASE argc = 3
    <3>1. cpu' = [Compared("1", 2) EXCEPT !.command = command]
      BY <1>4, <2>3 DEF Handler
    <3>2. /\ cpu'.pc = "call" /\ cpu'.name = "1" /\ cpu'.word = 2
          /\ cpu'.i = 1 /\ cpu'.command = command
      BY <1>1, <3>1, PortFields
    <3> QED BY <1>1, <1>4, <2>3, <3>2, PortRight
  <2> QED BY <1>1, <2>1, <2>2, <2>3
<1>5. CASE command \in {"on", "off", "status"}
  <2>1. CASE argc = 1
    <3>1. cpu' = Verdict(command, 0)
      BY <1>5, <2>1 DEF Handler
    <3>2. cpu'.pc = "done" /\ cpu'.command = command
      BY <1>1, <3>1, VerdictFields, DefaultDelay
    <3>3. ~IsBadArg(line) /\ ~IsUnknown(line) /\ ~IsCycle(line)
      BY <1>1, <1>2, <1>5, <2>1 DEF IsBadArg, IsUnknown, IsCycle, PortArgOk, argc
    <3>4. Asked(line) = command
      BY <1>1, <3>3, AskedFacts
    <3> QED BY <3>2, <3>3, <3>4, DoneRight
  <2>2. CASE argc = 2
    <3>1. cpu' = [Compared("1", 2) EXCEPT !.command = command]
      BY <1>5, <2>2 DEF Handler
    <3>2. /\ cpu'.pc = "call" /\ cpu'.name = "1" /\ cpu'.word = 2
          /\ cpu'.i = 1 /\ cpu'.command = command
      BY <1>1, <3>1, PortFields
    <3> QED BY <1>1, <1>5, <2>2, <3>2, PortRight
  <2>3. CASE argc = 3
    <3>1. cpu' = Verdict(ERR_invalid_arg, 0)
      BY <1>5, <2>3 DEF Handler
    <3>2. cpu'.pc = "done" /\ cpu'.command = ERR_invalid_arg
      BY <1>1, <3>1, VerdictFields, DefaultDelay
    <3>3. IsBadArg(line) /\ ~IsCycle(line)
      BY <1>1, <1>2, <1>5, <2>3 DEF IsBadArg, IsCycle, PortArgOk, argc
    <3>4. Asked(line) = ERR_invalid_arg
      BY <3>3, AskedFacts
    <3> QED BY <3>2, <3>3, <3>4, DoneRight
  <2> QED BY <1>1, <2>1, <2>2, <2>3
<1> QED BY <1>3, <1>4, <1>5 DEF CommandNames

(* valid_port_arg returns.                                                 *)
LEMMA PortReturned ==
    ASSUME cpu \in CpuTypes, line \in Lines \cup {NoLine}, Named(line, cpu.command),
           \/ cpu.command \in {"on", "off", "status"} /\ argc = 2
           \/ cpu.command = "cycle" /\ argc = 3,
           NEW equal \in BOOLEAN, equal <=> valid_port_arg(line.args[2]),
           cpu' = PortCompared(equal), line' = line, log'.delay = FALSE
    PROVE  Tracked'
<1>1. /\ ~TooLong(line) /\ ~Blank(line) /\ line.args[1].text = cpu.command
      /\ cpu.command \in Verdicts /\ ERR_invalid_arg \in Verdicts
  BY NamedFacts, TypeNames DEF CpuTypes
<1>2. \A other : Named(line, other) => other = cpu.command
  BY <1>1 DEF Named
<1>3. CASE ~equal
  <2>1. cpu' = Verdict(ERR_invalid_arg, 0)
    BY <1>3 DEF PortCompared
  <2>2. cpu'.pc = "done" /\ cpu'.command = ERR_invalid_arg
    BY <1>1, <2>1, VerdictFields, DefaultDelay
  <2>3. ~valid_port_arg(line.args[2])
    BY <1>3
  <2>4. CASE cpu.command \in {"on", "off", "status"} /\ argc = 2
    <3>1. IsBadArg(line) /\ ~IsCycle(line)
      BY <1>1, <1>2, <2>3, <2>4 DEF IsBadArg, IsCycle, PortArgOk, argc
    <3> QED BY <2>2, <3>1, AskedFacts, DoneRight
  <2>5. CASE cpu.command = "cycle" /\ argc = 3
    <3>1. cycle_ms(line) = NotANumber
      BY <2>3, <2>5 DEF cycle_ms, argc
    <3>2. ~CycleArgsOk(line)
      BY <3>1, CycleAssumption DEF CycleArgsOk, NotANumber
    <3>3. IsBadArg(line) /\ ~IsCycle(line)
      BY <2>5, <3>2 DEF IsBadArg, IsCycle
    <3> QED BY <2>2, <3>3, AskedFacts, DoneRight
  <2> QED BY <2>4, <2>5
<1>4. CASE equal /\ cpu.command = "cycle"
  <2>1. cpu' = Parsing(3)
    BY <1>4 DEF PortCompared
  <2>2. cpu'.pc = "digit" /\ cpu'.word = 3 /\ cpu'.i = 1 /\ cpu'.parsed = 0
    BY <2>1, ParsingFields, TypeNames
  <2>3. argc = 3 /\ valid_port_arg(line.args[2]) /\ Named(line, "cycle")
    BY <1>4
  <2> QED BY <2>2, <2>3, DelayRight
<1>5. CASE equal /\ cpu.command # "cycle"
  <2>1. cpu' = Verdict(cpu.command, 0)
    BY <1>5 DEF PortCompared
  <2>2. cpu'.pc = "done" /\ cpu'.command = cpu.command
    BY <1>1, <2>1, VerdictFields, DefaultDelay
  <2>3. cpu.command \in {"on", "off", "status"} /\ argc = 2 /\ valid_port_arg(line.args[2])
    BY <1>5
  <2>4. ~IsBadArg(line) /\ ~IsUnknown(line) /\ ~IsCycle(line)
    BY <1>1, <1>2, <2>3 DEF IsBadArg, IsUnknown, IsCycle, PortArgOk, argc
  <2>5. Asked(line) = cpu.command
    BY <1>1, <2>4, AskedFacts
  <2> QED BY <2>2, <2>4, <2>5, DoneRight
<1> QED BY <1>3, <1>4, <1>5

(* strings_equal returns for a name.                                       *)
LEMMA NameReturned ==
    ASSUME cpu \in CpuTypes, line \in Lines \cup {NoLine}, ~TooLong(line), ~Blank(line),
           NEW n \in 1 .. 7, cpu.name = Names[n], \A k \in 1 .. n - 1 : ~Taken(Names[k]),
           NEW equal \in BOOLEAN, equal <=> line.args[1].text = cpu.name,
           cpu' = NameCompared(equal), line' = line, log'.delay = FALSE
    PROVE  Tracked'
<1>1. Index(cpu.name) = n /\ Len(Names) = 7 /\ cpu.name \in CommandNames
  BY NameFacts
<1>2. equal <=> Named(line, cpu.name)
  BY DEF Named
<1>3. CASE Taken(cpu.name)
  <2>1. cpu' = Handler(cpu.name)
    BY <1>2, <1>3 DEF NameCompared, Taken
  <2> QED BY <1>1, <1>3, <2>1, HandlerRight
<1>4. CASE ~Taken(cpu.name)
  <2>1. cpu' = IF n = 7 THEN Verdict(ERR_invalid_command, 0) ELSE Compared(Names[n + 1], 1)
    BY <1>1, <1>2, <1>4 DEF NameCompared, Taken
  <2>2. \A k \in 1 .. n : ~Taken(Names[k])
    <3>1. \A k \in 1 .. n : k = n \/ k \in 1 .. n - 1
      OBVIOUS
    <3> QED BY <1>4, <3>1
  <2>3. CASE n = 7
    <3>1. cpu'.pc = "done" /\ cpu'.command = ERR_invalid_command
      BY <2>1, <2>3, VerdictFields, DefaultDelay, TypeNames
    <3>2. \A name \in CommandNames : ~Taken(name)
      BY <2>2, <2>3, NameFacts
    <3>3. /\ ~Named(line, "on") /\ ~Named(line, "off") /\ ~Named(line, "cycle")
          /\ ~Named(line, "status") /\ ~IsFault(line) /\ ~IsInfo(line)
      BY <3>2 DEF Taken, CommandNames, IsFault, IsInfo, argc
    <3>4. IsUnknown(line) /\ ~IsCycle(line)
      BY <3>3 DEF IsUnknown, IsCycle
    <3> QED BY <3>1, <3>4, AskedFacts, DoneRight
  <2>4. CASE n # 7
    <3>1. n + 1 \in 1 .. 7 /\ (n + 1) - 1 = n
      BY <2>4
    <3>2. Names[n + 1] \in Strings
      BY <3>1, NameFacts, TypeNames
    <3>3. /\ cpu'.pc = "call" /\ cpu'.name = Names[n + 1] /\ cpu'.word = 1 /\ cpu'.i = 1
      BY <2>1, <2>4, <3>2, ComparedFields, TypeNames
    <3>4. \A k \in 1 .. (n + 1) - 1 : ~Taken(Names[k])'
      BY <2>2, <3>1 DEF Taken, argc
    <3>5. Comparing'
      BY <3>1, <3>3, <3>4 DEF Comparing
    <3> QED BY <3>3, <3>5 DEF Tracked, Agreeing, Reading, Found
  <2> QED BY <2>3, <2>4
<1> QED BY <1>3, <1>4

LEMMA ReturnRight ==
    ASSUME TypeOK, Comparing, cpu.pc = "compare",
           NEW equal \in BOOLEAN, equal <=> line.args[cpu.word].text = cpu.name,
           Return(equal), line' = line, log'.delay = log.delay
    PROVE  Tracked'
<1>1. /\ cpu \in CpuTypes /\ line \in Lines \cup {NoLine} /\ log'.delay = FALSE
      /\ ~TooLong(line) /\ ~Blank(line)
  BY DEF TypeOK, LogTypes, Comparing
<1>2. CASE cpu.word = 1 /\ \E n \in 1 .. 7 : /\ cpu.name = Names[n]
                                             /\ \A k \in 1 .. n - 1 : ~Taken(Names[k])
  <2>1. PICK n \in 1 .. 7 : cpu.name = Names[n] /\ \A k \in 1 .. n - 1 : ~Taken(Names[k])
    BY <1>2
  <2>2. cpu.name # "1"
    BY <2>1, NameFacts
  <2>3. cpu' = NameCompared(equal)
    BY <2>2 DEF Return
  <2>4. equal <=> line.args[1].text = cpu.name
    BY <1>2
  <2> QED BY <1>1, <2>1, <2>3, <2>4, NameReturned
<1>3. CASE /\ cpu.word = 2 /\ cpu.name = "1" /\ Named(line, cpu.command)
           /\ \/ cpu.command \in {"on", "off", "status"} /\ argc = 2
              \/ cpu.command = "cycle" /\ argc = 3
  <2>1. cpu' = PortCompared(equal)
    BY <1>3 DEF Return
  <2>2. equal <=> valid_port_arg(line.args[2])
    BY <1>3 DEF valid_port_arg
  <2> QED BY <1>1, <1>3, <2>1, <2>2, PortReturned
<1> QED BY <1>2, <1>3 DEF Comparing

-----------------------------------------------------------------------------
(* The characters a comparison or a multiplication looks at.               *)
LEMMA InTheWord ==
    ASSUME TypeOK,
           \/ Comparing /\ cpu.pc \in {"call", "copy", "compare"}
           \/ Reading /\ cpu.pc \in {"digit", "multiply", "multiply_high"}
    PROVE  /\ line.args[cpu.word].text \in DOMAIN Spelling
           /\ line.args[cpu.word].number = parse_u16(Spelled(cpu.word))
<1>1. line \in Lines \cup {NoLine}
  BY DEF TypeOK
<1>2. cpu.word \in 1 .. argc
  <2>1. CASE Comparing /\ cpu.pc \in {"call", "copy", "compare"}
    <3>1. argc \in Nat /\ argc # 0
      BY <1>1, <2>1, WordFacts DEF Comparing, Blank, TooLong
    <3> QED BY <2>1, <3>1 DEF Comparing
  <2>2. CASE Reading /\ cpu.pc \in {"digit", "multiply", "multiply_high"}
    BY <2>2 DEF Reading
  <2> QED BY <2>1, <2>2
<1> QED BY <1>1, <1>2, WordFacts

LEMMA LeftFacts ==
    ASSUME TypeOK, line.args[cpu.word].text \in DOMAIN Spelling,
           cpu.i \leq Len(Spelled(cpu.word)) + 1
    PROVE  LET w == Spelled(cpu.word) IN
           /\ w \in Seq(Int) /\ Len(w) \in Nat /\ cpu.i \in Nat /\ cpu.i \geq 1
           /\ Left = CharAt(line.args[cpu.word].text, cpu.i)
           /\ Left = NUL => cpu.i = Len(w) + 1
           /\ Left # NUL => cpu.i \leq Len(w) /\ Left = w[cpu.i] /\ Left \in Int /\ Left # Other
<1> DEFINE t == line.args[cpu.word].text
           w == Spelling[t]
<1>1. cpu.i \in Nat \ {0}
  BY DEF TypeOK, CpuTypes, Positive
<1>2. /\ w \in Seq(Int) /\ Len(w) \in Nat
      /\ cpu.i \leq Len(w) => /\ CharAt(t, cpu.i) = w[cpu.i] /\ CharAt(t, cpu.i) \in Int
                              /\ CharAt(t, cpu.i) # NUL /\ CharAt(t, cpu.i) # Other
      /\ ~(cpu.i \leq Len(w)) => CharAt(t, cpu.i) = NUL
  BY <1>1, TextFacts
<1>3. Left = CharAt(t, cpu.i) /\ Spelled(cpu.word) = w
  BY DEF Left, Spelled
<1> HIDE DEF t, w
<1>4. ~(cpu.i \leq Len(w)) => cpu.i = Len(w) + 1
  BY <1>1, <1>2, <1>3
<1> QED BY <1>1, <1>2, <1>3, <1>4 DEF t

LEMMA NameSpelled ==
    ASSUME TypeOK, Comparing, cpu.pc \in {"call", "copy", "compare"}
    PROVE  cpu.name \in DOMAIN Spelling
BY NameFacts DEF Comparing

(* The delay a cycle asks for is the number of the word that is read.      *)
LEMMA DelayAsked ==
    ASSUME TypeOK, Reading, cpu.pc \in {"digit", "multiply", "multiply_high"}
    PROVE  LET number == line.args[cpu.word].number IN
           /\ Named(line, "cycle") /\ cycle_ms(line) = number
           /\ InRange(number) => IsCycle(line) /\ Asked(line) = "cycle"
           /\ ~InRange(number) => ~IsCycle(line) /\ Asked(line) = ERR_invalid_arg
<1> DEFINE number == line.args[cpu.word].number
<1>1. /\ line \in Lines \cup {NoLine} /\ Named(line, "cycle")
      /\ \/ cpu.word = 2 /\ argc = 2
         \/ cpu.word = 3 /\ argc = 3 /\ valid_port_arg(line.args[2])
  BY DEF TypeOK, Reading
<1>2. cycle_ms(line) = number
  BY <1>1 DEF cycle_ms, argc
<1>3. ~TooLong(line) /\ ~Blank(line) /\ line.args[1].text = "cycle"
  BY <1>1, NamedFacts
<1> HIDE DEF number
<1>4. IsCycle(line) <=> InRange(number)
  BY <1>1, <1>2 DEF IsCycle, CycleArgsOk, InRange
<1>5. IsBadArg(line) <=> ~InRange(number)
  BY <1>1, <1>2, <1>3 DEF IsBadArg, CycleArgsOk, InRange, Named
<1>6. ~IsUnknown(line)
  BY <1>1 DEF IsUnknown
<1>7. /\ IsBadArg(line) => Asked(line) = ERR_invalid_arg
      /\ ~IsBadArg(line) => Asked(line) = "cycle"
  BY <1>1, <1>3, <1>6, AskedFacts
<1> QED BY <1>1, <1>2, <1>4, <1>5, <1>7 DEF number

LEMMA DelayDone ==
    ASSUME TypeOK, Reading, cpu.pc \in {"digit", "multiply", "multiply_high"},
           line' = line, cpu'.pc = "done", log'.delay \in BOOLEAN,
           \/ /\ cpu'.command = ERR_invalid_arg
              /\ ~log'.delay => ~InRange(line.args[cpu.word].number)
           \/ /\ cpu'.command = "cycle" /\ InRange(cpu'.delay)
              /\ ~log'.delay => cpu'.delay = line.args[cpu.word].number
    PROVE  Tracked'
<1>1. Found'
  <2>1. CASE log'.delay
    BY <2>1, DelayAsked DEF Found
  <2>2. CASE ~log'.delay
    <3>1. /\ cpu'.command = Asked(line)
          /\ IsCycle(line) => cpu'.delay = cycle_ms(line)
      BY <2>2, DelayAsked
    <3> QED BY <2>2, <3>1 DEF Found
  <2> QED BY <2>1, <2>2
<1> QED BY <1>1 DEF Tracked, Comparing, Agreeing, Reading

-----------------------------------------------------------------------------
(* The steps.                                                              *)
LEMMA LogFields ==
    ASSUME log \in LogTypes, NEW overwritten \in BOOLEAN
    PROVE  /\ Reads(overwritten) =>
                 /\ log' \in LogTypes /\ log'.delay = log.delay
                 /\ ~log'.name <=> ~log.name /\ ~overwritten
           /\ Multiplies(overwritten) =>
                 /\ log' \in LogTypes /\ log'.name = log.name
                 /\ ~log'.delay <=> ~log.delay /\ ~overwritten
<1>1. log.name \in BOOLEAN /\ log.delay \in BOOLEAN
  BY DEF LogTypes
<1> DEFINE n == log.name \/ overwritten
           d == log.delay \/ overwritten
<1>2. n \in BOOLEAN /\ d \in BOOLEAN
  OBVIOUS
<1>3. Reads(overwritten) => log' = [log EXCEPT !.name = n]
  BY DEF Reads
<1>4. Multiplies(overwritten) => log' = [log EXCEPT !.delay = d]
  BY DEF Multiplies
<1>5. (~n <=> ~log.name /\ ~overwritten) /\ (~d <=> ~log.delay /\ ~overwritten)
  OBVIOUS
<1> HIDE DEF n, d
<1>6. Reads(overwritten) =>
          /\ log' \in LogTypes /\ log'.delay = log.delay
          /\ log'.name = n
  BY <1>2, <1>3 DEF LogTypes
<1>7. Multiplies(overwritten) =>
          /\ log' \in LogTypes /\ log'.name = log.name
          /\ log'.delay = d
  BY <1>2, <1>4 DEF LogTypes
<1> QED BY <1>5, <1>6, <1>7

LEMMA InitInv == Init => IInv
<1> SUFFICES ASSUME Init PROVE IInv
  OBVIOUS
<1>1. Idle \in CpuTypes /\ Idle.pc = "done"
  BY TypeNames DEF Idle, CpuTypes
<1>2. ram \in RamTypes /\ log \in LogTypes
  BY DEF Init, RamTypes, LogTypes, Stray
<1>3. TypeOK
  BY <1>1, <1>2 DEF Init, TypeOK
<1>4. Tracked
  BY <1>1 DEF Init, Tracked, Comparing, Agreeing, Reading, Found
<1> QED BY <1>3, <1>4 DEF IInv

LEMMA ProcessLineInv ==
    ASSUME IInv, NEW l \in Lines, ProcessLine(l)
    PROVE  IInv'
<1>1. /\ line' = l /\ ram' = ram
      /\ log' = [interrupts |-> 0, name |-> FALSE, delay |-> FALSE]
  BY DEF ProcessLine
<1>2. log' \in LogTypes /\ log'.delay = FALSE /\ line' \in Lines \cup {NoLine}
  BY <1>1 DEF LogTypes
<1>3. CASE TooLong(l)
  <2>1. cpu' = Verdict(ERR_invalid_arg, 0)
    BY <1>3 DEF ProcessLine
  <2>2. cpu' \in CpuTypes /\ cpu'.pc = "done" /\ cpu'.command = ERR_invalid_arg
    BY <2>1, VerdictFields, DefaultDelay, TypeNames
  <2>3. IsBadArg(l) /\ ~IsCycle(l)
    BY <1>3 DEF IsBadArg, IsCycle, Named
  <2>4. Asked(l) = ERR_invalid_arg
    <3>1. ~IsUnknown(l)
      BY <1>3 DEF IsUnknown
    <3>2. ~Blank(l)
      BY <1>3 DEF TooLong, Blank, REPLUG_MAX_ARGS
    <3> QED BY <2>3, <3>1, <3>2 DEF Asked
  <2>5. Tracked'
    BY <1>1, <1>2, <2>2, <2>3, <2>4 DEF Tracked, Comparing, Agreeing, Reading, Found
  <2> QED BY <1>1, <1>2, <2>2, <2>5 DEF IInv, TypeOK
<1>4. CASE ~TooLong(l) /\ Blank(l)
  <2>1. cpu' = Verdict(NoReply, 0)
    BY <1>4 DEF ProcessLine
  <2>2. cpu' \in CpuTypes /\ cpu'.pc = "done" /\ cpu'.command = NoReply
    BY <2>1, VerdictFields, DefaultDelay, TypeNames
  <2>3. ~IsBadArg(l) /\ ~IsUnknown(l) /\ ~IsCycle(l)
    BY <1>4 DEF IsBadArg, IsUnknown, IsCycle, Named
  <2>4. Asked(l) = NoReply
    BY <1>4, <2>3 DEF Asked
  <2>5. Tracked'
    BY <1>1, <1>2, <2>2, <2>3, <2>4 DEF Tracked, Comparing, Agreeing, Reading, Found
  <2> QED BY <1>1, <1>2, <2>2, <2>5 DEF IInv, TypeOK
<1>5. CASE ~TooLong(l) /\ ~Blank(l)
  <2>1. cpu' = [Idle EXCEPT !.pc = "call"]
    BY <1>5 DEF ProcessLine
  <2>2. Idle \in CpuTypes /\ Idle.name = "on" /\ Idle.word = 1 /\ Idle.i = 1
    BY TypeNames DEF Idle, CpuTypes
  <2>3. /\ cpu' \in CpuTypes /\ cpu'.pc = "call" /\ cpu'.name = "on" /\ cpu'.word = 1
        /\ cpu'.i = 1
    <3> HIDE DEF Idle
    <3> QED BY <2>1, <2>2, TypeNames DEF CpuTypes
  <2>4. Names[1] = "on" /\ 1 \in 1 .. 7 /\ 1 .. 1 - 1 = {}
    BY DEF Names
  <2>5. Comparing'
    BY <1>1, <1>2, <1>5, <2>3, <2>4 DEF Comparing
  <2>6. Tracked'
    BY <2>3, <2>5 DEF Tracked, Agreeing, Reading, Found
  <2> QED BY <1>1, <1>2, <2>3, <2>6 DEF IInv, TypeOK
<1> QED BY <1>3, <1>4, <1>5

LEMMA CallInv ==
    ASSUME IInv, Call
    PROVE  IInv'
<1>1. /\ cpu.pc = "call" /\ line' = line /\ log' = log
      /\ cpu' = [cpu EXCEPT !.pc = "copy"] /\ ram' = [ram EXCEPT !.right = 1]
  BY DEF Call, At
<1>2. /\ cpu' \in CpuTypes /\ cpu'.pc = "copy" /\ cpu'.name = cpu.name /\ cpu'.word = cpu.word
      /\ cpu'.i = cpu.i /\ cpu'.command = cpu.command
  BY <1>1, TypeNames DEF IInv, TypeOK, CpuTypes
<1>3. ram' \in RamTypes /\ ram'.right = 1
  BY <1>1 DEF IInv, TypeOK, RamTypes
<1>4. TypeOK'
  BY <1>1, <1>2, <1>3 DEF IInv, TypeOK
<1>5. ASSUME Tracked PROVE Tracked'
  <2>1. Comparing'
    BY <1>1, <1>2, <1>5 DEF Tracked, Comparing, argc, Taken
  <2>2. Agreeing'
    BY <1>1, <1>2, <1>3, <1>5 DEF Tracked, Agreeing
  <2> QED BY <1>2, <2>1, <2>2 DEF Tracked, Reading, Found
<1> QED BY <1>1, <1>4, <1>5 DEF IInv

LEMMA CopyInv ==
    ASSUME IInv, Copy
    PROVE  IInv'
<1>1. /\ cpu.pc = "copy" /\ line' = line /\ Reads(ram.right = Stray)
      /\ cpu' = [cpu EXCEPT !.pc = "compare"] /\ ram' = [ram EXCEPT !.working = ram.right]
  BY DEF Copy, At
<1>2. /\ cpu' \in CpuTypes /\ cpu'.pc = "compare" /\ cpu'.name = cpu.name
      /\ cpu'.word = cpu.word /\ cpu'.i = cpu.i /\ cpu'.command = cpu.command
  BY <1>1, TypeNames DEF IInv, TypeOK, CpuTypes
<1>3. ram' \in RamTypes /\ ram'.right = ram.right /\ ram'.working = ram.right
  BY <1>1 DEF IInv, TypeOK, RamTypes
<1>4. /\ log' \in LogTypes /\ log'.delay = log.delay
      /\ ~log'.name <=> ~log.name /\ ram.right # Stray
  BY <1>1, LogFields DEF IInv, TypeOK
<1>5. TypeOK'
  BY <1>1, <1>2, <1>3, <1>4 DEF IInv, TypeOK
<1>6. ASSUME ~log'.name PROVE Tracked'
  <2>1. Tracked /\ ram.right # Stray
    BY <1>4, <1>6 DEF IInv
  <2>2. ram.right = 1 /\ cpu.i = 1
    BY <1>1, <2>1 DEF Tracked, Agreeing
  <2>3. Comparing'
    BY <1>1, <1>2, <1>4, <2>1 DEF Tracked, Comparing, argc, Taken
  <2>4. Len(Spelled(cpu.word)) \in Nat /\ Len(Spelling[cpu.name]) \in Nat
    <3>1. line.args[cpu.word].text \in DOMAIN Spelling /\ cpu.name \in DOMAIN Spelling
      BY <1>1, <2>1, InTheWord, NameSpelled DEF IInv, Tracked
    <3> QED BY <3>1, TextFacts DEF Spelled
  <2>5. Spelled(cpu.word)' = Spelled(cpu.word)
    BY <1>1, <1>2 DEF Spelled
  <2>6. Agreeing'
    BY <1>2, <1>3, <2>2, <2>4, <2>5 DEF Agreeing
  <2> QED BY <1>2, <2>3, <2>6 DEF Tracked, Reading, Found
<1> QED BY <1>5, <1>6 DEF IInv


LEMMA InterruptInv ==
    ASSUME IInv, Interrupt
    PROVE  IInv'
<1>1. /\ line' = line /\ cpu' = cpu /\ cpu.pc # "done"
      /\ log' = [log EXCEPT !.interrupts = @ + 1]
  BY DEF Interrupt, At
<1>2. log' \in LogTypes /\ log'.name = log.name /\ log'.delay = log.delay
  BY <1>1 DEF IInv, TypeOK, LogTypes
<1>3. ram' \in RamTypes /\ ram'.right = Stray /\ ram'.working \in {ram.working, Stray}
  <2>1. PICK count \in Counts : QueueNext(count) \/ Lookup(count)
    BY DEF Interrupt
  <2>2. count \in Nat
    BY OverlayAssumption
  <2>3. Stray \in Nat /\ Pointer \in Nat
    BY DEF Stray, Pointer
  <2>4. CASE QueueNext(count)
    BY <2>2, <2>3, <2>4 DEF QueueNext, RamTypes, IInv, TypeOK
  <2>5. CASE Lookup(count)
    BY <2>2, <2>3, <2>5 DEF Lookup, RamTypes
  <2> QED BY <2>1, <2>4, <2>5
<1>4. Left' = Left
  BY <1>1 DEF Left
<1>5. TypeOK'
  BY <1>1, <1>2, <1>3, <1>4 DEF IInv, TypeOK
<1>6. ASSUME Tracked PROVE Tracked'
  <2>1. Comparing'
    BY <1>1, <1>2, <1>6 DEF Tracked, Comparing, argc, Taken
  <2>2. Agreeing'
    BY <1>1, <1>3, <1>6 DEF Tracked, Agreeing, Spelled
  <2>3. Reading'
    BY <1>1, <1>2, <1>6 DEF Tracked, Reading, Spelled, argc
  <2> QED BY <1>1, <2>1, <2>2, <2>3 DEF Tracked, Found
<1> QED BY <1>2, <1>5, <1>6 DEF IInv

LEMMA UnchangedInv ==
    ASSUME IInv, UNCHANGED vars
    PROVE  IInv'
<1>1. /\ TypeOK' <=> TypeOK
      /\ log'.name = log.name
  BY DEF vars, TypeOK, Left
<1>2. Comparing' <=> Comparing
  BY DEF vars, Comparing, Taken, argc
<1>3. Agreeing' <=> Agreeing
  BY DEF vars, Agreeing, Spelled
<1>4. Reading' <=> Reading
  BY DEF vars, Reading, Spelled, argc
<1>5. Found' <=> Found
  BY DEF vars, Found
<1> QED BY <1>1, <1>2, <1>3, <1>4, <1>5 DEF IInv, Tracked

(* One turn of the loop: both strings agree up to cpu.i - 1, and the        *)
(* characters at cpu.i are alike, or the strings are not.                   *)
LEMMA CompareInv ==
    ASSUME IInv, Compare
    PROVE  IInv'
<1> DEFINE w == Spelled(cpu.word)
           v == Spelling[cpu.name]
<1>1. /\ cpu.pc = "compare" /\ line' = line /\ Reads(ram.working = Stray) /\ Left # NUL
      /\ TypeOK /\ cpu \in CpuTypes /\ ram \in RamTypes /\ log \in LogTypes
  BY DEF Compare, At, IInv, TypeOK
<1>2. /\ log' \in LogTypes /\ log'.delay = log.delay
      /\ ~log'.name <=> ~log.name /\ ram.working # Stray
  BY <1>1, LogFields
<1>3. PICK right \in Right(ram.working) :
         IF right = Left
         THEN LET next == IF ram.working = Stray THEN Stray ELSE ram.working + 1 IN
              /\ cpu' = [cpu EXCEPT !.i = @ + 1]
              /\ ram' = [ram EXCEPT !.working = next, !.right = next]
         ELSE Return(FALSE) /\ UNCHANGED ram
  BY DEF Compare
<1>4. ASSUME ~log'.name
      PROVE  /\ Tracked /\ Comparing /\ cpu.name \in DOMAIN Spelling
             /\ line.args[cpu.word].text \in DOMAIN Spelling
             /\ ram.working = cpu.i /\ cpu.i \in Nat /\ cpu.i \geq 1
             /\ Len(w) \in Nat /\ Len(v) \in Nat /\ cpu.i \leq Len(w) /\ Left = w[cpu.i]
             /\ cpu.i \leq Len(v) + 1 /\ right = CharAt(cpu.name, cpu.i)
             /\ cpu.i \leq Len(v) => right = v[cpu.i]
             /\ cpu.i > Len(v) => right = NUL
             /\ \A k \in 1 .. cpu.i - 1 : w[k] = v[k]
  <2>1. Tracked /\ Comparing /\ Agreeing /\ ram.working # Stray
    BY <1>2, <1>4 DEF IInv, Tracked
  <2>2. /\ ram.working = cpu.i /\ cpu.i \leq Len(w) + 1 /\ cpu.i \leq Len(v) + 1
        /\ \A k \in 1 .. cpu.i - 1 : w[k] = v[k]
    BY <1>1, <2>1 DEF Agreeing
  <2>3. cpu.name \in DOMAIN Spelling
    BY <1>1, <2>1, NameSpelled
  <2>4. line.args[cpu.word].text \in DOMAIN Spelling
    BY <1>1, <2>1, InTheWord
  <2> HIDE DEF v
  <2>5. /\ Len(w) \in Nat /\ cpu.i \in Nat /\ cpu.i \geq 1
        /\ cpu.i \leq Len(w) /\ Left = w[cpu.i]
    <3> HIDE DEF w
    <3>1. LET u == Spelled(cpu.word) IN
          /\ Len(u) \in Nat /\ cpu.i \in Nat /\ cpu.i \geq 1
          /\ Left # NUL => cpu.i \leq Len(u) /\ Left = u[cpu.i]
      BY <1>1, <2>2, <2>4, LeftFacts DEF w
    <3> QED BY <1>1, <3>1 DEF w
  <2>6. Len(v) \in Nat /\ (cpu.i \leq Len(v) => CharAt(cpu.name, cpu.i) = v[cpu.i])
                       /\ (~(cpu.i \leq Len(v)) => CharAt(cpu.name, cpu.i) = NUL)
    BY <2>3, <2>5, TextFacts DEF v
  <2>7. right = CharAt(cpu.name, cpu.i)
    BY <2>1, <2>2 DEF Right
  <2> HIDE DEF w
  <2> QED BY <2>1, <2>2, <2>3, <2>4, <2>5, <2>6, <2>7
<1>5. CASE right = Left
  <2> DEFINE next == IF ram.working = Stray THEN Stray ELSE ram.working + 1
  <2>1. cpu' = [cpu EXCEPT !.i = @ + 1] /\ ram' = [ram EXCEPT !.working = next, !.right = next]
    BY <1>3, <1>5
  <2>2. next \in Nat
    BY <1>1 DEF RamTypes, Stray
  <2>3. /\ cpu' \in CpuTypes /\ cpu'.i = cpu.i + 1 /\ cpu'.pc = "compare"
        /\ cpu'.name = cpu.name /\ cpu'.word = cpu.word /\ cpu'.command = cpu.command
    BY <1>1, <2>1 DEF CpuTypes, Positive
  <2>4. ram' \in RamTypes /\ ram'.working = next /\ ram'.right = next
    <3> HIDE DEF next
    <3> QED BY <1>1, <2>1, <2>2 DEF RamTypes
  <2>5. TypeOK'
    BY <1>1, <1>2, <2>3, <2>4 DEF TypeOK
  <2>6. ASSUME ~log'.name PROVE Tracked'
    <3>1. Comparing'
      BY <1>1, <1>2, <1>4, <2>3, <2>6 DEF Comparing, argc, Taken
    <3>2. Spelled(cpu.word)' = w
      BY <1>1, <2>3 DEF Spelled
    <3> HIDE DEF w, v
    <3>3. next = cpu.i + 1
      BY <1>2, <1>4, <2>6
    <3>4. cpu.i \leq Len(v) /\ v[cpu.i] = w[cpu.i]
      BY <1>1, <1>4, <1>5, <2>6
    <3>5. \A k \in 1 .. (cpu.i + 1) - 1 : w[k] = v[k]
      <4>1. \A k \in 1 .. (cpu.i + 1) - 1 : k = cpu.i \/ k \in 1 .. cpu.i - 1
        BY <1>4, <2>6
      <4> QED BY <1>4, <2>6, <3>4, <4>1
    <3>6. cpu.i + 1 \leq Len(w) + 1 /\ cpu.i + 1 \leq Len(v) + 1
      BY <1>4, <2>6, <3>4
    <3>7. Agreeing'
      <4> HIDE DEF next
      <4> QED BY <2>3, <2>4, <3>2, <3>3, <3>5, <3>6 DEF Agreeing, v
    <3> QED BY <2>3, <3>1, <3>7 DEF Tracked, Reading, Found
  <2> QED BY <2>5, <2>6 DEF IInv
<1>6. CASE right # Left
  <2>1. Return(FALSE) /\ ram' = ram
    BY <1>3, <1>6
  <2>2. cpu' \in CpuTypes /\ cpu'.pc \in {"done", "call", "digit"}
    BY <1>1, <2>1, ReturnTypes
  <2>3. TypeOK'
    BY <1>1, <1>2, <2>1, <2>2 DEF TypeOK
  <2>4. ASSUME ~log'.name PROVE Tracked'
    <3>1. line.args[cpu.word].text # cpu.name
      BY <1>4, <1>6, <2>4 DEF Left
    <3>2. Comparing
      BY <1>4, <2>4
    <3> QED BY <1>1, <1>2, <2>1, <3>1, <3>2, ReturnRight
  <2> QED BY <2>3, <2>4 DEF IInv
<1> QED BY <1>5, <1>6

(* The word has ended: it is the name if the name ends at the same place.   *)
LEMMA LeftEndsInv ==
    ASSUME IInv, LeftEnds
    PROVE  IInv'
<1> DEFINE w == Spelled(cpu.word)
           v == Spelling[cpu.name]
           text == line.args[cpu.word].text
<1>1. /\ cpu.pc = "compare" /\ line' = line /\ ram' = ram /\ Reads(ram.right = Stray)
      /\ Left = NUL /\ TypeOK /\ cpu \in CpuTypes /\ log \in LogTypes
  BY DEF LeftEnds, At, IInv, TypeOK
<1>2. /\ log' \in LogTypes /\ log'.delay = log.delay
      /\ ~log'.name <=> ~log.name /\ ram.right # Stray
  BY <1>1, LogFields
<1>3. PICK right \in Right(ram.right) : Return(right = NUL)
  BY DEF LeftEnds
<1>4. cpu' \in CpuTypes /\ cpu'.pc \in {"done", "call", "digit"}
  BY <1>1, <1>3, ReturnTypes
<1>5. TypeOK'
  BY <1>1, <1>2, <1>4 DEF TypeOK
<1>6. ASSUME ~log'.name PROVE Tracked'
  <2>1. Tracked /\ Comparing /\ Agreeing /\ ram.right # Stray
    BY <1>2, <1>6 DEF IInv, Tracked
  <2>2. /\ ram.right = cpu.i /\ cpu.i \leq Len(w) + 1 /\ cpu.i \leq Len(v) + 1
        /\ \A k \in 1 .. cpu.i - 1 : w[k] = v[k]
    BY <1>1, <2>1 DEF Agreeing
  <2>3. cpu.name \in DOMAIN Spelling
    BY <1>1, <2>1, NameSpelled
  <2>4. text \in DOMAIN Spelling
    BY <1>1, <2>1, InTheWord
  <2>5. Len(w) \in Nat /\ cpu.i \in Nat \ {0} /\ cpu.i = Len(w) + 1
    <3>1. LET u == Spelled(cpu.word) IN
          /\ Len(u) \in Nat /\ cpu.i \in Nat /\ cpu.i \geq 1
          /\ Left = NUL => cpu.i = Len(u) + 1
      BY <1>1, <2>2, <2>4, LeftFacts
    <3> HIDE DEF v
    <3> QED BY <1>1, <3>1
  <2>6. /\ Len(v) \in Nat
        /\ cpu.i \leq Len(v) => CharAt(cpu.name, cpu.i) # NUL
        /\ ~(cpu.i \leq Len(v)) => CharAt(cpu.name, cpu.i) = NUL
    BY <2>3, <2>5, TextFacts
  <2>7. right = CharAt(cpu.name, cpu.i)
    BY <2>1, <2>2 DEF Right
  <2>8. right = NUL => text = cpu.name
    <3>1. SUFFICES ASSUME right = NUL PROVE text = cpu.name
      OBVIOUS
    <3>2. Len(w) = Len(v) /\ \A k \in 1 .. Len(w) : w[k] = v[k]
      <4> HIDE DEF w, v
      <4> QED BY <2>2, <2>5, <2>6, <2>7, <3>1
    <3> QED BY <2>3, <2>4, <3>2, SpelledAlike DEF Spelled
  <2>9. text = cpu.name => right = NUL
    <3>1. text = cpu.name => w = v
      BY DEF Spelled
    <3> HIDE DEF w, v
    <3> QED BY <2>5, <2>6, <2>7, <3>1
  <2>10. (right = NUL) <=> line.args[cpu.word].text = cpu.name
    BY <2>8, <2>9
  <2> QED BY <1>1, <1>2, <1>3, <2>1, <2>10, ReturnRight
<1> QED BY <1>5, <1>6 DEF IInv

-----------------------------------------------------------------------------
(* The digits of the delay.  What parse_u16 has read so far, the word, and  *)
(* the number it will be taken for.                                        *)
LEMMA ReadingFacts ==
    ASSUME TypeOK, Reading, cpu.pc \in {"digit", "multiply", "multiply_high"}
    PROVE  LET w == Spelled(cpu.word)
               i == cpu.i
           IN  /\ w \in Seq(Int) /\ Len(w) \in Nat /\ i \in Nat /\ i \geq 1 /\ i \leq Len(w) + 1
               /\ Left = NUL => i = Len(w) + 1
               /\ Left # NUL => i \leq Len(w) /\ Left = w[i] /\ Left \in Int
               /\ line.args[cpu.word].number = parse_u16(w)
               /\ ~log.delay => cpu.parsed = Parsed(w)[i - 1]
<1> DEFINE w == Spelled(cpu.word)
<1>1. /\ line.args[cpu.word].text \in DOMAIN Spelling
      /\ line.args[cpu.word].number = parse_u16(w)
  BY InTheWord
<1>2. cpu.i \leq Len(w) + 1 /\ (~log.delay => cpu.parsed = Parsed(w)[cpu.i - 1])
  BY DEF Reading
<1>3. /\ w \in Seq(Int) /\ Len(w) \in Nat /\ cpu.i \in Nat /\ cpu.i \geq 1
      /\ Left = NUL => cpu.i = Len(w) + 1
      /\ Left # NUL => cpu.i \leq Len(w) /\ Left = w[cpu.i] /\ Left \in Int
  BY <1>1, <1>2, LeftFacts
<1> HIDE DEF w
<1> QED BY <1>1, <1>2, <1>3 DEF w

(* A word with a refusal in it is refused, and no delay in the bounds.      *)
LEMMA Refused ==
    ASSUME NEW w \in Seq(Int), NEW n \in Nat, n \leq Len(w), Parsed(w)[n] = NotANumber
    PROVE  ~InRange(parse_u16(w))
<1>1. Len(w) \in Nat
  OBVIOUS
<1>2. Parsed(w)[Len(w)] = NotANumber
  BY <1>1, RefusalLasts
<1>3. parse_u16(w) = NotANumber
  BY <1>2 DEF parse_u16
<1> QED BY <1>3, CycleAssumption DEF InRange, NotANumber

LEMMA ParseEndsInv ==
    ASSUME IInv, ParseEnds
    PROVE  IInv'
<1> DEFINE w == Spelled(cpu.word)
           number == line.args[cpu.word].number
           complete == Left = NUL /\ cpu.i > 1 /\ InRange(cpu.parsed)
<1>1. /\ cpu.pc = "digit" /\ ~IsDigit(Left) /\ line' = line /\ ram' = ram /\ log' = log
      /\ cpu' = IF complete THEN Verdict("cycle", cpu.parsed) ELSE Verdict(ERR_invalid_arg, 0)
      /\ TypeOK /\ cpu \in CpuTypes /\ log \in LogTypes
  BY DEF ParseEnds, At, IInv, TypeOK
<1>2. cpu.parsed \in Nat /\ log.delay \in BOOLEAN
  BY <1>1 DEF CpuTypes, LogTypes
<1>3. /\ cpu' \in CpuTypes /\ cpu'.pc = "done"
      /\ complete => cpu'.command = "cycle" /\ cpu'.delay = cpu.parsed
      /\ ~complete => cpu'.command = ERR_invalid_arg
  <2>1. /\ Verdict("cycle", cpu.parsed) \in CpuTypes
        /\ Verdict("cycle", cpu.parsed).pc = "done"
        /\ Verdict("cycle", cpu.parsed).command = "cycle"
        /\ Verdict("cycle", cpu.parsed).delay = cpu.parsed
    BY <1>2, VerdictFields, TypeNames
  <2>2. /\ Verdict(ERR_invalid_arg, 0) \in CpuTypes /\ Verdict(ERR_invalid_arg, 0).pc = "done"
        /\ Verdict(ERR_invalid_arg, 0).command = ERR_invalid_arg
    BY VerdictFields, DefaultDelay, TypeNames
  <2> HIDE DEF complete
  <2> QED BY <1>1, <2>1, <2>2
<1>4. TypeOK'
  BY <1>1, <1>3 DEF TypeOK
<1>5. ASSUME Tracked
      PROVE  Tracked'
  <2>1. Reading
    BY <1>5 DEF Tracked
  <2>2. /\ w \in Seq(Int) /\ Len(w) \in Nat /\ cpu.i \in Nat /\ cpu.i \geq 1
        /\ Left = NUL => cpu.i = Len(w) + 1
        /\ Left # NUL => cpu.i \leq Len(w) /\ Left = w[cpu.i] /\ Left \in Int
        /\ number = parse_u16(w) /\ (~log.delay => cpu.parsed = Parsed(w)[cpu.i - 1])
    BY <1>1, <2>1, ReadingFacts
  <2>3. ~log.delay /\ Left = NUL /\ cpu.i > 1 => cpu.parsed = number
    <3>1. Len(w) # 0 => w # <<>>
      OBVIOUS
    <3> HIDE DEF w
    <3>2. Left = NUL /\ cpu.i > 1 => w # <<>> /\ cpu.i - 1 = Len(w)
      BY <2>2, <3>1
    <3> QED BY <2>2, <3>2 DEF parse_u16
  <2>4. Left = NUL /\ ~(cpu.i > 1) => ~InRange(number)
    <3>1. Len(w) = 0 => w = <<>>
      BY <2>2, EmptySeq
    <3> HIDE DEF w
    <3>2. Left = NUL /\ ~(cpu.i > 1) => w = <<>>
      BY <2>2, <3>1
    <3>3. ~InRange(NotANumber)
      BY CycleAssumption DEF InRange, NotANumber
    <3> QED BY <2>2, <3>2, <3>3 DEF parse_u16
  <2>5. Left # NUL => ~InRange(number)
    <3> HIDE DEF w
    <3>1. SUFFICES ASSUME Left # NUL PROVE ~InRange(number)
      OBVIOUS
    <3>2. cpu.i \in 1 .. Len(w)
      BY <2>2, <3>1
    <3>3. Parsed(w)[cpu.i] = Parse(Parsed(w)[cpu.i - 1], w[cpu.i])
      BY <2>2, <3>2, ParsedChain
    <3>4. Parsed(w)[cpu.i] = NotANumber
      BY <1>1, <2>2, <3>1, <3>3 DEF Parse
    <3> QED BY <2>2, <3>1, <3>4, Refused
  <2> HIDE DEF w, number
  <2>6. complete => InRange(cpu'.delay) /\ (~log'.delay => cpu'.delay = number)
    BY <1>1, <1>3, <2>3
  <2>7. ~complete => (~log'.delay => ~InRange(number))
    BY <1>1, <2>3, <2>4, <2>5
  <2>8. log'.delay \in BOOLEAN
    BY <1>1, <1>2
  <2> HIDE DEF complete
  <2> QED BY <1>1, <1>3, <2>1, <2>6, <2>7, <2>8, DelayDone DEF number
<1> QED BY <1>1, <1>4, <1>5 DEF IInv

LEMMA StoreOperandInv ==
    ASSUME IInv, StoreOperand
    PROVE  IInv'
<1>1. /\ cpu.pc = "digit" /\ IsDigit(Left) /\ line' = line /\ log' = log
      /\ cpu' = [cpu EXCEPT !.pc = "multiply"]
      /\ ram' = [ram EXCEPT !.low = cpu.parsed % 256, !.high = cpu.parsed \div 256]
  BY DEF StoreOperand, At
<1>2. /\ cpu' \in CpuTypes /\ cpu'.pc = "multiply" /\ cpu'.word = cpu.word /\ cpu'.i = cpu.i
      /\ cpu'.parsed = cpu.parsed
  BY <1>1, TypeNames DEF IInv, TypeOK, CpuTypes
<1>3. ram' \in RamTypes
  <2>1. cpu.parsed \in Nat
    BY DEF IInv, TypeOK, CpuTypes
  <2>2. cpu.parsed % 256 \in Nat /\ cpu.parsed \div 256 \in Nat
    BY <2>1
  <2> QED BY <1>1, <2>2 DEF IInv, TypeOK, RamTypes
<1>4. Left' = Left
  BY <1>1, <1>2 DEF Left
<1>5. TypeOK'
  BY <1>1, <1>2, <1>3, <1>4 DEF IInv, TypeOK
<1>6. ASSUME Tracked PROVE Tracked'
  <2>1. Reading'
    BY <1>1, <1>2, <1>6 DEF Tracked, Reading, Spelled, argc
  <2> QED BY <1>2, <2>1 DEF Tracked, Comparing, Agreeing, Found
<1> QED BY <1>1, <1>5, <1>6 DEF IInv

LEMMA LoadLowInv ==
    ASSUME IInv, LoadLow
    PROVE  IInv'
<1>1. /\ cpu.pc = "multiply" /\ line' = line /\ ram' = ram
      /\ cpu' = [cpu EXCEPT !.pc = "multiply_high", !.low = ram.low]
      /\ Multiplies(ram.low # cpu.parsed % 256)
  BY DEF LoadLow, At
<1>2. /\ cpu' \in CpuTypes /\ cpu'.pc = "multiply_high" /\ cpu'.word = cpu.word
      /\ cpu'.i = cpu.i /\ cpu'.parsed = cpu.parsed /\ cpu'.low = ram.low
  <2>1. ram.low \in Nat
    BY DEF IInv, TypeOK, RamTypes
  <2> QED BY <1>1, <2>1, TypeNames DEF IInv, TypeOK, CpuTypes
<1>3. /\ log' \in LogTypes /\ log'.name = log.name
      /\ ~log'.delay <=> ~log.delay /\ ram.low = cpu.parsed % 256
  BY <1>1, LogFields DEF IInv, TypeOK
<1>4. Left' = Left
  BY <1>1, <1>2 DEF Left
<1>5. TypeOK'
  BY <1>1, <1>2, <1>3, <1>4 DEF IInv, TypeOK
<1>6. ASSUME Tracked PROVE Tracked'
  <2>1. Reading'
    BY <1>1, <1>2, <1>3, <1>6 DEF Tracked, Reading, Spelled, argc
  <2> QED BY <1>2, <2>1 DEF Tracked, Comparing, Agreeing, Found
<1> QED BY <1>3, <1>5, <1>6 DEF IInv

(* The bytes of the operand make the operand, so the product is the turn of *)
(* parse_u16's loop, unless one of them was overwritten.                    *)
LEMMA MultiplyInv ==
    ASSUME IInv, Multiply
    PROVE  IInv'
<1> DEFINE w == Spelled(cpu.word)
           number == line.args[cpu.word].number
           parsed == 10 * (cpu.low + 256 * ram.high) + DigitValue(Left)
<1>1. /\ cpu.pc = "multiply_high" /\ line' = line /\ ram' = ram
      /\ cpu' = IF parsed > 65535 THEN Verdict(ERR_invalid_arg, 0)
                ELSE [cpu EXCEPT !.pc = "digit", !.i = @ + 1, !.parsed = parsed]
      /\ Multiplies(ram.high # cpu.parsed \div 256)
      /\ TypeOK /\ cpu \in CpuTypes /\ IsDigit(Left)
  BY DEF Multiply, At, IInv, TypeOK
<1>2. /\ log' \in LogTypes /\ log'.name = log.name /\ log'.delay \in BOOLEAN
      /\ ~log'.delay <=> ~log.delay /\ ram.high = cpu.parsed \div 256
  <2>1. log \in LogTypes
    BY <1>1 DEF TypeOK
  <2> DEFINE overwritten == ram.high # cpu.parsed \div 256
  <2>2. overwritten \in BOOLEAN /\ Multiplies(overwritten)
    BY <1>1
  <2> HIDE DEF overwritten
  <2>3. /\ log' \in LogTypes /\ log'.name = log.name
        /\ ~log'.delay <=> ~log.delay /\ ~overwritten
    BY <2>1, <2>2, LogFields
  <2> QED BY <2>3 DEF LogTypes, overwritten
<1>3. parsed \in Nat /\ cpu.parsed \in Nat /\ Left # NUL /\ cpu.i \in Nat \ {0}
  <2>1. DigitValue(Left) \in Nat /\ Left # NUL
    BY <1>1 DEF IsDigit, DigitValue, NUL
  <2>2. cpu.low \in Nat /\ ram.high \in Nat /\ cpu.parsed \in Nat /\ cpu.i \in Nat \ {0}
    BY <1>1 DEF TypeOK, CpuTypes, RamTypes, Positive
  <2> QED BY <2>1, <2>2
<1>4. ASSUME Tracked
      PROVE  /\ Reading /\ w \in Seq(Int) /\ Len(w) \in Nat /\ cpu.i \in 1 .. Len(w)
             /\ number = parse_u16(w)
             /\ ~log'.delay =>
                  Parsed(w)[cpu.i] = IF parsed > 65535 THEN NotANumber ELSE parsed
  <2>1. Reading
    BY <1>4 DEF Tracked
  <2>2. /\ w \in Seq(Int) /\ Len(w) \in Nat /\ cpu.i \in Nat /\ cpu.i \geq 1
        /\ cpu.i \leq Len(w) /\ Left = w[cpu.i] /\ number = parse_u16(w)
        /\ ~log.delay => cpu.parsed = Parsed(w)[cpu.i - 1]
    BY <1>1, <1>3, <2>1, ReadingFacts
  <2>3. ~log'.delay => cpu.low = cpu.parsed % 256 /\ ram.high = cpu.parsed \div 256
    BY <1>1, <1>2, <2>1 DEF Reading
  <2>4. ~log'.delay => parsed = 10 * cpu.parsed + DigitValue(Left)
    <3>1. (cpu.parsed % 256) + 256 * (cpu.parsed \div 256) = cpu.parsed
      BY <1>3
    <3> QED BY <2>3, <3>1
  <2> HIDE DEF w, parsed
  <2>5. cpu.i \in 1 .. Len(w)
    BY <2>2
  <2>6. Parsed(w)[cpu.i] = Parse(Parsed(w)[cpu.i - 1], w[cpu.i])
    BY <2>2, <2>5, ParsedChain
  <2>7. ~log'.delay =>
            Parsed(w)[cpu.i] = IF parsed > 65535 THEN NotANumber ELSE parsed
    <3>1. SUFFICES ASSUME ~log'.delay
                   PROVE  Parsed(w)[cpu.i] = IF parsed > 65535 THEN NotANumber ELSE parsed
      OBVIOUS
    <3>2. Parsed(w)[cpu.i] = Parse(cpu.parsed, Left)
      BY <1>2, <2>2, <2>6, <3>1
    <3>3. cpu.parsed # NotANumber
      BY <1>3 DEF NotANumber
    <3> QED BY <1>1, <2>4, <3>1, <3>2, <3>3 DEF Parse, UINT16_MAX
  <2> QED BY <2>1, <2>2, <2>5, <2>7
<1> HIDE DEF w, number, parsed
<1>5. CASE parsed > 65535
  <2>1. cpu' = Verdict(ERR_invalid_arg, 0)
    BY <1>1, <1>5
  <2>2. cpu' \in CpuTypes /\ cpu'.pc = "done" /\ cpu'.command = ERR_invalid_arg
    BY <2>1, VerdictFields, DefaultDelay, TypeNames
  <2>3. TypeOK'
    BY <1>1, <1>2, <2>2 DEF TypeOK
  <2>4. ASSUME Tracked PROVE Tracked'
    <3>1. ~log'.delay => ~InRange(number)
      <4>1. SUFFICES ASSUME ~log'.delay PROVE ~InRange(number)
        OBVIOUS
      <4>2. /\ w \in Seq(Int) /\ cpu.i \in Nat /\ cpu.i \leq Len(w)
            /\ Parsed(w)[cpu.i] = NotANumber
        BY <1>4, <1>5, <2>4, <4>1
      <4>3. ~InRange(parse_u16(w))
        BY <4>2, Refused
      <4> QED BY <1>4, <2>4, <4>3
    <3>2. Reading
      BY <1>4, <2>4
    <3> QED BY <1>1, <1>2, <2>2, <3>1, <3>2, DelayDone DEF number
  <2> QED BY <1>2, <2>3, <2>4 DEF IInv
<1>6. CASE ~(parsed > 65535)
  <2>1. cpu' = [cpu EXCEPT !.pc = "digit", !.i = @ + 1, !.parsed = parsed]
    BY <1>1, <1>6
  <2>2. "digit" \in Positions /\ cpu.i + 1 \in Positive
    BY <1>3, TypeNames DEF Positive
  <2>3. /\ cpu' \in CpuTypes /\ cpu'.pc = "digit" /\ cpu'.word = cpu.word
        /\ cpu'.i = cpu.i + 1 /\ cpu'.parsed = parsed
    <3> DEFINE next == cpu.i + 1
    <3>1. cpu' = [cpu EXCEPT !.pc = "digit", !.i = next, !.parsed = parsed] /\ cpu \in CpuTypes
      BY <1>1, <2>1
    <3>2. next \in Positive /\ "digit" \in Positions /\ parsed \in Nat
      BY <1>3, <2>2
    <3> HIDE DEF next
    <3>3. /\ cpu' \in CpuTypes /\ cpu'.pc = "digit" /\ cpu'.word = cpu.word
          /\ cpu'.i = next /\ cpu'.parsed = parsed
      BY <3>1, <3>2 DEF CpuTypes
    <3> QED BY <3>3 DEF next
  <2>4. TypeOK'
    BY <1>1, <1>2, <2>3 DEF TypeOK
  <2>5. ASSUME Tracked PROVE Tracked'
    <3>1. Spelled(cpu.word)' = w
      BY <1>1, <2>3 DEF Spelled, w
    <3>2. /\ cpu.i \in 1 .. Len(w) /\ Len(w) \in Nat
          /\ ~log'.delay => Parsed(w)[cpu.i] = parsed
      BY <1>4, <1>6, <2>5
    <3>3. cpu.i + 1 \leq Len(w) + 1 /\ (cpu.i + 1) - 1 = cpu.i
      BY <3>2
    <3>4. Reading'
      BY <1>1, <1>4, <2>3, <2>5, <3>1, <3>2, <3>3 DEF Reading, argc
    <3> QED BY <2>3, <3>4 DEF Tracked, Comparing, Agreeing, Found
  <2> QED BY <1>2, <2>4, <2>5 DEF IInv
<1> QED BY <1>5, <1>6

-----------------------------------------------------------------------------
LEMMA Inductive == IInv /\ [Next]_vars => IInv'
<1> SUFFICES ASSUME IInv, [Next]_vars
             PROVE  IInv'
  OBVIOUS
<1>1. ASSUME NEW l \in Lines, ProcessLine(l) PROVE IInv'
  BY <1>1, ProcessLineInv
<1>2. CASE Call
  BY <1>2, CallInv
<1>3. CASE Copy
  BY <1>3, CopyInv
<1>4. CASE Compare
  BY <1>4, CompareInv
<1>5. CASE LeftEnds
  BY <1>5, LeftEndsInv
<1>6. CASE ParseEnds
  BY <1>6, ParseEndsInv
<1>7. CASE StoreOperand
  BY <1>7, StoreOperandInv
<1>8. CASE LoadLow
  BY <1>8, LoadLowInv
<1>9. CASE Multiply
  BY <1>9, MultiplyInv
<1>10. CASE Interrupt
  BY <1>10, InterruptInv
<1>11. CASE UNCHANGED vars
  BY <1>11, UnchangedInv
<1> QED BY <1>1, <1>2, <1>3, <1>4, <1>5, <1>6, <1>7, <1>8, <1>9, <1>10, <1>11 DEF Next

LEMMA Invariance == Spec => []IInv
BY InitInv, Inductive, PTL DEF Spec

(* process_line finds the command the line names, and the off time of a     *)
(* cycle, whatever the words are and however often the USB interrupt runs,   *)
(* unless it runs between the storing and the use of a shared cell.         *)
THEOREM CommandFound == Spec => []FoundAsAsked
<1>1. IInv => FoundAsAsked
  BY DEF IInv, Tracked, Found, FoundAsAsked, At
<1> QED BY <1>1, Invariance, PTL

(* A line that asks for a cycle has a delay in the bounds.                 *)
LEMMA AskedCycle ==
    ASSUME line \in Lines \cup {NoLine}, Asked(line) = "cycle"
    PROVE  IsCycle(line) /\ InRange(cycle_ms(line))
<1>1. ~IsBadArg(line) /\ ~IsUnknown(line) /\ ~Blank(line) /\ line.args[1].text = "cycle"
  BY AskedFacts DEF ERR_invalid_arg, ERR_invalid_command, NoReply
<1>2. Named(line, "cycle")
  BY <1>1 DEF IsBadArg, Named
<1>3. CycleArgsOk(line)
  BY <1>1, <1>2 DEF IsBadArg
<1> QED BY <1>2, <1>3 DEF IsCycle, CycleArgsOk, InRange

(* An interrupt in the multiplication of parse_u16 changes no command into  *)
(* another, and every cycle that is carried out, whether it was hit or not, *)
(* has an off time within REPLUG_MIN_CYCLE_MS and REPLUG_MAX_CYCLE_MS.      *)
THEOREM DelayAtWorst == Spec => []OnlyDelayWrong
<1>1. ASSUME IInv, cpu.pc = "done", line # NoLine, ~log.name
      PROVE  /\ \/ cpu.command = Asked(line)
                \/ Named(line, "cycle") /\ cpu.command \in {"cycle", ERR_invalid_arg}
             /\ cpu.command = "cycle" => InRange(cpu.delay)
  <2>1. Found /\ line \in Lines \cup {NoLine}
    BY <1>1 DEF IInv, Tracked, TypeOK
  <2>2. CASE log.delay
    <3>1. /\ Named(line, "cycle")
          /\ cpu.command = ERR_invalid_arg \/ (cpu.command = "cycle" /\ InRange(cpu.delay))
      BY <1>1, <2>1, <2>2 DEF Found
    <3> QED BY <3>1 DEF ERR_invalid_arg
  <2>3. CASE ~log.delay
    <3>1. cpu.command = Asked(line) /\ (IsCycle(line) => cpu.delay = cycle_ms(line))
      BY <1>1, <2>1, <2>3 DEF Found
    <3>2. cpu.command = "cycle" => IsCycle(line) /\ InRange(cycle_ms(line))
      BY <2>1, <3>1, AskedCycle
    <3> QED BY <3>1, <3>2
  <2> QED BY <2>2, <2>3
<1>2. IInv => OnlyDelayWrong
  BY <1>1 DEF OnlyDelayWrong, At
<1> QED BY <1>2, Invariance, PTL
=============================================================================
