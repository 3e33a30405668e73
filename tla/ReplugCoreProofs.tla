-------------------------- MODULE ReplugCoreProofs --------------------------
(***************************************************************************)
(* Proofs about ReplugCore, for every set of lines and all times.           *)
(*                                                                          *)
(* The inductive invariant has four parts: where the switches are at each   *)
(* place of the program, how far each wait has come, how much off time a    *)
(* cycle has behind it, and how long a fault can have been on.              *)
(***************************************************************************)
EXTENDS ReplugCore, TLAPS

LongestWaits == {REPLUG_ON_SETTLE_MS, REPLUG_POWER_SETTLE_MS, SEND_MS}

AllOff == ~target_is_on /\ ~data /\ ~power
Agree == target_is_on = data /\ data = power

(* Where the switches are.                                                 *)
Switches ==
    /\ pc \in {"main", "poll", "process_line", "send", "sending", "target_on",
               "on_data"} => Agree
    /\ pc \in {"delay_cycle", "slice"} => AllOff
    /\ pc = "off_data" => (target_is_on => power) /\ (power => data)
    /\ pc = "off_power" => (target_is_on => power) /\ ~data
    /\ pc \in {"on_settle", "on_power"} => data /\ target_is_on = power
    /\ pc = "power_settle" => data /\ power
    /\ pc \in {"off_data", "off_power"} => ret # "main"

(* How far a wait has come.                                                *)
Waits ==
    /\ pc \notin {"on_settle", "power_settle", "slice", "sending"} => wait = 0
    /\ pc = "on_settle" => dataFor + wait \geq REPLUG_ON_SETTLE_MS
    /\ pc = "on_power" => dataFor \geq REPLUG_ON_SETTLE_MS

(* The off time a cycle has behind it.                                     *)
OffTime ==
    /\ pc \in {"off_data", "off_power"} /\ ret = "delay_cycle"
         => IsCycle(line) /\ remaining = cycle_ms(line)
    /\ pc = "delay_cycle"
         => IsCycle(line) /\ offFor + remaining \geq cycle_ms(line)
    /\ pc = "slice"
         => IsCycle(line)
              /\ offFor + remaining + wait \geq cycle_ms(line) + Slice(remaining)
    /\ pc \in {"target_on", "on_data"} /\ IsCycle(line)
         => ~power /\ offFor \geq cycle_ms(line)
    /\ pc \in {"on_settle", "on_power"} /\ IsCycle(line)
         => ~power /\ offFor + wait \geq cycle_ms(line) + REPLUG_ON_SETTLE_MS

(* How long a fault can have been on.                                      *)
FaultTime ==
    /\ ~(power /\ fault) => faultyFor = 0
    /\ pc \in {"process_line", "target_on", "on_data", "on_power", "send",
               "delay_cycle", "slice"} => faultyFor = 0
    /\ pc \in {"main", "poll"} => faultyFor \leq SEND_MS
    /\ pc = "on_settle" => faultyFor + wait \leq REPLUG_ON_SETTLE_MS
    /\ pc = "power_settle" => faultyFor + wait \leq REPLUG_POWER_SETTLE_MS
    /\ pc = "sending" => faultyFor + wait \leq SEND_MS
    /\ pc \in {"off_data", "off_power"} => FaultReaction

IInv == Typed /\ Switches /\ Waits /\ OffTime /\ FaultTime

-----------------------------------------------------------------------------
(* What the invariants need of the command set.                            *)
LEMMA Booleans == \A x : x = TRUE \/ x = FALSE => x \in BOOLEAN
  OBVIOUS

LEMMA CycleDelay ==
    ASSUME NEW l, IsCycle(l)
    PROVE  cycle_ms(l) \in REPLUG_MIN_CYCLE_MS .. REPLUG_MAX_CYCLE_MS
  BY DEF IsCycle, CycleArgsOk

LEMMA OneCommand ==
    ASSUME NEW l, IsCycle(l)
    PROVE  ~IsOn(l) /\ ~IsOff(l) /\ ~Blank(l)
  BY DEF IsCycle, IsOn, IsOff, Named

LEMMA NoLineIsBlank == Blank(NoLine)
  BY DEF Blank, NoLine

LEMMA SliceIsPart ==
    ASSUME NEW n \in Nat
    PROVE  Slice(n) \in 0 .. n
  BY DelayAssumption DEF Slice

LEMMA ClockMaxBounds ==
    /\ ClockMax \in Nat
    /\ ClockMax \geq REPLUG_MAX_CYCLE_MS + REPLUG_ON_SETTLE_MS
  BY CycleAssumption, DelayAssumption DEF ClockMax

LEMMA CountUp ==
    ASSUME NEW clock \in Nat, NEW runs \in BOOLEAN
    PROVE  /\ Count(clock, runs) \in Nat
           /\ Count(clock, runs) \leq clock + 1
           /\ runs /\ clock < ClockMax => Count(clock, runs) = clock + 1
           /\ runs /\ clock \geq ClockMax => Count(clock, runs) = clock
           /\ ~runs => Count(clock, runs) = 0
  BY ClockMaxBounds DEF Count

-----------------------------------------------------------------------------
(* Type correctness.                                                       *)
LEMMA InitType == Init => Typed
  BY CycleAssumption, Booleans DEF Init, Typed

LEMMA StepType == Typed /\ [Next]_vars => Typed'
  <1> SUFFICES ASSUME Typed, [Next]_vars
               PROVE  Typed'
    OBVIOUS
  <1> USE DEF Typed, Goto, Answer, CallTargetOff, GiveUp
  <1>1. CASE MainLoop \/ FeedByte
    BY <1>1 DEF MainLoop, FeedByte, pins, clocks
  <1>2. CASE PollFault
    BY <1>2 DEF PollFault, pins, clocks
  <1>3. CASE HandleOn \/ HandleOff \/ NothingToAnswer
    BY <1>3 DEF HandleOn, HandleOff, NothingToAnswer, Replies, pins, clocks
  <1>4. CASE HandleCycle
    BY <1>4, CycleDelay, CycleAssumption DEF HandleCycle, pins, clocks
  <1>5. CASE AnswerAtOnce
    BY <1>5 DEF AnswerAtOnce, Replies, pins, clocks
  <1>6. CASE TargetOff
    BY <1>6, Booleans DEF TargetOff, TargetOffData, TargetOffPower
  <1>7. CASE TargetOnCheck \/ TargetOnCheckData \/ TargetOnCheckPower
    BY <1>7, Booleans DEF TargetOnCheck, TargetOnCheckData, TargetOnCheckPower, Replies,
                pins, clocks
  <1>8. CASE TargetOnData \/ TargetOnPower
    BY <1>8, Booleans, DelayAssumption DEF TargetOnData, TargetOnPower, pins, clocks
  <1>9. CASE DelayCycleLoop
    BY <1>9, SliceIsPart, CycleAssumption DEF DelayCycleLoop, pins, clocks
  <1>10. CASE DelayCycleCheck
    BY <1>10, SliceIsPart, CycleAssumption DEF DelayCycleCheck, Replies, pins, clocks
  <1>11. CASE Send \/ PollDone
    BY <1>11, DelayAssumption DEF Send, PollDone, pins, clocks
  <1>12. CASE Tick
    BY <1>12, Booleans, CountUp DEF Tick, pins
  <1>13. CASE FaultChanges \/ Restart
    BY <1>13, Booleans, CycleAssumption DEF FaultChanges, Restart, control
  <1>14. CASE UNCHANGED vars
    BY <1>14 DEF vars, control, pins, clocks
  <1> QED
    BY <1>1, <1>2, <1>3, <1>4, <1>5, <1>6, <1>7, <1>8, <1>9, <1>10, <1>11,
       <1>12, <1>13, <1>14 DEF Next, Run, Handlers, TargetOn, DelayCycle

(* The line is one of the host's or none; only FeedByte brings one.        *)
LEMMA StepLine ==
    line \in Lines \cup {NoLine} /\ [Next]_vars => line' \in Lines \cup {NoLine}
  BY DEF Next, vars, Run, MainLoop, FeedByte, PollFault, Handlers, HandleOn,
         HandleOff, HandleCycle, AnswerAtOnce, NothingToAnswer, TargetOff,
         TargetOffData, TargetOffPower, TargetOn, TargetOnCheck, TargetOnData,
         TargetOnCheckData, TargetOnPower, TargetOnCheckPower, DelayCycle,
         DelayCycleLoop, DelayCycleCheck, Send, PollDone, Tick, FaultChanges, Restart,
         control

(* Every variable keeps its type: the places of the program are the listed *)
(* ones, and delay_cycle's counter never wraps below zero.                 *)
THEOREM TypeCorrect == Spec => []TypeOK
  <1> DEFINE LineType == line \in Lines \cup {NoLine}
  <1>1. Init => LineType
    BY DEF Init
  <1>2. LineType /\ [Next]_vars => LineType'
    BY StepLine
  <1>3. Typed /\ LineType => TypeOK
    BY DEF TypeOK
  <1> HIDE DEF LineType
  <1> QED
    BY InitType, StepType, <1>1, <1>2, <1>3, PTL DEF Spec

-----------------------------------------------------------------------------
(* Where the switches are.                                                 *)
LEMMA StepSwitches == Typed /\ Switches /\ [Next]_vars => Switches'
  <1> SUFFICES ASSUME Typed, Switches, [Next]_vars
               PROVE  Switches'
    OBVIOUS
  <1> USE DEF Switches, Agree, AllOff, Typed, Goto, Answer, CallTargetOff, GiveUp
  <1>1. CASE MainLoop \/ FeedByte
    BY <1>1 DEF MainLoop, FeedByte, pins
  <1>2. CASE PollFault
    BY <1>2 DEF PollFault, pins
  <1>3. CASE HandleOn \/ NothingToAnswer
    BY <1>3 DEF HandleOn, NothingToAnswer, pins
  <1>4. CASE HandleOff \/ HandleCycle
    BY <1>4 DEF HandleOff, HandleCycle, pins
  <1>5. CASE AnswerAtOnce
    BY <1>5 DEF AnswerAtOnce, pins
  <1>6. CASE TargetOff
    BY <1>6, Booleans DEF TargetOff, TargetOffData, TargetOffPower
  <1>7. CASE TargetOnCheck
    BY <1>7 DEF TargetOnCheck, pins
  <1>8. CASE TargetOnCheckData
    BY <1>8, Booleans DEF TargetOnCheckData, pins
  <1>9. CASE TargetOnCheckPower
    BY <1>9 DEF TargetOnCheckPower, pins
  <1>10. CASE TargetOnData \/ TargetOnPower
    BY <1>10 DEF TargetOnData, TargetOnPower
  <1>11. CASE DelayCycle
    BY <1>11 DEF DelayCycle, DelayCycleLoop, DelayCycleCheck, pins
  <1>12. CASE Send \/ PollDone
    BY <1>12 DEF Send, PollDone, pins
  <1>13. CASE Tick
    BY <1>13 DEF Tick, pins
  <1>14. CASE FaultChanges \/ Restart
    BY <1>14, Booleans DEF FaultChanges, Restart, control
  <1>15. CASE UNCHANGED vars
    BY <1>15 DEF vars, control, pins
  <1> QED
    BY <1>1, <1>2, <1>3, <1>4, <1>5, <1>6, <1>7, <1>8, <1>9, <1>10, <1>11,
       <1>12, <1>13, <1>14, <1>15 DEF Next, Run, Handlers, TargetOn

-----------------------------------------------------------------------------
(* How far a wait has come.  Only the steps that set `wait` or leave a     *)
(* waiting place, and the tick, can disturb it.                            *)
LEMMA StepWaits == Typed /\ Switches /\ Waits /\ [Next]_vars => Waits'
  <1> SUFFICES ASSUME Typed, Switches, Waits, [Next]_vars
               PROVE  Waits'
    OBVIOUS
  <1> USE DelayAssumption
          DEF Waits, Typed, Goto, Answer, CallTargetOff, GiveUp
  <1>1. CASE MainLoop \/ FeedByte \/ PollFault \/ NothingToAnswer
    BY <1>1 DEF MainLoop, FeedByte, PollFault, NothingToAnswer, clocks
  <1>2. CASE HandleOn \/ HandleOff \/ HandleCycle \/ AnswerAtOnce
    BY <1>2 DEF HandleOn, HandleOff, HandleCycle, AnswerAtOnce, clocks
  <1>3. CASE TargetOff
    BY <1>3 DEF TargetOff, TargetOffData, TargetOffPower, Switches
  <1>4. CASE TargetOnCheck \/ TargetOnCheckData \/ TargetOnCheckPower
    BY <1>4 DEF TargetOnCheck, TargetOnCheckData, TargetOnCheckPower, clocks
  <1>5. CASE TargetOnData \/ TargetOnPower
    BY <1>5 DEF TargetOnData, TargetOnPower, clocks
  <1>6. CASE DelayCycle
    BY <1>6 DEF DelayCycle, DelayCycleLoop, DelayCycleCheck, clocks
  <1>7. CASE Send \/ PollDone
    BY <1>7 DEF Send, PollDone, clocks
  <1>8. CASE Tick
    <2>1. pc = "on_settle" => data
      BY DEF Switches
    <2>2. pc = "on_settle" => \/ dataFor' = dataFor + 1
                              \/ dataFor' = dataFor /\ dataFor \geq ClockMax
      BY <1>8, <2>1, ClockMaxBounds DEF Tick, Count
    <2>3. pc = "on_settle" => dataFor' + wait' \geq REPLUG_ON_SETTLE_MS
      BY <1>8, <2>2, ClockMaxBounds, CycleAssumption DEF Tick
    <2>4. pc' = pc /\ pc # "on_power"
      BY <1>8 DEF Tick
    <2> QED
      BY <1>8, <2>3, <2>4 DEF Tick
  <1>9. CASE FaultChanges \/ Restart
    BY <1>9 DEF FaultChanges, Restart, control
  <1>10. CASE UNCHANGED vars
    BY <1>10 DEF vars, control, clocks
  <1> QED
    BY <1>1, <1>2, <1>3, <1>4, <1>5, <1>6, <1>7, <1>8, <1>9, <1>10
       DEF Next, Run, Handlers, TargetOn

-----------------------------------------------------------------------------
(* The off time a cycle has behind it: delay_cycle's slices add up, and    *)
(* power stays off from target_off to target_on.                           *)
LEMMA StepOffTime ==
    Typed /\ Switches /\ Waits /\ OffTime /\ [Next]_vars => OffTime'
  <1> SUFFICES ASSUME Typed, Switches, Waits, OffTime, [Next]_vars
               PROVE  OffTime'
    OBVIOUS
  <1> USE DelayAssumption, CycleAssumption
          DEF OffTime, Typed, Goto, Answer, CallTargetOff, GiveUp
  <1> DEFINE ms == cycle_ms(line)
  <1>0. IsCycle(line) => ms \in 1 .. REPLUG_MAX_CYCLE_MS /\ ~IsOn(line) /\ ~IsOff(line)
    BY CycleDelay, OneCommand
  <1>1. CASE MainLoop \/ FeedByte \/ PollFault \/ NothingToAnswer \/ AnswerAtOnce
    BY <1>1 DEF MainLoop, FeedByte, PollFault, NothingToAnswer, AnswerAtOnce
  <1>2. CASE HandleOn \/ HandleOff
    BY <1>0, <1>2 DEF HandleOn, HandleOff
  <1>3. CASE HandleCycle
    BY <1>3 DEF HandleCycle
  <1>4. CASE TargetOff
    BY <1>0, <1>4 DEF TargetOff, TargetOffData, TargetOffPower, Switches
  <1>5. CASE TargetOnCheck \/ TargetOnCheckData \/ TargetOnCheckPower
    BY <1>5 DEF TargetOnCheck, TargetOnCheckData, TargetOnCheckPower, pins, clocks
  <1>6. CASE TargetOnData \/ TargetOnPower
    BY <1>6, <1>0 DEF TargetOnData, TargetOnPower, clocks
  <1>7. CASE DelayCycleLoop
    BY <1>7, <1>0, SliceIsPart
       DEF DelayCycleLoop, Switches, AllOff, Waits, pins, clocks
  <1>8. CASE DelayCycleCheck
    BY <1>8, <1>0, SliceIsPart DEF DelayCycleCheck, pins, clocks
  <1>9. CASE Send \/ PollDone
    BY <1>9 DEF Send, PollDone
  <1>10. CASE Tick
    <2>1. CASE pc = "slice"
      <3>1. ~power /\ Slice(remaining) \in 0 .. remaining
        BY <2>1, SliceIsPart DEF Switches, AllOff
      <3>2. \/ offFor' = offFor + 1
            \/ offFor' = offFor /\ offFor \geq ClockMax
        BY <1>10, <3>1, ClockMaxBounds DEF Tick, Count
      <3>3. offFor' + remaining + wait' \geq ms + Slice(remaining)
        BY <1>10, <1>0, <2>1, <3>1, <3>2, ClockMaxBounds DEF Tick
      <3> QED
        BY <1>10, <2>1, <3>3 DEF Tick
    <2>2. CASE pc = "on_settle" /\ IsCycle(line)
      <3>1. \/ offFor' = offFor + 1
            \/ offFor' = offFor /\ offFor \geq ClockMax
        BY <1>10, <2>2, ClockMaxBounds DEF Tick, Count
      <3>2. offFor' + wait' \geq ms + REPLUG_ON_SETTLE_MS
        BY <1>10, <1>0, <2>2, <3>1, ClockMaxBounds DEF Tick
      <3> QED
        BY <1>10, <2>2, <3>2 DEF Tick, pins
    <2>3. CASE pc # "slice" /\ ~(pc = "on_settle" /\ IsCycle(line))
      BY <1>10, <2>3 DEF Tick, Waits
    <2> QED
      BY <2>1, <2>2, <2>3
  <1>11. CASE FaultChanges \/ Restart
    BY <1>11 DEF FaultChanges, Restart, control
  <1>12. CASE UNCHANGED vars
    BY <1>12 DEF vars, control, pins, clocks
  <1> QED
    BY <1>1, <1>2, <1>3, <1>4, <1>5, <1>6, <1>7, <1>8, <1>9, <1>10, <1>11, <1>12
       DEF Next, Run, Handlers, TargetOn, DelayCycle

-----------------------------------------------------------------------------
(* How long a fault can have been on: every waiting place is left by a     *)
(* sample of the fault, and every place after a sample knows its outcome.  *)
LEMMA StepFaultTime ==
    Typed /\ Switches /\ Waits /\ FaultTime /\ [Next]_vars => FaultTime'
  <1> SUFFICES ASSUME Typed, Switches, Waits, FaultTime, [Next]_vars
               PROVE  FaultTime'
    OBVIOUS
  <1> USE DelayAssumption
          DEF FaultTime, Typed, Goto, Answer, CallTargetOff, GiveUp
  <1>1. CASE MainLoop \/ FeedByte \/ NothingToAnswer
    BY <1>1 DEF MainLoop, FeedByte, NothingToAnswer, pins, clocks
  <1>2. CASE PollFault
    BY <1>2 DEF PollFault, FaultReaction, Switches, Agree, pins, clocks
  <1>3. CASE HandleOn \/ HandleOff \/ HandleCycle \/ AnswerAtOnce
    BY <1>3 DEF HandleOn, HandleOff, HandleCycle, AnswerAtOnce, FaultReaction,
                pins, clocks
  <1>4. CASE TargetOffData
    BY <1>4 DEF TargetOffData, FaultReaction
  <1>5. CASE TargetOffPower
    BY <1>5 DEF TargetOffPower
  <1>6. CASE TargetOnCheck
    BY <1>6 DEF TargetOnCheck, pins, clocks
  <1>7. CASE TargetOnData \/ TargetOnPower
    BY <1>7 DEF TargetOnData, TargetOnPower, clocks
  <1>8. CASE TargetOnCheckData \/ TargetOnCheckPower
    BY <1>8 DEF TargetOnCheckData, TargetOnCheckPower, FaultReaction, pins, clocks
  <1>9. CASE DelayCycle
    BY <1>9 DEF DelayCycle, DelayCycleLoop, DelayCycleCheck, Switches, AllOff,
                pins, clocks
  <1>10. CASE Send \/ PollDone
    BY <1>10 DEF Send, PollDone, pins, clocks
  <1>11. CASE Tick
    <2>1. /\ faultyFor' \in Nat /\ faultyFor' \leq faultyFor + 1
          /\ ~(power /\ fault) => faultyFor' = 0
      BY <1>11, ClockMaxBounds DEF Tick, Count
    <2>2. pc = "slice" => faultyFor' = 0
      BY <2>1 DEF Switches, AllOff
    <2> QED
      BY <1>11, <2>1, <2>2 DEF Tick, Waits, pins
  <1>12. CASE FaultChanges
    BY <1>12 DEF FaultChanges, FaultReaction, control
  <1>13. CASE Restart
    BY <1>13 DEF Restart
  <1>14. CASE UNCHANGED vars
    BY <1>14 DEF vars, control, pins, clocks, FaultReaction
  <1> QED
    BY <1>1, <1>2, <1>3, <1>4, <1>5, <1>6, <1>7, <1>8, <1>9, <1>10, <1>11,
       <1>12, <1>13, <1>14 DEF Next, Run, Handlers, TargetOff, TargetOn

-----------------------------------------------------------------------------
LEMMA InitInv == Init => IInv
  <1> SUFFICES ASSUME Init
               PROVE  IInv
    OBVIOUS
  <1>1. Switches
    BY DEF Init, Switches, Agree
  <1>2. Waits /\ OffTime
    BY DEF Init, Waits, OffTime
  <1>3. FaultTime
    BY DelayAssumption DEF Init, FaultTime
  <1> QED
    BY InitType, <1>1, <1>2, <1>3 DEF IInv

LEMMA StepInv == IInv /\ [Next]_vars => IInv'
  BY StepType, StepSwitches, StepWaits, StepOffTime, StepFaultTime DEF IInv

THEOREM Invariance == Spec => []IInv
  BY InitInv, StepInv, PTL DEF Spec

(* Whenever the core is between commands or answers one, its flag and both *)
(* outputs agree: no sequence of faults leaves the DUT half connected.     *)
THEOREM OutputsAlwaysAgree == Spec => []OutputsAgree
  <1>1. IInv => OutputsAgree
    BY DEF IInv, Switches, Agree, OutputsAgree
  <1> QED
    BY <1>1, Invariance, PTL

(* The DUT is never powered without its data lines, but for the moment     *)
(* between the two writes of target_off.                                   *)
THEOREM PowerAlwaysHasData == Spec => []PowerImpliesData
  <1>1. IInv => PowerImpliesData
    BY DEF IInv, Typed, Switches, Agree, AllOff, PowerImpliesData
  <1> QED
    BY <1>1, Invariance, PTL

(* A powered DUT under an active fault is cut off within the longest of    *)
(* the two settle times and the time an answer takes.                      *)
THEOREM FaultIsCutOff == Spec => []FaultReaction
  <1>1. IInv => FaultReaction
    BY DelayAssumption DEF IInv, Typed, FaultTime, FaultReaction
  <1> QED
    BY <1>1, Invariance, PTL

(* Only TargetOnPower switches power on.                                   *)
LEMMA PowerOnStep == Typed /\ [Next]_vars /\ ~power /\ power' => TargetOnPower
  BY DEF Typed, Next, vars, Run, MainLoop, FeedByte, PollFault, Handlers, HandleOn,
         HandleOff, HandleCycle, AnswerAtOnce, NothingToAnswer, TargetOff,
         TargetOffData, TargetOffPower, TargetOn, TargetOnCheck, TargetOnData,
         TargetOnCheckData, TargetOnCheckPower, DelayCycle, DelayCycleLoop,
         DelayCycleCheck, Send, PollDone, Tick, FaultChanges, Restart, pins

(* VBUS comes on only after the data lines were connected for the whole    *)
(* settle time.                                                            *)
THEOREM PowerOnlyAfterData == Spec => PowerAfterData
  <1>1. IInv /\ [Next]_vars
          => [~power /\ power' => data /\ dataFor \geq REPLUG_ON_SETTLE_MS]_vars
    BY PowerOnStep DEF IInv, Switches, Waits, TargetOnPower, Goto
  <1> QED
    BY <1>1, Invariance, PTL DEF Spec, PowerAfterData

(* A cycle interrupts VBUS for at least the time it was asked for and the  *)
(* settle time of the data lines.                                          *)
THEOREM CycleKeepsOffTime == Spec => CycleOffTime
  <1>1. IInv /\ [Next]_vars
          => [~power /\ power' /\ IsCycle(line)
                => offFor \geq cycle_ms(line) + REPLUG_ON_SETTLE_MS]_vars
    BY PowerOnStep DEF IInv, Typed, Waits, OffTime, TargetOnPower, Goto
  <1> QED
    BY <1>1, Invariance, PTL DEF Spec, CycleOffTime

-----------------------------------------------------------------------------
(***************************************************************************)
(* ReplugCore implements DutSwitch: every step of the program is a step of  *)
(* the abstract switch, or none.  What the answers promise rests on one     *)
(* more invariant: at each place of the program, the command being carried  *)
(* out and the answer chosen fit together.                                  *)
(***************************************************************************)
Powering == IsOn(line) \/ IsCycle(line)

Commands ==
    /\ pc = "main" => line = NoLine
    /\ pc \in {"target_on", "on_data", "on_settle", "on_power", "power_settle"}
         => Powering
    /\ pc \in {"off_data", "off_power"} /\ ret = "send"
         => \/ reply = OK /\ IsOff(line)
            \/ reply = ERR_fault_active /\ Powering
    /\ pc = "send" => Abstract!Truthful(reply)
    /\ pc \in {"send", "sending"} => reply \in Replies

-----------------------------------------------------------------------------
(* DutSwitch reads commands and answers as the core does.                  *)
LEMMA SameNames ==
    ASSUME NEW l
    PROVE  /\ Abstract!IsOn(l) <=> IsOn(l)
           /\ Abstract!IsOff(l) <=> IsOff(l)
           /\ Abstract!IsCycle(l) <=> IsCycle(l)
           /\ Abstract!IsStatus(l) <=> IsStatus(l)
           /\ Abstract!IsFault(l) <=> IsFault(l)
           /\ Abstract!IsInfo(l) <=> IsInfo(l)
           /\ Abstract!IsBadArg(l) <=> IsBadArg(l)
           /\ Abstract!IsUnknown(l) <=> IsUnknown(l)
           /\ Abstract!Blank(l) <=> Blank(l)
  BY DEF Abstract!IsOn, Abstract!IsOff, Abstract!IsCycle, Abstract!IsStatus,
         Abstract!IsFault, Abstract!IsInfo, Abstract!IsBadArg, Abstract!IsUnknown,
         Abstract!Blank, Abstract!Named, Abstract!TooLong, Abstract!PortArgOk,
         Abstract!CycleArgsOk, Abstract!cycle_ms, Abstract!valid_port_arg,
         Abstract!REPLUG_MAX_ARGS, Abstract!NotANumber,
         IsOn, IsOff, IsCycle, IsStatus, IsFault, IsInfo, IsBadArg, IsUnknown,
         Blank, Named, TooLong, PortArgOk, CycleArgsOk, cycle_ms, valid_port_arg,
         REPLUG_MAX_ARGS, NotANumber

LEMMA SameReplies ==
    /\ Abstract!OK = OK /\ Abstract!ERR_fault_active = ERR_fault_active
    /\ Abstract!ERR_invalid_arg = ERR_invalid_arg
    /\ Abstract!ERR_invalid_command = ERR_invalid_command
    /\ Abstract!Info = Info /\ Abstract!NoReply = NoReply /\ Abstract!NoLine = NoLine
    /\ \A on, f : Abstract!State(on, f) = State(on, f) /\ Abstract!Fault(f) = Fault(f)
    /\ Abstract!Replies = Replies
  BY DEF Abstract!OK, Abstract!ERR_fault_active, Abstract!ERR_invalid_arg,
         Abstract!ERR_invalid_command, Abstract!Info, Abstract!NoReply,
         Abstract!NoLine, Abstract!State, Abstract!Fault, Abstract!Replies,
         OK, ERR_fault_active, ERR_invalid_arg, ERR_invalid_command, Info,
         NoReply, NoLine, State, Fault, Replies

LEMMA BlankIsNoLine ==
    ASSUME NEW l \in Line, Blank(l)
    PROVE  l = NoLine
  BY DEF Line, Blank, NoLine

LEMMA CycleAnswersLate ==
    ASSUME NEW l, IsCycle(l)
    PROVE  ~(IsBadArg(l) \/ IsUnknown(l) \/ IsInfo(l) \/ IsFault(l) \/ IsStatus(l))
  BY DEF IsCycle, IsBadArg, IsUnknown, IsInfo, IsFault, IsStatus, Named

LEMMA NoReplyIsNone == NoReply \notin Replies
  BY DEF Replies, OK, ERR_fault_active, ERR_invalid_arg, ERR_invalid_command, Info,
         State, Fault, NoReply

-----------------------------------------------------------------------------
(* Each answer fits its command.                                           *)
LEMMA OkIsReply == OK \in Replies /\ ERR_fault_active \in Replies
  BY DEF Replies

LEMMA StepCommands == IInv /\ Commands /\ [Next]_vars => Commands'
  <1> SUFFICES ASSUME IInv, Commands, [Next]_vars
               PROVE  Commands'
    OBVIOUS
  <1> USE SameNames, SameReplies, OkIsReply
          DEF Commands, Powering, Goto, Answer, CallTargetOff, GiveUp
  <1>0. Typed
    BY DEF IInv
  <1>1. CASE MainLoop \/ FeedByte \/ PollFault \/ NothingToAnswer
    BY <1>1 DEF MainLoop, FeedByte, PollFault, NothingToAnswer
  <1>2. CASE HandleOn \/ HandleOff \/ HandleCycle
    BY <1>2 DEF HandleOn, HandleOff, HandleCycle
  <1>3. CASE AnswerAtOnce
    <2>1. target_is_on = power /\ data = power
      BY <1>3 DEF AnswerAtOnce, IInv, Switches, Agree
    <2>2. pc' = "send" /\ line' = line /\ power' = power /\ data' = data
      BY <1>3 DEF AnswerAtOnce, pins
    <2>3. reply' \in Replies
      BY <1>0, <1>3 DEF AnswerAtOnce, Replies, Typed
    <2>4. CASE IsStatus(line) /\ reply' = State(target_is_on, fault)
      BY <2>1, <2>2, <2>3, <2>4, <1>0 DEF Abstract!Truthful, Typed
    <2>5. CASE IsFault(line) /\ reply' = Fault(fault)
      BY <2>2, <2>3, <2>5, <1>0 DEF Abstract!Truthful, Typed
    <2>6. CASE \/ IsBadArg(line) /\ reply' = ERR_invalid_arg
               \/ IsUnknown(line) /\ reply' = ERR_invalid_command
               \/ IsInfo(line) /\ reply' = Info
      BY <2>2, <2>3, <2>6 DEF Abstract!Truthful
    <2> QED
      BY <1>3, <2>4, <2>5, <2>6 DEF AnswerAtOnce
  <1>4. CASE TargetOffData
    BY <1>4 DEF TargetOffData
  <1>5. CASE TargetOffPower
    <2>1. line' = line /\ reply' = reply /\ pc' = ret /\ ret # "main"
      BY <1>5 DEF TargetOffPower, IInv, Switches
    <2>2. data' = FALSE /\ power' = FALSE
      BY <1>0, <1>5 DEF TargetOffPower, IInv, Switches, Typed
    <2>3. CASE ret = "send"
      BY <1>5, <2>1, <2>2, <2>3 DEF TargetOffPower, Abstract!Truthful, Abstract!Off
    <2>4. CASE ret # "send"
      BY <1>0, <1>5, <2>1, <2>4 DEF TargetOffPower, Typed
    <2> QED
      BY <2>3, <2>4
  <1>6. CASE TargetOnCheck
    <2>1. IsCycle(line) => Abstract!Off
      BY <1>6 DEF TargetOnCheck, IInv, Switches, Agree, OffTime, Abstract!Off
    <2>2. data = power
      BY <1>6 DEF TargetOnCheck, IInv, Switches, Agree
    <2> QED
      BY <1>6, <2>1, <2>2 DEF TargetOnCheck, pins, Abstract!Truthful, Abstract!Off
  <1>7. CASE TargetOnData \/ TargetOnCheckData \/ TargetOnPower
    BY <1>7 DEF TargetOnData, TargetOnCheckData, TargetOnPower
  <1>8. CASE TargetOnCheckPower
    <2>1. data /\ power
      BY <1>8 DEF TargetOnCheckPower, IInv, Switches
    <2>2. CASE fault
      BY <1>8, <2>2 DEF TargetOnCheckPower
    <2>3. CASE ~fault
      BY <1>8, <2>1, <2>3
         DEF TargetOnCheckPower, pins, Abstract!Truthful, Abstract!On, PowerWasCut
    <2> QED
      BY <2>2, <2>3
  <1>9. CASE DelayCycle
    <2>1. IsCycle(line) /\ ~data /\ ~power
      BY <1>9 DEF DelayCycle, DelayCycleLoop, DelayCycleCheck, IInv, Switches,
                  AllOff, OffTime
    <2> QED
      BY <1>9, <2>1 DEF DelayCycle, DelayCycleLoop, DelayCycleCheck, pins,
                        Abstract!Truthful, Abstract!Off
  <1>10. CASE Send \/ PollDone
    BY <1>10 DEF Send, PollDone
  <1>11. CASE Tick
    <2>1. pc # "send"
      BY <1>11, <1>0 DEF Tick, IInv, Waits, Typed
    <2> QED
      BY <1>11, <2>1 DEF Tick
  <1>12. CASE FaultChanges \/ UNCHANGED vars
    BY <1>12 DEF FaultChanges, vars, control, pins, Abstract!Truthful, Abstract!On,
                 Abstract!Off, PowerWasCut
  <1>13. CASE Restart
    BY <1>13 DEF Restart
  <1> QED
    BY <1>1, <1>2, <1>3, <1>4, <1>5, <1>6, <1>7, <1>8, <1>9, <1>10, <1>11,
       <1>12, <1>13 DEF Next, Run, Handlers, TargetOff, TargetOn

LEMMA AllInvariant == Spec => [](IInv /\ Commands)
  <1>1. Init => IInv /\ Commands
    BY InitInv DEF Init, Commands
  <1>2. IInv /\ Commands /\ [Next]_vars => (IInv /\ Commands)'
    BY StepInv, StepCommands
  <1> QED
    BY <1>1, <1>2, PTL DEF Spec

-----------------------------------------------------------------------------
(* Every step of the program is a step of DutSwitch, or none.              *)
LEMMA StepImplements ==
    IInv /\ TypeOK /\ Commands /\ [Next]_vars => [Abstract!Next]_Abstract!vars
  <1> SUFFICES ASSUME IInv, TypeOK, Commands, [Next]_vars
               PROVE  Abstract!Next \/ UNCHANGED Abstract!vars
    BY DEF Abstract!vars
  <1> USE SameNames, SameReplies
          DEF Goto, Answer, CallTargetOff, GiveUp, Abstract!vars, PowerWasCut, Powering
  <1>0. Typed
    BY DEF IInv
  <1>1. CASE FeedByte
    <2>1. Abstract!Accept
      BY <1>1, OneCommand, NoLineIsBlank
         DEF FeedByte, Abstract!Accept, Commands, pins
    <2> QED
      BY <2>1 DEF Abstract!Next
  <1>2. CASE MainLoop \/ PollFault \/ NothingToAnswer
    <2>1. Blank(line) => line = NoLine
      BY LinesAssumption, BlankIsNoLine DEF TypeOK
    <2> QED
      BY <1>2, <2>1 DEF MainLoop, PollFault, NothingToAnswer, pins
  <1>3. CASE HandleOn \/ HandleOff \/ HandleCycle
    BY <1>3, OneCommand DEF HandleOn, HandleOff, HandleCycle, pins
  <1>4. CASE AnswerAtOnce
    BY <1>4, CycleAnswersLate DEF AnswerAtOnce, pins
  <1>5. CASE TargetOffData
    <2>1. Abstract!Disconnect
      BY <1>5 DEF TargetOffData, Abstract!Disconnect
    <2> QED
      BY <2>1 DEF Abstract!Next
  <1>6. CASE TargetOffPower
    <2>1. Abstract!CutPower
      BY <1>0, <1>6 DEF TargetOffPower, Abstract!CutPower, IInv, Switches, Typed
    <2> QED
      BY <2>1 DEF Abstract!Next
  <1>7. CASE TargetOnData
    <2>1. Abstract!Connect
      BY <1>7 DEF TargetOnData, Abstract!Connect, Commands
    <2> QED
      BY <2>1 DEF Abstract!Next
  <1>8. CASE TargetOnPower
    <2>1. Abstract!PowerUp
      BY <1>8 DEF TargetOnPower, Abstract!PowerUp, Commands, IInv, Switches
    <2> QED
      BY <2>1 DEF Abstract!Next
  <1>9. CASE TargetOnCheck \/ TargetOnCheckData \/ TargetOnCheckPower
    BY <1>9 DEF TargetOnCheck, TargetOnCheckData, TargetOnCheckPower, pins
  <1>10. CASE DelayCycle
    BY <1>10 DEF DelayCycle, DelayCycleLoop, DelayCycleCheck, pins
  <1>11. CASE Send
    <2>1. Abstract!Respond
      BY <1>11 DEF Send, Abstract!Respond, Abstract!Truthful, Commands, pins
    <2> QED
      BY <2>1 DEF Abstract!Next
  <1>12. CASE PollDone
    <2>1. Abstract!Sent
      BY <1>12, OneCommand, NoLineIsBlank, NoReplyIsNone
         DEF PollDone, Abstract!Sent, Commands, pins
    <2> QED
      BY <2>1 DEF Abstract!Next
  <1>13. CASE Tick \/ FaultChanges \/ UNCHANGED vars
    BY <1>13 DEF Tick, FaultChanges, vars, control, pins
  <1>14. CASE Restart
    <2>1. Abstract!Restart
      BY <1>14, OneCommand, NoLineIsBlank DEF Restart, Abstract!Restart
    <2> QED
      BY <2>1 DEF Abstract!Next
  <1> QED
    BY <1>1, <1>2, <1>3, <1>4, <1>5, <1>6, <1>7, <1>8, <1>9, <1>10, <1>11,
       <1>12, <1>13, <1>14 DEF Next, Run, Handlers, TargetOff, TargetOn

(* The core keeps DutSwitch's promises: one answer to each command, true   *)
(* of the outputs when it is sent, and the switches moved in their order.  *)
THEOREM Refinement == Spec => ImplementsDutSwitch
  <1>1. Init => Abstract!Init
    BY OneCommand, NoLineIsBlank, SameReplies
       DEF Init, Abstract!Init, Abstract!Off, PowerWasCut
  <1> QED
    BY <1>1, StepImplements, AllInvariant, TypeCorrect, PTL DEF Spec, ImplementsDutSwitch, Abstract!Spec
=============================================================================
