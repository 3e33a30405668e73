---------------------------- MODULE FirmwareProofs ----------------------------
(***************************************************************************)
(* Proofs about the whole program of the dongle, for every stream of bytes, *)
(* every set of words, packets and buffers of every size, and all times.    *)
(*                                                                          *)
(* The proofs are put together from those of the parts: a step of the       *)
(* program is a step of the command core and of the line receiver, or       *)
(* leaves them as they are, so both keep their inductive invariants (IInv   *)
(* and Commands of ReplugCoreProofs, IInv of LineReceiverProofs).  What is  *)
(* new is how the parts hang together: which line is being executed, what   *)
(* of the stream is in the receiver, which answer is with the endpoint.     *)
(***************************************************************************)
EXTENDS Firmware, ReplugCoreProofs, FiniteSetTheorems, SequenceTheorems

RP == INSTANCE LineReceiverProofs WITH
    pc <- IF pc = "main" THEN "main" ELSE "poll", Bytes <- 0 .. 255

(* What the parts agree on: where the endpoint is in the stream, and that  *)
(* it is sending exactly while the core waits for it.                      *)
Endpoint ==
    /\ stream \in Streams
    /\ accepted \in Nat /\ read \in Nat
    /\ read \leq accepted /\ accepted \leq Len(stream)
    /\ sending = (pc = "sending")

PartsInv == IInv /\ Commands /\ RP!IInv /\ Endpoint

-----------------------------------------------------------------------------
(* The parts.  To the core, a byte is a step to the poll with any line.    *)
Fed ==
    /\ Goto("main", "poll")
    /\ UNCHANGED <<ret, reply, remaining, wait, target_is_on, pins, clocks>>

LEMMA CoreStep == [FirmwareNext]_firmware => [Next]_vars \/ Fed
  <1> SUFFICES ASSUME [FirmwareNext]_firmware
               PROVE  [Next]_vars \/ Fed
    OBVIOUS
  <1>1. CASE Byte
    BY <1>1 DEF Byte, Fed
  <1>2. CASE Idle \/ Work \/ Nothing \/ SendAnswer \/ Answered \/ Fault_N \/ PowerOn
    BY <1>2 DEF Idle, Work, Nothing, SendAnswer, Answered, Fault_N, PowerOn, Next, Run,
                Handlers
  <1>3. CASE HostSends \/ HostFetches \/ HostRequests \/ UNCHANGED firmware
    BY <1>3 DEF HostSends, HostFetches, HostRequests, firmware
  <1> QED
    BY <1>1, <1>2, <1>3 DEF FirmwareNext, Main

LEMMA FedKeepsCore == IInv /\ Commands /\ Fed => IInv' /\ Commands'
  <1> SUFFICES ASSUME IInv, Commands, Fed
               PROVE  IInv' /\ Commands'
    OBVIOUS
  <1> USE DEF IInv, Fed, Goto, pins, clocks
  <1>1. Typed'
    BY DEF Typed
  <1>2. Switches'
    BY DEF Switches, Agree
  <1>3. Waits'
    BY DEF Waits
  <1>4. OffTime'
    BY DEF OffTime
  <1>5. FaultTime'
    BY DEF FaultTime
  <1>6. Commands'
    BY DEF Commands
  <1> QED
    BY <1>1, <1>2, <1>3, <1>4, <1>5, <1>6

LEMMA CoreKept ==
    IInv /\ Commands /\ [FirmwareNext]_firmware => IInv' /\ Commands'
  BY CoreStep, FedKeepsCore, StepInv, StepCommands

(* Only the byte that is read and the end of a poll take the main loop     *)
(* from and back to its start.                                             *)
LEMMA WorkIsInPoll == IInv /\ Work => pc # "main" /\ pc' # "main"
  <1> SUFFICES ASSUME IInv, Work
               PROVE  pc # "main" /\ pc' # "main"
    OBVIOUS
  <1> USE DEF IInv, Goto, Answer, CallTargetOff, GiveUp
  <1>1. CASE PollFault \/ HandleOn \/ HandleOff \/ HandleCycle \/ AnswerAtOnce
    BY <1>1 DEF PollFault, HandleOn, HandleOff, HandleCycle, AnswerAtOnce
  <1>2. CASE TargetOff
    BY <1>2 DEF TargetOff, TargetOffData, TargetOffPower, Switches
  <1>3. CASE TargetOn
    BY <1>3 DEF TargetOn, TargetOnCheck, TargetOnData, TargetOnCheckData, TargetOnPower,
                TargetOnCheckPower
  <1>4. CASE DelayCycle
    BY <1>4 DEF DelayCycle, DelayCycleLoop, DelayCycleCheck
  <1>5. CASE Tick
    BY <1>5 DEF Tick, Waits
  <1> QED
    BY <1>1, <1>2, <1>3, <1>4, <1>5 DEF Work

-----------------------------------------------------------------------------
(* The receiver is LineReceiver, with all bytes.                           *)
LEMMA RoomForLines == RP!ReceiverAssumption /\ RP!WordsAssumption
  BY FirmwareAssumption DEF RP!ReceiverAssumption, RP!WordsAssumption, REPLUG_MAX_ARGS

LEMMA SameReceiver ==
    /\ Receiver!Terminators = RP!Terminators
    /\ Receiver!Init <=> RP!Init
    /\ \A byte : Receiver!FeedByte(byte) <=> RP!FeedByte(byte)
    /\ Receiver!Poll <=> RP!Poll
    /\ Receiver!Restart <=> RP!Restart
  BY DEF Receiver!FeedByte, RP!FeedByte, Receiver!Lost, RP!Lost, Receiver!EndOfLine,
         RP!EndOfLine, Receiver!Character, RP!Character, Receiver!Terminators,
         RP!Terminators, Receiver!CR, RP!CR, Receiver!LF, RP!LF, Receiver!Printable,
         RP!Printable, Receiver!Lower, RP!Lower, Receiver!IsCapital, RP!IsCapital,
         Receiver!Poll, RP!Poll, Receiver!Restart, RP!Restart, Receiver!Init, RP!Init

LEMMA StreamOfBytes ==
    Endpoint => stream \in Seq(0 .. 255) /\ Len(stream) \in Nat
  BY FirmwareAssumption DEF Endpoint

(* A byte that is read is one the endpoint has acknowledged.               *)
LEMMA ByteIsRead ==
    ASSUME Endpoint, Byte
    PROVE  /\ read' \in Nat /\ read < read' /\ read' \leq accepted
           /\ accepted' = accepted /\ sending' = sending /\ stream' = stream
           /\ level' = level
           /\ level = "whole" => read' = read + 1
           /\ stream[read'] \in 0 .. 255
  <1>1. /\ read' \in read + 1 .. (IF level = "whole" THEN read + 1 ELSE accepted)
        /\ read < accepted
        /\ accepted' = accepted /\ sending' = sending /\ level' = level
    BY DEF Byte, Channel!ReadByte
  <1>2. read \in Nat /\ accepted \in Nat /\ accepted \leq Len(stream)
    BY DEF Endpoint
  <1>3. read' \in Nat /\ read < read' /\ read' \leq accepted
    BY <1>1, <1>2
  <1>4. stream \in Seq(0 .. 255) /\ Len(stream) \in Nat
    BY StreamOfBytes
  <1>5. read' \in 1 .. Len(stream)
    BY <1>2, <1>3, <1>4
  <1>6. stream[read'] \in 0 .. 255
    BY <1>4, <1>5, ElementOfSeq
  <1>7. level = "whole" => read' = read + 1
    BY <1>1, <1>2
  <1> QED
    BY <1>1, <1>3, <1>6, <1>7 DEF Byte

LEMMA EndpointKept == IInv /\ Endpoint /\ [FirmwareNext]_firmware => Endpoint'
  <1> SUFFICES ASSUME IInv, Endpoint, [FirmwareNext]_firmware
               PROVE  Endpoint'
    OBVIOUS
  <1>0. stream \in Seq(0 .. 255) /\ Len(stream) \in Nat
    BY StreamOfBytes
  <1>1. CASE Byte
    <2>1. pc = "main" /\ pc' = "poll"
      BY <1>1 DEF Byte, Goto
    <2> QED
      BY <1>1, <2>1, ByteIsRead DEF Endpoint
  <1>2. CASE Idle \/ Nothing
    BY <1>2 DEF Idle, MainLoop, Nothing, NothingToAnswer, Goto, Endpoint, endpoint, history
  <1>3. CASE Work
    <2>1. pc' = "sending" <=> pc = "sending"
      <3> USE DEF Goto, Answer, CallTargetOff, GiveUp
      <3>1. CASE PollFault \/ HandleOn \/ HandleOff \/ HandleCycle \/ AnswerAtOnce
        BY <3>1 DEF PollFault, HandleOn, HandleOff, HandleCycle, AnswerAtOnce
      <3>2. CASE TargetOff
        BY <3>2 DEF TargetOff, TargetOffData, TargetOffPower, IInv, Typed
      <3>3. CASE TargetOn
        BY <3>3 DEF TargetOn, TargetOnCheck, TargetOnData, TargetOnCheckData,
                    TargetOnPower, TargetOnCheckPower
      <3>4. CASE DelayCycle
        BY <3>4 DEF DelayCycle, DelayCycleLoop, DelayCycleCheck
      <3>5. CASE Tick
        BY <3>5 DEF Tick
      <3> QED
        BY <1>3, <3>1, <3>2, <3>3, <3>4, <3>5 DEF Work
    <2> QED
      BY <1>3, <2>1 DEF Work, Endpoint, endpoint, history
  <1>4. CASE SendAnswer
    BY <1>4 DEF SendAnswer, Send, Goto, Channel!Send, Endpoint, history
  <1>5. CASE Answered
    BY <1>5 DEF Answered, PollDone, Goto, Channel!Return, Endpoint, history
  <1>6. CASE HostSends
    <2>1. accepted' \in Nat /\ accepted \leq accepted'
      BY <1>6, FirmwareAssumption DEF HostSends, Channel!Accept, Endpoint
    <2> QED
      BY <1>0, <1>6, <2>1 DEF HostSends, Channel!Accept, Endpoint, vars, control, history
  <1>7. CASE HostFetches \/ HostRequests
    BY <1>7 DEF HostFetches, HostRequests, Channel!Fetch, Channel!Lose, Endpoint, vars,
                control, history
  <1>8. CASE Fault_N \/ UNCHANGED firmware
    BY <1>8 DEF Fault_N, FaultChanges, firmware, vars, control, endpoint, history, Endpoint
  <1>9. CASE PowerOn
    BY <1>9 DEF PowerOn, Restart, Endpoint, history
  <1> QED
    BY <1>1, <1>2, <1>3, <1>4, <1>5, <1>6, <1>7, <1>8, <1>9 DEF FirmwareNext, Main

(* A poll for the fault input is one without a byte.                       *)
LEMMA ReceiverStep ==
    IInv /\ Endpoint /\ [FirmwareNext]_firmware => [RP!Next]_RP!vars \/ Idle
  <1> SUFFICES ASSUME IInv, Endpoint, [FirmwareNext]_firmware
               PROVE  [RP!Next]_RP!vars \/ Idle
    OBVIOUS
  <1>1. CASE Byte
    BY <1>1, ByteIsRead, SameReceiver DEF Byte, RP!Next
  <1>2. CASE Idle
    BY <1>2
  <1>3. CASE Work
    BY <1>3, WorkIsInPoll DEF Work, receiver, RP!vars
  <1>4. CASE Nothing \/ Answered
    BY <1>4, SameReceiver DEF Nothing, Answered, RP!Next
  <1>5. CASE SendAnswer
    BY <1>5 DEF SendAnswer, Send, Goto, receiver, RP!vars
  <1>6. CASE HostSends \/ HostFetches \/ HostRequests \/ Fault_N \/ UNCHANGED firmware
    BY <1>6 DEF HostSends, HostFetches, HostRequests, Fault_N, FaultChanges, firmware,
                vars, control, receiver, RP!vars
  <1>7. CASE PowerOn
    BY <1>7, SameReceiver DEF PowerOn, RP!Next
  <1> QED
    BY <1>1, <1>2, <1>3, <1>4, <1>5, <1>6, <1>7 DEF FirmwareNext, Main

LEMMA ReceiverKept ==
    IInv /\ Endpoint /\ RP!IInv /\ [FirmwareNext]_firmware => RP!IInv'
  <1> SUFFICES ASSUME IInv, Endpoint, RP!IInv, [FirmwareNext]_firmware
               PROVE  RP!IInv'
    OBVIOUS
  <1>1. CASE [RP!Next]_RP!vars
    BY <1>1, RoomForLines, RP!Inductive
  <1>2. CASE Idle
    BY <1>2 DEF Idle, MainLoop, Goto, receiver, RP!IInv, RP!TypeOK, RP!Acceptable,
                RP!Lowered
  <1> QED
    BY <1>1, <1>2, ReceiverStep

LEMMA PartsInit == FirmwareInit => PartsInv
  <1> SUFFICES ASSUME FirmwareInit
               PROVE  PartsInv
    OBVIOUS
  <1>1. IInv /\ Commands
    BY InitInv DEF FirmwareInit, Init, Commands
  <1>2. RP!IInv
    BY SameReceiver, RoomForLines, RP!Initially DEF FirmwareInit
  <1>3. Endpoint
    <2>1. /\ stream \in Streams /\ accepted = 0 /\ read = 0 /\ sending = FALSE
          /\ pc = "main"
      BY DEF FirmwareInit, Channel!Init, Init
    <2>2. Len(stream) \in Nat
      BY <2>1, FirmwareAssumption
    <2>3. sending = (pc = "sending")
      BY <2>1
    <2>4. 0 \in Nat /\ 0 \leq 0 /\ 0 \leq Len(stream)
      BY <2>2
    <2> QED
      BY <2>1, <2>3, <2>4 DEF Endpoint
  <1> QED
    BY <1>1, <1>2, <1>3 DEF PartsInv

LEMMA PartsKept == PartsInv /\ [FirmwareNext]_firmware => PartsInv'
  BY CoreKept, ReceiverKept, EndpointKept DEF PartsInv

LEMMA Steps == FirmwareSpec => FirmwareInit /\ [][FirmwareNext]_firmware
  BY PTL DEF FirmwareSpec

LEMMA PartsInvariance == FirmwareSpec => []PartsInv
  BY PartsInit, PartsKept, Steps, PTL

-----------------------------------------------------------------------------
(* What is proved of the core for any sequence of lines holds in the whole  *)
(* program: the outputs agree between commands, there is no power without  *)
(* data but in target_off, and a fault is cut off within the longest wait. *)
THEOREM CoreKeepsPromises ==
    FirmwareSpec => [](OutputsAgree /\ PowerImpliesData /\ FaultReaction)
  <1>1. PartsInv => OutputsAgree
    BY DEF PartsInv, IInv, Switches, Agree, OutputsAgree
  <1>2. PartsInv => PowerImpliesData
    BY DEF PartsInv, IInv, Typed, Switches, Agree, AllOff, PowerImpliesData
  <1>3. PartsInv => FaultReaction
    BY DelayAssumption DEF PartsInv, IInv, Typed, FaultTime, FaultReaction
  <1> QED
    BY <1>1, <1>2, <1>3, PartsInvariance, PTL

(* So do the times: power comes on only after the settle time of the data  *)
(* lines, and in a cycle only after the off time it was asked for.         *)
THEOREM CoreKeepsTimes == FirmwareSpec => PowerAfterData /\ CycleOffTime
  <1>1. PartsInv /\ [FirmwareNext]_firmware /\ ~power /\ power' => TargetOnPower
    BY CoreStep, PowerOnStep DEF PartsInv, IInv, Fed, pins
  <1>2. PartsInv /\ [FirmwareNext]_firmware
          => [~power /\ power' => data /\ dataFor \geq REPLUG_ON_SETTLE_MS]_vars
    BY <1>1 DEF PartsInv, IInv, Switches, Waits, TargetOnPower, Goto
  <1>3. PartsInv /\ [FirmwareNext]_firmware
          => [~power /\ power' /\ IsCycle(line)
                => offFor \geq cycle_ms(line) + REPLUG_ON_SETTLE_MS]_vars
    BY <1>1 DEF PartsInv, IInv, Typed, Waits, OffTime, TargetOnPower, Goto
  <1> QED
    BY <1>2, <1>3, PartsInvariance, Steps, PTL DEF PowerAfterData, CycleOffTime

(* So does what is proved of the receiver: a line that is ready is what    *)
(* the endpoint has handed over, or is marked as spoilt.                   *)
THEOREM LinesStayIntact == FirmwareSpec => []RP!LineIntact
  <1>1. PartsInv => RP!LineIntact
    BY DEF PartsInv, RP!IInv, RP!LineIntact, RP!Lowered
  <1> QED
    BY <1>1, PartsInvariance, PTL

(* And what is proved of tokenize and parse_u16: the words and numbers of a *)
(* line that is ready, which Command hands to the core, are those sent.     *)
THEOREM LinesAreRead == FirmwareSpec => [](RP!WordsRight /\ RP!NumbersRight)
  <1>1. PartsInv => RP!WordsRight /\ RP!NumbersRight
    BY RoomForLines, RP!LinesAreRead DEF PartsInv
  <1> QED
    BY <1>1, PartsInvariance, PTL

-----------------------------------------------------------------------------
(* What the answers say of the power is true from the moment they are      *)
(* chosen until the main loop takes the next byte.                         *)
Telling == pc \in {"send", "sending"} => Tells(reply)

LEMMA OnlyOff ==
    ASSUME NEW l, IsOff(l)
    PROVE  /\ ~IsOn(l) /\ ~IsCycle(l) /\ ~IsStatus(l) /\ ~IsFault(l) /\ ~IsInfo(l)
           /\ ~IsBadArg(l) /\ ~IsUnknown(l) /\ ~Blank(l)
  BY DEF IsOff, IsOn, IsCycle, IsStatus, IsFault, IsInfo, IsBadArg, IsUnknown, Named

Faults == {Fault(f) : f \in BOOLEAN}
Words == {ERR_fault_active, ERR_invalid_arg, ERR_invalid_command, Info}

LEMMA AnswersApart ==
    /\ OK \notin States
    /\ \A r \in Words \cup Faults : r \in Replies /\ r # OK /\ r \notin States
  <1>1. States \subseteq {"STATE on fault=1", "STATE on fault=0", "STATE off fault=1",
                          "STATE off fault=0"}
    <2>1. \A on, f \in BOOLEAN :
             State(on, f) \in {"STATE on fault=1", "STATE on fault=0",
                               "STATE off fault=1", "STATE off fault=0"}
      BY DEF State
    <2>2. \A s \in States : \E on, f \in BOOLEAN : s = State(on, f)
      BY DEF States
    <2> QED
      BY <2>1, <2>2
  <1>2. Faults \subseteq {"FAULT 1", "FAULT 0"}
    BY DEF Faults, Fault
  <1>3. Words \cup Faults \subseteq Replies
    BY DEF Words, Faults, Replies
  <1>4. OK \notin States
    BY <1>1 DEF OK
  <1>5. \A r \in Words \cup Faults : r # OK /\ r \notin States
    BY <1>1, <1>2
       DEF Words, OK, ERR_fault_active, ERR_invalid_arg, ERR_invalid_command, Info
  <1> QED
    BY <1>3, <1>4, <1>5

LEMMA TruthTells == Typed /\ pc = "send" /\ Abstract!Truthful(reply) => Tells(reply)
  <1> SUFFICES ASSUME Typed, pc = "send", Abstract!Truthful(reply)
               PROVE  Tells(reply)
    OBVIOUS
  <1> USE SameNames, SameReplies
  <1>1. CASE reply \in Words \cup Faults
    BY <1>1, AnswersApart DEF Tells
  <1>2. CASE reply \in {State(power, f) : f \in BOOLEAN}
    BY <1>2 DEF Tells
  <1>3. CASE reply = OK /\ (IsOn(line) \/ IsCycle(line)) /\ power
    <2>1. ~IsOff(line)
      BY <1>3, OnlyOff
    <2>2. power = ~IsOff(line)
      BY <1>3, <2>1 DEF Typed
    <2>3. reply = OK
      BY <1>3
    <2> QED BY ONLY <2>2, <2>3 DEF Tells
  <1>4. CASE reply = OK /\ IsOff(line) /\ ~power
    <2>1. power = ~IsOff(line)
      BY <1>4 DEF Typed
    <2> QED BY <1>4, <2>1 DEF Tells
  <1> QED
    BY <1>1, <1>2, <1>3, <1>4
       DEF Abstract!Truthful, Abstract!On, Abstract!Off, Words, Faults

LEMMA SendingStep ==
    ASSUME IInv, [FirmwareNext]_firmware, pc' = "sending"
    PROVE  /\ pc \in {"send", "sending"}
           /\ reply' = reply /\ line' = line /\ power' = power
  <1>1. [Next]_vars
    BY CoreStep DEF Fed, Goto
  <1> USE DEF IInv, Typed, Goto, Answer, CallTargetOff, GiveUp
  <1>2. CASE MainLoop \/ FeedByte \/ PollFault \/ Handlers
    BY <1>2 DEF MainLoop, FeedByte, PollFault, Handlers, HandleOn, HandleOff, HandleCycle,
                AnswerAtOnce, NothingToAnswer
  <1>3. CASE TargetOff \/ TargetOn \/ DelayCycle
    BY <1>3 DEF TargetOff, TargetOffData, TargetOffPower, TargetOn, TargetOnCheck,
                TargetOnData, TargetOnCheckData, TargetOnPower, TargetOnCheckPower,
                DelayCycle, DelayCycleLoop, DelayCycleCheck
  <1>4. CASE Send \/ PollDone \/ Tick
    BY <1>4 DEF Send, PollDone, Tick, pins
  <1>5. CASE FaultChanges \/ Restart \/ UNCHANGED vars
    BY <1>5 DEF FaultChanges, Restart, vars, control, pins
  <1> QED
    BY <1>1, <1>2, <1>3, <1>4, <1>5 DEF Next, Run

LEMMA TellingKept ==
    IInv /\ Commands /\ Telling /\ [FirmwareNext]_firmware => Telling'
  <1> SUFFICES ASSUME IInv, Commands, Telling, [FirmwareNext]_firmware
               PROVE  Telling'
    OBVIOUS
  <1>1. CASE pc' = "send"
    <2>1. (Typed /\ pc = "send" /\ Abstract!Truthful(reply) => Tells(reply))'
      BY TruthTells, PTL
    <2>2. Typed' /\ Abstract!Truthful(reply)'
      BY <1>1, CoreKept DEF IInv, Commands
    <2> QED
      BY <1>1, <2>1, <2>2 DEF Telling
  <1>2. CASE pc' = "sending"
    BY <1>2, SendingStep DEF Telling, Tells
  <1> QED
    BY <1>1, <1>2 DEF Telling

(* The text and the end of an answer go out while the main loop waits, and *)
(* then what the answer says of the DUT's power is still true.             *)
THEOREM AnswerTrueWhenFetchedAlways == FirmwareSpec => AnswerTrueWhenFetched
  <1>1. FirmwareInit => Telling
    BY DEF FirmwareInit, Init, Telling
  <1>2. PartsInv /\ Telling /\ [FirmwareNext]_firmware => Telling'
    BY TellingKept DEF PartsInv
  <1>3. PartsInv /\ Telling /\ [FirmwareNext]_firmware
          => [delivered' # delivered /\ delivered' # {} => Tells(reply)]_firmware
    <2> SUFFICES ASSUME PartsInv, Telling, FirmwareNext,
                        delivered' # delivered, delivered' # {}
                 PROVE  Tells(reply)
      OBVIOUS
    <2>1. HostFetches
      BY DEF FirmwareNext, Main, Byte, Idle, Work, Nothing, SendAnswer, Answered,
             HostSends, HostRequests, Fault_N, PowerOn, endpoint, Channel!ReadByte,
             Channel!Send, Channel!Return, Channel!Accept, Channel!Lose
    <2> QED
      BY <2>1 DEF HostFetches, Channel!Fetch, PartsInv, Endpoint, Telling
  <1> QED
    BY <1>1, <1>2, <1>3, PartsInvariance, Steps, PTL DEF AnswerTrueWhenFetched

-----------------------------------------------------------------------------
(* The line that is worked on is the last one handed to process_line; with *)
(* power on, an `on` or a `cycle` was executed and no `off` after it, but  *)
(* for the one that is about to switch it off.                             *)
IsSequence(s) == s \in Seq({s[i] : i \in 1 .. Len(s)}) /\ Len(s) \in Nat

Executing ==
    /\ IsSequence(executed)
    /\ line # NoLine => executed # <<>> /\ executed[Len(executed)] = line

Asked(lines) ==
    \E i \in 1 .. Len(lines) :
        /\ IsOn(lines[i]) \/ IsCycle(lines[i])
        /\ \A j \in i + 1 .. Len(lines) : ~IsOff(lines[j])

SwitchingOff == IsOff(line) /\ pc \in {"poll", "process_line", "off_data", "off_power"}

PoweredAsAsked == power => Asked(executed) \/ SwitchingOff

LEMMA SequenceGrows ==
    ASSUME NEW s, IsSequence(s), NEW x
    PROVE  /\ IsSequence(Append(s, x))
           /\ Len(Append(s, x)) = Len(s) + 1
           /\ \A i \in 1 .. Len(s) : Append(s, x)[i] = s[i]
           /\ Append(s, x)[Len(s) + 1] = x
  <1> DEFINE S == {s[i] : i \in 1 .. Len(s)} \cup {x}
             longer == Append(s, x)
  <1>1. s \in Seq(S) /\ x \in S
    BY DEF IsSequence
  <1>2. /\ longer \in Seq(S) /\ Len(longer) = Len(s) + 1
        /\ \A i \in 1 .. Len(s) : longer[i] = s[i]
        /\ longer[Len(s) + 1] = x
    BY <1>1, AppendProperties
  <1>3. Len(s) \in Nat
    BY DEF IsSequence
  <1> HIDE DEF longer
  <1> DEFINE T == {longer[i] : i \in 1 .. Len(longer)}
  <1>4. \A i \in 1 .. Len(s) : s[i] \in T
    <2> SUFFICES ASSUME NEW i \in 1 .. Len(s)
                 PROVE  \E k \in 1 .. Len(longer) : s[i] = longer[k]
      OBVIOUS
    <2>1. i \in 1 .. Len(longer) /\ s[i] = longer[i]
      BY <1>2, <1>3
    <2> QED
      BY <2>1
  <1>5. x \in T
    <2>1. Len(s) + 1 \in 1 .. Len(longer) /\ x = longer[Len(s) + 1]
      BY <1>2, <1>3
    <2> QED
      BY <2>1
  <1>6. S \subseteq T
    BY <1>4, <1>5
  <1> HIDE DEF S, T
  <1>7. longer \in Seq(T)
    BY <1>2, <1>6, SeqMonotonic
  <1>8. IsSequence(longer)
    BY <1>2, <1>3, <1>7 DEF IsSequence, T
  <1> QED
    BY <1>2, <1>8 DEF longer

LEMMA LastIsAsked ==
    ASSUME NEW lines, IsSequence(lines), lines # <<>>,
           IsOn(lines[Len(lines)]) \/ IsCycle(lines[Len(lines)])
    PROVE  Asked(lines)
  BY DEF IsSequence, Asked

LEMMA StillAsked ==
    ASSUME NEW lines, IsSequence(lines), Asked(lines), NEW l, ~IsOff(l)
    PROVE  Asked(Append(lines, l))
  <1>1. PICK i \in 1 .. Len(lines) :
            /\ IsOn(lines[i]) \/ IsCycle(lines[i])
            /\ \A j \in i + 1 .. Len(lines) : ~IsOff(lines[j])
    BY DEF Asked
  <1> DEFINE longer == Append(lines, l)
  <1>2. /\ Len(lines) \in Nat /\ Len(longer) = Len(lines) + 1
        /\ \A j \in 1 .. Len(lines) : longer[j] = lines[j]
        /\ longer[Len(lines) + 1] = l
    BY SequenceGrows DEF IsSequence
  <1> HIDE DEF longer
  <1>3. i \in 1 .. Len(longer) /\ (IsOn(longer[i]) \/ IsCycle(longer[i]))
    BY <1>1, <1>2
  <1>4. ASSUME NEW j \in i + 1 .. Len(longer)
        PROVE  ~IsOff(longer[j])
    <2>1. j \in i + 1 .. Len(lines) \/ j = Len(lines) + 1
      BY <1>2
    <2> QED
      BY <1>1, <1>2, <2>1
  <1>5. Asked(longer)
    BY <1>3, <1>4 DEF Asked
  <1> QED
    BY <1>5 DEF longer

LEMMA NothingAsked == ~IsOff(NoLine) /\ ~IsOn(NoLine) /\ ~IsCycle(NoLine)
  BY NoLineIsBlank DEF IsOff, IsOn, IsCycle, Named

(* Work on a line neither changes the line nor what has been executed.     *)
LEMMA WorkKeepsLine ==
    ASSUME Work
    PROVE  line' = line /\ executed' = executed
  BY DEF Work, history, PollFault, HandleOn, HandleOff, HandleCycle, AnswerAtOnce,
         TargetOff, TargetOffData, TargetOffPower, TargetOn, TargetOnCheck, TargetOnData,
         TargetOnCheckData, TargetOnPower, TargetOnCheckPower, DelayCycle,
         DelayCycleLoop, DelayCycleCheck, Tick

LEMMA ExecutingKept == IInv /\ Executing /\ [FirmwareNext]_firmware => Executing'
  <1> SUFFICES ASSUME IInv, Executing, [FirmwareNext]_firmware
               PROVE  Executing'
    OBVIOUS
  <1>1. CASE Byte
    <2>1. CASE line_ready'
      <3>1. executed' = Append(executed, line')
        BY <1>1, <2>1 DEF Byte
      <3>2. /\ IsSequence(executed') /\ Len(executed') = Len(executed) + 1
            /\ executed'[Len(executed) + 1] = line' /\ Len(executed) \in Nat
        BY <3>1, SequenceGrows DEF Executing, IsSequence
      <3>3. executed' # <<>>
        BY <3>2
      <3> QED
        BY <3>2, <3>3 DEF Executing, IsSequence
    <2>2. CASE ~line_ready'
      BY <1>1, <2>2 DEF Byte, Executing, IsSequence
    <2> QED
      BY <2>1, <2>2
  <1>2. CASE Work
    BY <1>2, WorkKeepsLine DEF Executing, IsSequence
  <1>3. CASE Idle \/ SendAnswer \/ HostSends \/ HostFetches \/ HostRequests \/ Fault_N
             \/ UNCHANGED firmware
    BY <1>3 DEF Idle, MainLoop, SendAnswer, Send, HostSends, HostFetches, HostRequests,
                Fault_N, FaultChanges, firmware, vars, control, history, Executing, IsSequence
  <1>4. CASE Nothing \/ Answered \/ PowerOn
    BY <1>4 DEF Nothing, NothingToAnswer, Answered, PollDone, PowerOn, Restart, history,
                Executing, IsSequence
  <1> QED
    BY <1>1, <1>2, <1>3, <1>4 DEF FirmwareNext, Main

(* A line that is an `off` is on its way to the outputs, and nowhere else. *)
LEMMA OffIsCarriedOut ==
    ASSUME IInv, Work, SwitchingOff, power'
    PROVE  SwitchingOff'
  <1> USE DEF SwitchingOff, Goto, Answer, CallTargetOff, GiveUp
  <1>0. IsOff(line)' /\ line' = line
    BY WorkKeepsLine DEF IsOff, Named, TooLong, Blank, PortArgOk
  <1>1. CASE PollFault
    BY <1>0, <1>1 DEF PollFault
  <1>2. CASE HandleOn \/ HandleCycle \/ AnswerAtOnce
    BY <1>2, OnlyOff DEF HandleOn, HandleCycle, AnswerAtOnce
  <1>3. CASE HandleOff
    BY <1>0, <1>3 DEF HandleOff
  <1>4. CASE TargetOff
    BY <1>0, <1>4 DEF TargetOff, TargetOffData, TargetOffPower
  <1>5. CASE TargetOn \/ DelayCycle
    BY <1>5 DEF TargetOn, TargetOnCheck, TargetOnData, TargetOnCheckData, TargetOnPower,
                TargetOnCheckPower, DelayCycle, DelayCycleLoop, DelayCycleCheck
  <1>6. CASE Tick
    BY <1>0, <1>6 DEF Tick
  <1> QED
    BY <1>1, <1>2, <1>3, <1>4, <1>5, <1>6 DEF Work

LEMMA PoweredKept ==
    IInv /\ Commands /\ Executing /\ PoweredAsAsked /\ [FirmwareNext]_firmware
      => PoweredAsAsked'
  <1> SUFFICES ASSUME IInv, Commands, Executing, PoweredAsAsked, [FirmwareNext]_firmware,
                      power'
               PROVE  Asked(executed') \/ SwitchingOff'
    BY DEF PoweredAsAsked, Asked
  <1>1. CASE Byte
    <2>1. power /\ line = NoLine /\ pc' = "poll"
      BY <1>1 DEF Byte, Commands, Goto, pins
    <2>2. Asked(executed)
      BY <2>1, NothingAsked DEF PoweredAsAsked, SwitchingOff
    <2>3. CASE line_ready' /\ IsOff(line')
      BY <2>1, <2>3 DEF SwitchingOff, IsOff, Named, TooLong, Blank, PortArgOk
    <2>4. CASE line_ready' /\ ~IsOff(line')
      BY <1>1, <2>2, <2>4, StillAsked DEF Byte, Executing
    <2>5. CASE ~line_ready'
      BY <1>1, <2>2, <2>5 DEF Byte
    <2> QED
      BY <2>3, <2>4, <2>5
  <1>2. CASE Work
    <2>1. CASE ~power
      <3>1. TargetOnPower
        BY <1>2, <2>1, PowerOnStep DEF Work, IInv, Next, Run, Handlers
      <3>2. IsOn(line) \/ IsCycle(line)
        BY <3>1 DEF TargetOnPower, Goto, Commands, Powering
      <3>3. line # NoLine
        BY <3>2, NothingAsked
      <3> QED
        BY <1>2, <3>2, <3>3, LastIsAsked, WorkKeepsLine DEF Executing
    <2>2. CASE power /\ SwitchingOff
      BY <1>2, <2>2, OffIsCarriedOut
    <2>3. CASE power /\ Asked(executed)
      BY <1>2, <2>3, WorkKeepsLine
    <2> QED
      BY <2>1, <2>2, <2>3 DEF PoweredAsAsked
  <1>3. CASE Idle
    <2>1. power /\ line = NoLine /\ executed' = executed
      BY <1>3 DEF Idle, MainLoop, Goto, Commands, pins, history
    <2> QED
      BY <2>1, NothingAsked DEF PoweredAsAsked, SwitchingOff
  <1>4. CASE Nothing \/ SendAnswer \/ Answered
    <2>1. power /\ ~SwitchingOff /\ executed' = executed
      BY <1>4, OnlyOff DEF Nothing, NothingToAnswer, SendAnswer, Send, Answered, PollDone,
                           Goto, SwitchingOff, pins, history
    <2> QED
      BY <2>1 DEF PoweredAsAsked
  <1>5. CASE HostSends \/ HostFetches \/ HostRequests \/ Fault_N \/ UNCHANGED firmware
    <2>1. power /\ pc' = pc /\ line' = line /\ executed' = executed
      BY <1>5 DEF HostSends, HostFetches, HostRequests, Fault_N, FaultChanges, firmware,
                  vars, control, pins, history
    <2> QED
      BY <2>1 DEF PoweredAsAsked, SwitchingOff, IsOff, Named, TooLong, Blank, PortArgOk
  <1>6. CASE PowerOn
    BY <1>6 DEF PowerOn, Restart
  <1> QED
    BY <1>1, <1>2, <1>3, <1>4, <1>5, <1>6 DEF FirmwareNext, Main

(* Whatever came before, resets, lost bytes and faults included: between   *)
(* commands and while it is answered, the DUT only has power by an `on` or *)
(* a `cycle` that no `off` has followed.                                   *)
THEOREM PowerAsAskedAlways == FirmwareSpec => []PowerAsAsked
  <1>1. FirmwareInit => Executing /\ PoweredAsAsked
    <2> SUFFICES ASSUME FirmwareInit
                 PROVE  Executing /\ PoweredAsAsked
      OBVIOUS
    <2>1. executed = <<>> /\ line = NoLine /\ power = FALSE
      BY DEF FirmwareInit, Init
    <2>2. IsSequence(<<>>)
      BY EmptySeq DEF IsSequence
    <2> QED
      BY <2>1, <2>2 DEF Executing, PoweredAsAsked
  <1>2. PartsInv /\ Executing /\ PoweredAsAsked /\ [FirmwareNext]_firmware
          => Executing' /\ PoweredAsAsked'
    BY ExecutingKept, PoweredKept DEF PartsInv
  <1>3. Executing /\ PoweredAsAsked => PowerAsAsked
    <2> SUFFICES ASSUME Executing, PoweredAsAsked, power,
                        pc \in {"main", "send", "sending"}
                 PROVE  \E i \in DOMAIN executed :
                            /\ IsOn(executed[i]) \/ IsCycle(executed[i])
                            /\ \A j \in i + 1 .. Len(executed) : ~IsOff(executed[j])
      BY DEF PowerAsAsked
    <2>1. Asked(executed)
      BY DEF PoweredAsAsked, SwitchingOff
    <2>2. DOMAIN executed = 1 .. Len(executed)
      BY DEF Executing, IsSequence
    <2> QED
      BY <2>1, <2>2 DEF Asked
  <1> QED
    BY <1>1, <1>2, <1>3, PartsInvariance, Steps, PTL

-----------------------------------------------------------------------------
(* What of the stream has been executed, and what of it is in the receiver: *)
(* the bytes after the last end of a line.                                 *)
IsLast(sent, b, n) == b \in Breaks(sent, n) /\ \A i \in Breaks(sent, n) : i \leq b

InTheReceiver ==
    \E b \in Breaks(stream, read) :
        /\ IsLast(stream, b, read)
        /\ IF line_ready THEN b = read ELSE text = SubSeq(stream, b + 1, read)

Executed(lines, sent, n) ==
    /\ Len(lines) = Cardinality(Ends(sent, n))
    /\ \A end \in Ends(sent, n) : lines[NumberOf(sent, end)] = LineTo(sent, end)

Following == level = "whole" => InTheReceiver /\ Executed(executed, stream, read)

LEMMA BreaksGrow ==
    ASSUME NEW sent, NEW n \in Nat
    PROVE  Breaks(sent, n + 1) = Breaks(sent, n) \cup
               (IF sent[n + 1] \in Receiver!Terminators THEN {n + 1} ELSE {})
  BY DEF Breaks

LEMMA BreaksBounds == ASSUME NEW sent, NEW n \in Nat PROVE Breaks(sent, n) \subseteq 0 .. n /\ 0 \in Breaks(sent, n)
  BY DEF Breaks

LEMMA EndsFinite ==
    ASSUME NEW sent, NEW n \in Nat
    PROVE  /\ Ends(sent, n) \subseteq 1 .. n
           /\ IsFiniteSet(Ends(sent, n)) /\ Cardinality(Ends(sent, n)) \in Nat
  <1>1. Ends(sent, n) \subseteq 1 .. n
    BY BreaksBounds DEF Ends
  <1>2. IsFiniteSet(1 .. n)
    BY FS_Interval
  <1> QED
    BY <1>1, <1>2, FS_Subset, FS_CardinalityType

(* A line ends at n + 1 if there is a terminator, and none before it.      *)
LEMMA EndsGrow ==
    ASSUME NEW sent, NEW n \in Nat
    PROVE  Ends(sent, n + 1) = Ends(sent, n) \cup
               (IF sent[n + 1] \in Receiver!Terminators /\ n \notin Breaks(sent, n)
                THEN {n + 1} ELSE {})
  <1>1. ASSUME NEW i \in Ends(sent, n + 1)
        PROVE  \/ i \in Ends(sent, n)
               \/ i = n + 1 /\ sent[n + 1] \in Receiver!Terminators /\ n \notin Breaks(sent, n)
    BY <1>1, BreaksGrow, BreaksBounds DEF Ends
  <1>2. ASSUME NEW i \in Ends(sent, n)
        PROVE  i \in Ends(sent, n + 1)
    BY <1>2, BreaksGrow, BreaksBounds DEF Ends
  <1>3. ASSUME sent[n + 1] \in Receiver!Terminators, n \notin Breaks(sent, n)
        PROVE  n + 1 \in Ends(sent, n + 1)
    BY <1>3, BreaksGrow, BreaksBounds DEF Ends
  <1> QED
    BY <1>1, <1>2, <1>3

LEMMA EndsOfPrefix ==
    ASSUME NEW sent, NEW n \in Nat, NEW end \in Ends(sent, n)
    PROVE  /\ end \in Ends(sent, end) /\ Ends(sent, end) \subseteq Ends(sent, n)
           /\ NumberOf(sent, end) \in 1 .. Cardinality(Ends(sent, n))
  <1>1. end \in 1 .. n
    BY EndsFinite
  <1>2. end \in Ends(sent, end) /\ Ends(sent, end) \subseteq Ends(sent, n)
    BY <1>1 DEF Ends, Breaks
  <1>3. Cardinality(Ends(sent, end)) \leq Cardinality(Ends(sent, n)) /\ Cardinality(Ends(sent, end)) \in Nat
    BY <1>1, <1>2, EndsFinite, FS_Subset
  <1>4. Cardinality(Ends(sent, end)) # 0
    BY <1>1, <1>2, EndsFinite, FS_EmptySet
  <1> QED
    BY <1>2, <1>3, <1>4, EndsFinite DEF NumberOf

LEMMA BeginIsLast ==
    ASSUME NEW sent, NEW n \in Nat, NEW b, IsLast(sent, b, n)
    PROVE  Begin(sent, n + 1) = b + 1
  <1> DEFINE breaks == Breaks(sent, n + 1 - 1)
  <1>1. breaks = Breaks(sent, n)
    OBVIOUS
  <1>2. b \in breaks /\ (\A i \in breaks : i \leq b) /\ breaks \subseteq Int
    BY <1>1, BreaksBounds DEF IsLast
  <1>3. Begin(sent, n + 1) = 1 + CHOOSE i \in breaks : \A j \in breaks : j \leq i
    BY DEF Begin
  <1> HIDE DEF breaks
  <1> DEFINE begin == CHOOSE i \in breaks : \A j \in breaks : j \leq i
  <1>4. begin \in breaks /\ \A j \in breaks : j \leq begin
    BY <1>2
  <1> HIDE DEF begin
  <1>5. begin = b
    BY <1>2, <1>4
  <1>6. Begin(sent, n + 1) = 1 + begin
    BY <1>3, Zenon DEF begin
  <1>7. b \in Int
    BY <1>2
  <1> QED
    BY <1>5, <1>6, <1>7

LEMMA SpoiltLine == ASSUME NEW buffer PROVE Command(buffer, TRUE) = Command(<<>>, TRUE)
  BY DEF Command

LEMMA LineIsTaken == RP!IInv => Command(line_buffer, line_overflow) = Taken(text)
  <1> SUFFICES ASSUME RP!IInv
               PROVE  Command(line_buffer, line_overflow) = Taken(text)
    OBVIOUS
  <1>1. text \in Seq(0 .. 255) /\ line_overflow \in BOOLEAN
    BY DEF RP!IInv, RP!TypeOK
  <1>2. Receiver!Acceptable(text) <=> ~line_overflow
    BY DEF RP!IInv, RP!Acceptable, Receiver!Acceptable, RP!Printable, Receiver!Printable
  <1>3. CASE line_overflow
    <2>1. line_overflow = TRUE
      BY <1>1, <1>3
    <2> QED
      BY <1>2, <1>3, <2>1, SpoiltLine DEF Taken
  <1>4. CASE ~line_overflow
    <2>1. line_overflow = FALSE
      BY <1>1, <1>4
    <2>2. line_buffer = [i \in 1 .. Len(text) |-> RP!Lower(text[i])]
      BY <1>4 DEF RP!IInv, RP!Lowered
    <2>3. [i \in 1 .. Len(text) |-> RP!Lower(text[i])]
             = [i \in DOMAIN text |-> Receiver!Lower(text[i])]
      BY <1>1 DEF RP!Lower, RP!IsCapital, Receiver!Lower, Receiver!IsCapital
    <2> QED
      BY <1>2, <1>4, <2>1, <2>2, <2>3 DEF Taken
  <1> QED
    BY <1>3, <1>4

(* At a terminator, a line becomes ready if anything was sent before it.   *)
LEMMA LineBecomesReady ==
    ASSUME RP!IInv, IInv, Byte, stream[read'] \in Receiver!Terminators
    PROVE  /\ line_ready' <=> text # <<>>
           /\ line_ready' => line' = Taken(text) /\ executed' = Append(executed, line')
           /\ ~line_ready' => executed' = executed
           /\ text' = text
  <1>1. ~line_ready /\ Receiver!EndOfLine(stream[read'])
    BY DEF Byte, Goto, RP!IInv, Receiver!FeedByte, Receiver!Character
  <1>2. line_ready' <=> line_buffer # <<>> \/ line_overflow
    BY <1>1 DEF Receiver!EndOfLine
  <1>3. text = <<>> => ~line_overflow /\ line_buffer = <<>>
    BY RoomForLines, RP!Empty DEF RP!IInv
  <1>4. text # <<>> /\ ~line_overflow => line_buffer # <<>>
    <2>1. text \in Seq(0 .. 255)
      BY DEF RP!IInv, RP!TypeOK
    <2>2. Len(RP!Lowered(text)) = Len(text)
      BY <2>1, RoomForLines, RP!LoweredLength
    <2> QED
      BY <2>1, <2>2, EmptySeq DEF RP!IInv
  <1>5. line_ready' => line' = Command(line_buffer', line_overflow')
    BY DEF Byte
  <1>6. line_buffer' = line_buffer /\ line_overflow' = line_overflow /\ text' = text
    BY <1>1 DEF Receiver!EndOfLine
  <1>7. line_ready' => line' = Taken(text)
    BY <1>5, <1>6, LineIsTaken
  <1> QED
    BY <1>2, <1>3, <1>4, <1>6, <1>7 DEF Byte

LEMMA CharacterIsKept ==
    ASSUME RP!IInv, IInv, Byte, stream[read'] \notin Receiver!Terminators
    PROVE  ~line_ready /\ ~line_ready' /\ text' = Append(text, stream[read'])
           /\ executed' = executed
  <1>1. ~line_ready /\ Receiver!Character(stream[read'])
    BY DEF Byte, Goto, RP!IInv, Receiver!FeedByte, Receiver!EndOfLine
  <1> QED
    BY <1>1 DEF Receiver!Character, Byte

LEMMA OneMoreOfStream ==
    ASSUME NEW sent \in Seq(0 .. 255), NEW n \in Nat, n < Len(sent), NEW b \in 0 .. n
    PROVE  /\ SubSeq(sent, b + 1, n + 1) = Append(SubSeq(sent, b + 1, n), sent[n + 1])
           /\ SubSeq(sent, b + 1, n) = <<>> <=> b = n
  <1> DEFINE part == SubSeq(sent, b + 1, n)
             whole == SubSeq(sent, b + 1, n + 1)
             longer == Append(part, sent[n + 1])
  <1>1. Len(sent) \in Nat /\ n + 1 \in 1 .. Len(sent)
    <2>1. Len(sent) \in Nat
      OBVIOUS
    <2> QED
      BY <2>1
  <1>2. \A i \in b + 1 .. n + 1 : sent[i] \in 0 .. 255
    <2> SUFFICES ASSUME NEW i \in b + 1 .. n + 1
                 PROVE  sent[i] \in 0 .. 255
      OBVIOUS
    <2>1. i \in 1 .. Len(sent)
      BY <1>1
    <2> QED
      BY <2>1, ElementOfSeq
  <1>3. sent[n + 1] \in 0 .. 255
    BY <1>2
  <1>4. /\ part \in Seq(0 .. 255) /\ Len(part) = n - b
        /\ \A i \in 1 .. n - b : part[i] = sent[b + i]
    <2>0. \A i \in b + 1 .. n : sent[i] \in 0 .. 255
      BY <1>1, <1>2
    <2>1. /\ part \in Seq(0 .. 255)
          /\ Len(part) = IF b + 1 <= n THEN n - (b + 1) + 1 ELSE 0
          /\ \A i \in 1 .. n - (b + 1) + 1 : part[i] = sent[b + 1 + i - 1]
      BY <2>0, SubSeqProperties
    <2> HIDE DEF part
    <2> QED
      BY <2>1
  <1>5. /\ whole \in Seq(0 .. 255) /\ Len(whole) = n + 1 - b
        /\ \A i \in 1 .. n + 1 - b : whole[i] = sent[b + i]
    <2>1. /\ whole \in Seq(0 .. 255)
          /\ Len(whole) = IF b + 1 <= n + 1 THEN n + 1 - (b + 1) + 1 ELSE 0
          /\ \A i \in 1 .. n + 1 - (b + 1) + 1 : whole[i] = sent[b + 1 + i - 1]
      BY <1>2, SubSeqProperties
    <2> HIDE DEF whole
    <2> QED
      BY <2>1
  <1> HIDE DEF part, whole
  <1>6. /\ longer \in Seq(0 .. 255) /\ Len(longer) = n + 1 - b
        /\ \A i \in 1 .. n - b : longer[i] = part[i]
        /\ longer[n + 1 - b] = sent[n + 1]
    BY <1>3, <1>4, AppendProperties
  <1> HIDE DEF longer
  <1>7. \A i \in 1 .. Len(whole) : whole[i] = longer[i]
    BY <1>4, <1>5, <1>6
  <1>8. whole = longer
    BY <1>5, <1>6, <1>7, SeqEqual
  <1>9. part = <<>> <=> b = n
    BY <1>4, EmptySeq
  <1> QED
    BY <1>8, <1>9 DEF part, whole, longer

(* The lines of the stream grow by the byte that is read.                  *)
LEMMA ByteIsFollowed ==
    ASSUME PartsInv, Executing, level = "whole", InTheReceiver,
           Executed(executed, stream, read), Byte
    PROVE  InTheReceiver' /\ Executed(executed', stream, read')
  <1> DEFINE n == read
             byte == stream[n + 1]
  <1>1. /\ n \in Nat /\ read' = n + 1 /\ n < Len(stream) /\ stream' = stream
        /\ stream \in Seq(0 .. 255)
    <2>1. /\ read' \in Nat /\ read < read' /\ read' \leq accepted
          /\ stream' = stream /\ read' = read + 1
      BY ByteIsRead DEF PartsInv
    <2>2. stream \in Seq(0 .. 255) /\ Len(stream) \in Nat
      BY StreamOfBytes DEF PartsInv
    <2> QED
      BY <2>1, <2>2 DEF PartsInv, Endpoint
  <1>2. ~line_ready
    BY DEF PartsInv, RP!IInv, Byte, Goto
  <1>3. PICK b \in Breaks(stream, n) :
            IsLast(stream, b, n) /\ text = SubSeq(stream, b + 1, n)
    BY <1>2 DEF InTheReceiver
  <1>4. b \in 0 .. n
    BY <1>1, <1>3, BreaksBounds
  <1>5. /\ SubSeq(stream, b + 1, n + 1) = Append(text, byte)
        /\ text = <<>> <=> b = n
    BY <1>1, <1>3, <1>4, OneMoreOfStream
  <1>6. n \in Breaks(stream, n) <=> b = n
    BY <1>1, <1>3, <1>4, BreaksBounds DEF IsLast
  <1>7. IsSequence(executed)
    BY DEF Executing
  <1>8. Ends(stream, n + 1) = Ends(stream, n) \cup
             (IF byte \in Receiver!Terminators /\ b # n THEN {n + 1} ELSE {})
    <2>1. Ends(stream, n + 1) = Ends(stream, n) \cup
              (IF byte \in Receiver!Terminators /\ n \notin Breaks(stream, n)
               THEN {n + 1} ELSE {})
      BY <1>1, EndsGrow
    <2> QED
      BY <1>6, <2>1
  <1>9. n + 1 \notin Ends(stream, n)
    BY <1>1, EndsFinite
  <1> HIDE DEF n, byte
  <1>10. CASE byte \in Receiver!Terminators
    <2>1. /\ line_ready' <=> b # n
          /\ line_ready' => executed' = Append(executed, Taken(text))
          /\ ~line_ready' => executed' = executed
          /\ text' = text
      BY <1>1, <1>5, <1>10, LineBecomesReady DEF PartsInv, n, byte
    <2>2. Breaks(stream, n + 1) = Breaks(stream, n) \cup {n + 1}
      BY <1>1, <1>10, BreaksGrow DEF byte
    <2>3. IsLast(stream, n + 1, n + 1)
      BY <1>1, <2>2, BreaksBounds DEF IsLast
    <2>4. InTheReceiver'
      <3>1. ~line_ready' => text' = SubSeq(stream, n + 2, n + 1)
        <4>1. SubSeq(stream, n + 2, n + 1) = <<>>
          BY <1>1, SubSeqEmpty
        <4> QED
          BY <1>5, <2>1, <4>1
      <3>2. n + 1 + 1 = n + 2
        BY <1>1
      <3> QED
        BY <1>1, <2>3, <3>1, <3>2 DEF InTheReceiver, IsLast
    <2>5. CASE b = n
      <3>1. Ends(stream, n + 1) = Ends(stream, n)
        BY <1>8, <2>5
      <3> QED
        BY <1>1, <2>1, <2>4, <2>5, <3>1 DEF Executed, n
    <2>6. CASE b # n
      <3> DEFINE longer == Append(executed, Taken(text))
      <3>1. Ends(stream, n + 1) = Ends(stream, n) \cup {n + 1} /\ n + 1 \notin Ends(stream, n)
        BY <1>10, <1>8, <1>9, <2>6
      <3>2. Cardinality(Ends(stream, n + 1)) = Cardinality(Ends(stream, n)) + 1
        BY <1>1, <3>1, EndsFinite, FS_AddElement
      <3>3. LineTo(stream, n + 1) = Taken(text)
        <4> DEFINE end == n + 1
        <4>1. Begin(stream, end) = b + 1 /\ end - 1 = n
          BY <1>1, <1>3, BeginIsLast
        <4> HIDE DEF end
        <4>2. LineTo(stream, end) = Taken(SubSeq(stream, b + 1, n))
          BY <4>1 DEF LineTo
        <4> QED
          BY <1>3, <4>2 DEF end
      <3>4. /\ Len(longer) = Len(executed) + 1 /\ Len(executed) \in Nat
            /\ \A i \in 1 .. Len(executed) : longer[i] = executed[i]
            /\ longer[Len(executed) + 1] = Taken(text)
        BY <1>7, SequenceGrows DEF IsSequence
      <3> HIDE DEF longer
      <3>5. Len(executed) = Cardinality(Ends(stream, n))
        BY DEF Executed, n
      <3>6. ASSUME NEW end \in Ends(stream, n)
            PROVE  longer[NumberOf(stream, end)] = LineTo(stream, end)
        <4>1. NumberOf(stream, end) \in 1 .. Len(executed)
          BY <1>1, <3>5, EndsOfPrefix
        <4>2. executed[NumberOf(stream, end)] = LineTo(stream, end)
          BY DEF Executed, n
        <4> QED
          BY <3>4, <4>1, <4>2
      <3>7. longer[NumberOf(stream, n + 1)] = LineTo(stream, n + 1)
        BY <3>2, <3>3, <3>4, <3>5 DEF NumberOf
      <3>8. Executed(longer, stream, n + 1)
        BY <3>1, <3>2, <3>4, <3>5, <3>6, <3>7 DEF Executed
      <3> QED
        BY <1>1, <2>1, <2>4, <2>6, <3>8 DEF longer
    <2> QED
      BY <2>5, <2>6
  <1>11. CASE byte \notin Receiver!Terminators
    <2>1. ~line_ready' /\ text' = Append(text, byte) /\ executed' = executed
      BY <1>1, <1>11, CharacterIsKept DEF PartsInv, n, byte
    <2>2. Breaks(stream, n + 1) = Breaks(stream, n) /\ Ends(stream, n + 1) = Ends(stream, n)
      <3>1. Breaks(stream, n + 1) = Breaks(stream, n)
        <4>1. Breaks(stream, n + 1) = Breaks(stream, n) \cup
                 (IF byte \in Receiver!Terminators THEN {n + 1} ELSE {})
          BY <1>1, BreaksGrow DEF byte
        <4> QED
          BY <1>11, <4>1
      <3> QED
        BY <1>11, <1>8, <3>1
    <2>3. IsLast(stream, b, n + 1)
      BY <1>3, <2>2 DEF IsLast
    <2>4. InTheReceiver'
      BY <1>1, <1>5, <2>1, <2>3 DEF InTheReceiver, IsLast
    <2> QED
      BY <1>1, <2>1, <2>2, <2>4 DEF Executed, n
  <1> QED
    BY <1>10, <1>11

LEMMA FollowingKept ==
    PartsInv /\ Executing /\ Following /\ [FirmwareNext]_firmware => Following'
  <1> SUFFICES ASSUME PartsInv, Executing, Following, [FirmwareNext]_firmware,
                      level' = "whole"
               PROVE  InTheReceiver' /\ Executed(executed', stream', read')
    BY DEF Following, Executed, IsLast
  <1>1. CASE Byte
    <2>1. level = "whole" /\ stream' = stream
      BY <1>1, ByteIsRead DEF PartsInv
    <2> QED
      BY <1>1, <2>1, ByteIsFollowed DEF Following
  <1>2. CASE Idle \/ Work \/ SendAnswer \/ HostSends \/ HostFetches \/ Fault_N
             \/ UNCHANGED firmware
    <2>1. /\ level = "whole" /\ read' = read /\ stream' = stream /\ executed' = executed
          /\ line_ready' = line_ready /\ text' = text
      BY <1>2 DEF Idle, Work, SendAnswer, HostSends, HostFetches, Fault_N, firmware,
                  receiver, endpoint, history, Channel!Send, Channel!Accept, Channel!Fetch
    <2> QED
      BY <2>1 DEF Following, InTheReceiver
  <1>3. CASE Nothing \/ Answered
    <2>1. /\ level = "whole" /\ read' = read /\ stream' = stream /\ executed' = executed
          /\ Receiver!Poll
      BY <1>3 DEF Nothing, Answered, endpoint, history, Channel!Return
    <2>2. PICK b \in Breaks(stream, read) :
              /\ IsLast(stream, b, read)
              /\ IF line_ready THEN b = read ELSE text = SubSeq(stream, b + 1, read)
      BY <2>1 DEF Following, InTheReceiver
    <2>3. CASE line_ready
      <3>1. ~line_ready' /\ text' = <<>>
        BY <2>1, <2>3 DEF Receiver!Poll
      <3>2. SubSeq(stream, b + 1, read) = <<>>
        BY <2>2, <2>3, SubSeqEmpty DEF PartsInv, Endpoint
      <3> QED
        BY <2>1, <2>2, <3>1, <3>2 DEF Following, InTheReceiver
    <2>4. CASE ~line_ready
      BY <2>1, <2>2, <2>4 DEF Receiver!Poll, Following, InTheReceiver
    <2> QED
      BY <2>3, <2>4
  <1>4. CASE HostRequests \/ PowerOn
    BY <1>4 DEF HostRequests, Channel!Lose, PowerOn
  <1> QED
    BY <1>1, <1>2, <1>3, <1>4 DEF FirmwareNext, Main

(* From the byte the endpoint acknowledges to the call of process_line:    *)
(* until a request of the host or a reset comes between, the firmware      *)
(* executes exactly the lines of the stream, each once, in order, and      *)
(* whole, or refuses them as spoilt.                                       *)
THEOREM LinesInOrderAlways == FirmwareSpec => []LinesInOrder
  <1>1. FirmwareInit => Executing /\ Following
    <2> SUFFICES ASSUME FirmwareInit
                 PROVE  Executing /\ Following
      OBVIOUS
    <2>1. /\ executed = <<>> /\ line = NoLine /\ read = 0 /\ text = <<>>
          /\ line_ready = FALSE
      BY DEF FirmwareInit, Init, Channel!Init, Receiver!Init
    <2>2. Executing
      BY <2>1, EmptySeq DEF Executing, IsSequence
    <2>3. Breaks(stream, 0) = {0}
      BY BreaksBounds
    <2>4. SubSeq(stream, 0 + 1, 0) = <<>>
      BY SubSeqEmpty
    <2>5. InTheReceiver
      <3>1. 0 \in Breaks(stream, read) /\ IsLast(stream, 0, read)
        BY <2>1, <2>3 DEF IsLast
      <3>2. ~line_ready /\ text = SubSeq(stream, 0 + 1, read)
        BY <2>1, <2>4
      <3> QED
        BY <3>1, <3>2 DEF InTheReceiver
    <2>6. Ends(stream, 0) = {}
      BY EndsFinite
    <2>7. Executed(executed, stream, read)
      BY <2>1, <2>6, EmptySeq, FS_EmptySet DEF Executed
    <2> QED
      BY <2>2, <2>5, <2>7 DEF Following
  <1>2. PartsInv /\ Executing /\ Following /\ [FirmwareNext]_firmware
          => Executing' /\ Following'
    BY ExecutingKept, FollowingKept DEF PartsInv
  <1>3. Following => LinesInOrder
    BY DEF Following, Executed, LinesInOrder
  <1> QED
    BY <1>1, <1>2, <1>3, PartsInvariance, Steps, PTL
=============================================================================
