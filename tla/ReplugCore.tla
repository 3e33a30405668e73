----------------------------- MODULE ReplugCore -----------------------------
(***************************************************************************)
(* The command core of the dongle (replug_core.c) on its board functions    *)
(* (ch552_main.c): the one thread of the main loop that switches the DUT's  *)
(* D+/D- and VBUS, and a FAULT_N input that may change at any moment.       *)
(*                                                                          *)
(* One step is one pin write, one sample of the fault input or one          *)
(* millisecond of board_delay_ms, so that the fault can come between any    *)
(* two of them.  Logical values: TRUE is connected, powered, fault active.  *)
(***************************************************************************)
EXTENDS CommandSet

CONSTANTS
    REPLUG_ON_SETTLE_MS,     \* data connected before power, in target_on
    REPLUG_POWER_SETTLE_MS,  \* power on before the last check of the fault
    REPLUG_DELAY_SLICE_MS,   \* delay_cycle samples the fault this often
    SEND_MS                  \* the longest transport_send_line may take

ASSUME DelayAssumption ==
    /\ REPLUG_ON_SETTLE_MS \in Nat
    /\ REPLUG_POWER_SETTLE_MS \in Nat
    /\ REPLUG_DELAY_SLICE_MS \in Nat \ {0}
    /\ SEND_MS \in Nat

VARIABLES
    pc,            \* where the main loop is
    ret,           \* where target_off returns to
    line,          \* the line received (line_ready, line_buffer), or NoLine
    reply,         \* the answer chosen for it, or NoReply
    remaining,     \* delay_cycle: milliseconds still to wait
    wait,          \* board_delay_ms: milliseconds left of this call
    target_is_on,  \* the core's own idea of the DUT
    data,          \* the P1.1 output: D+/D- connected
    power,         \* the P1.0 output: VBUS switched on
    fault,         \* the P3.0 input: over-current fault active
    \* Clocks of the outputs, in milliseconds, read by no code.
    dataFor,       \* data has been connected for so long
    offFor,        \* power has been off for so long
    faultyFor      \* power has been on with an active fault for so long

control == <<pc, ret, line, reply, remaining, wait, target_is_on>>
pins == <<data, power, fault>>
clocks == <<dataFor, offFor, faultyFor>>
vars == <<control, pins, clocks>>

(* The clocks stop counting where no property tells values apart.          *)
ClockMax ==
    REPLUG_MAX_CYCLE_MS + REPLUG_ON_SETTLE_MS + REPLUG_POWER_SETTLE_MS + SEND_MS + 1

(* The part of a wait delay_cycle hands to board_delay_ms at once.         *)
Slice_AlwaysWhole(n) == REPLUG_DELAY_SLICE_MS  \* mutant: no shorter last one
Slice(n) == IF n > REPLUG_DELAY_SLICE_MS THEN REPLUG_DELAY_SLICE_MS ELSE n

-----------------------------------------------------------------------------
(* board_safe_gpio_init and replug_core_init: the pins are released.       *)
Init ==
    /\ pc = "main" /\ ret = "main"
    /\ line = NoLine /\ reply = NoReply
    /\ remaining = 0 /\ wait = 0
    /\ target_is_on = FALSE /\ data = FALSE /\ power = FALSE
    /\ fault \in BOOLEAN
    /\ dataFor = 0 /\ offFor = 0 /\ faultyFor = 0

Goto(from, to) == pc = from /\ pc' = to

(* The main loop: every byte fed to the core is followed by a poll, and so *)
(* is every round without a byte.  A byte that completes a line makes it   *)
(* ready; the others change nothing here.                                  *)
FeedByte ==
    /\ Goto("main", "poll")
    /\ line' \in Lines
    /\ UNCHANGED <<ret, reply, remaining, wait, target_is_on, pins, clocks>>

MainLoop ==
    /\ Goto("main", "poll")
    /\ UNCHANGED <<ret, line, reply, remaining, wait, target_is_on, pins, clocks>>

(* target_off is a procedure: it goes back to `to`.                        *)
CallTargetOff(from, to) == Goto(from, "off_data") /\ ret' = to

PollFault_NoCheck ==  \* mutant: the poll forgets the fault
    /\ Goto("poll", "process_line")
    /\ UNCHANGED <<ret, line, reply, remaining, wait, target_is_on, pins, clocks>>

PollFault ==
    /\ \/ target_is_on /\ fault /\ CallTargetOff("poll", "process_line")
       \/ ~(target_is_on /\ fault) /\ Goto("poll", "process_line") /\ ret' = ret
    /\ UNCHANGED <<line, reply, remaining, wait, target_is_on, pins, clocks>>

(* Nothing to answer: poll returns, or process_line does.                  *)
NothingToAnswer ==
    /\ Goto("process_line", "main")
    /\ Blank(line)
    /\ line' = NoLine
    /\ UNCHANGED <<ret, reply, remaining, wait, target_is_on, pins, clocks>>

Answer(from, r) == Goto(from, "send") /\ reply' = r

AnswerAtOnce ==
    /\ \/ IsBadArg(line) /\ Answer("process_line", ERR_invalid_arg)
       \/ IsUnknown(line) /\ Answer("process_line", ERR_invalid_command)
       \/ IsInfo(line) /\ Answer("process_line", Info)
       \/ IsFault(line) /\ Answer("process_line", Fault(fault))
       \/ IsStatus(line) /\ Answer("process_line", State(target_is_on, fault))
    /\ UNCHANGED <<ret, line, remaining, wait, target_is_on, pins, clocks>>

HandleOn ==
    /\ IsOn(line)
    /\ Goto("process_line", "target_on")
    /\ UNCHANGED <<ret, line, reply, remaining, wait, target_is_on, pins, clocks>>

HandleOff_KeepsPower ==  \* mutant: answers without target_off
    /\ IsOff(line)
    /\ Answer("process_line", OK)
    /\ UNCHANGED <<ret, line, remaining, wait, target_is_on, pins, clocks>>

HandleOff ==
    /\ IsOff(line)
    /\ CallTargetOff("process_line", "send")
    /\ reply' = OK
    /\ UNCHANGED <<line, remaining, wait, target_is_on, pins, clocks>>

HandleCycle_StaysOn ==  \* mutant: waits without target_off
    /\ IsCycle(line)
    /\ Goto("process_line", "delay_cycle")
    /\ remaining' = cycle_ms(line)
    /\ UNCHANGED <<ret, line, reply, wait, target_is_on, pins, clocks>>

HandleCycle ==
    /\ IsCycle(line)
    /\ CallTargetOff("process_line", "delay_cycle")
    /\ remaining' = cycle_ms(line)
    /\ UNCHANGED <<line, reply, wait, target_is_on, pins, clocks>>

-----------------------------------------------------------------------------
(* target_off: data before power.  The flag is written with the last pin:  *)
(* nothing else reads it.                                                  *)
TargetOffData ==
    /\ Goto("off_data", "off_power")
    /\ data' = FALSE /\ dataFor' = 0
    /\ UNCHANGED <<ret, line, reply, remaining, wait, target_is_on, power,
                   fault, offFor, faultyFor>>

TargetOffPower ==
    /\ Goto("off_power", ret)
    /\ power' = FALSE /\ target_is_on' = FALSE
    /\ offFor' = IF power THEN 0 ELSE offFor
    /\ faultyFor' = 0
    /\ UNCHANGED <<ret, line, reply, remaining, wait, data, fault, dataFor>>

(* target_on: check, data, settle, check, power, settle, check.            *)
GiveUp_StaysOn(from) ==  \* mutant: answers without target_off
    Answer(from, ERR_fault_active) /\ ret' = ret
GiveUp(from) == CallTargetOff(from, "send") /\ reply' = ERR_fault_active

TargetOnCheck ==
    /\ pc = "target_on"
    /\ \/ fault /\ Answer("target_on", ERR_fault_active)
       \/ ~fault /\ Goto("target_on", "on_data") /\ reply' = reply
    /\ UNCHANGED <<ret, line, remaining, wait, target_is_on, pins, clocks>>

TargetOnData_PowerFirst ==  \* mutant: the outputs in the wrong order
    /\ Goto("on_data", "on_settle")
    /\ power' = TRUE /\ offFor' = 0
    /\ wait' = REPLUG_ON_SETTLE_MS
    /\ UNCHANGED <<ret, line, reply, remaining, target_is_on, data, fault,
                   dataFor, faultyFor>>

TargetOnData_NoSettle ==  \* mutant: power follows at once
    /\ Goto("on_data", "on_settle")
    /\ data' = TRUE
    /\ UNCHANGED <<ret, line, reply, remaining, wait, target_is_on, power, fault,
                   clocks>>

TargetOnData ==
    /\ Goto("on_data", "on_settle")
    /\ data' = TRUE
    /\ wait' = REPLUG_ON_SETTLE_MS
    /\ UNCHANGED <<ret, line, reply, remaining, target_is_on, power, fault, clocks>>

TargetOnCheckData ==
    /\ pc = "on_settle" /\ wait = 0
    /\ \/ fault /\ GiveUp("on_settle")
       \/ ~fault /\ Goto("on_settle", "on_power") /\ UNCHANGED <<ret, reply>>
    /\ UNCHANGED <<line, remaining, wait, target_is_on, pins, clocks>>

TargetOnPower ==
    /\ Goto("on_power", "power_settle")
    /\ power' = TRUE
    /\ offFor' = 0
    /\ wait' = REPLUG_POWER_SETTLE_MS
    /\ UNCHANGED <<ret, line, reply, remaining, target_is_on, data, fault,
                   dataFor, faultyFor>>

TargetOnCheckPower ==
    /\ pc = "power_settle" /\ wait = 0
    /\ \/ fault /\ GiveUp("power_settle") /\ UNCHANGED target_is_on
       \/ /\ ~fault /\ Answer("power_settle", OK)
          /\ target_is_on' = TRUE /\ UNCHANGED ret
    /\ UNCHANGED <<line, remaining, wait, pins, clocks>>

-----------------------------------------------------------------------------
(* delay_cycle: slices, each followed by a sample of the fault.  A fault   *)
(* ends the command; the outputs stay off.                                 *)
DelayCycleLoop_LeavesEarly ==  \* mutant: the last slice is not waited for
    /\ \/ /\ remaining > REPLUG_DELAY_SLICE_MS
          /\ Goto("delay_cycle", "slice") /\ wait' = Slice(remaining)
       \/ /\ remaining \leq REPLUG_DELAY_SLICE_MS
          /\ Goto("delay_cycle", "target_on") /\ wait' = wait
    /\ UNCHANGED <<ret, line, reply, remaining, target_is_on, pins, clocks>>

DelayCycleLoop ==
    /\ \/ remaining # 0 /\ Goto("delay_cycle", "slice") /\ wait' = Slice(remaining)
       \/ remaining = 0 /\ Goto("delay_cycle", "target_on") /\ wait' = wait
    /\ UNCHANGED <<ret, line, reply, remaining, target_is_on, pins, clocks>>

DelayCycleCheck_NoProgress ==  \* mutant: the slice is not subtracted
    /\ pc = "slice" /\ wait = 0
    /\ \/ fault /\ Answer("slice", ERR_fault_active)
       \/ ~fault /\ Goto("slice", "delay_cycle") /\ UNCHANGED reply
    /\ UNCHANGED <<ret, line, remaining, wait, target_is_on, pins, clocks>>

DelayCycleCheck ==
    /\ pc = "slice" /\ wait = 0
    /\ \/ fault /\ Answer("slice", ERR_fault_active) /\ UNCHANGED remaining
       \/ /\ ~fault /\ Goto("slice", "delay_cycle") /\ UNCHANGED reply
          /\ remaining' = remaining - Slice(remaining)
    /\ UNCHANGED <<ret, line, wait, target_is_on, pins, clocks>>

(* transport_send_line returns after a while, whether the host took the    *)
(* answer or not; then poll forgets the line.                              *)
Send ==
    /\ Goto("send", "sending")
    /\ wait' \in 0 .. SEND_MS
    /\ UNCHANGED <<ret, line, reply, remaining, target_is_on, pins, clocks>>

PollDone ==
    /\ Goto("sending", "main") /\ wait = 0
    /\ line' = NoLine /\ reply' = NoReply
    /\ UNCHANGED <<ret, remaining, wait, target_is_on, pins, clocks>>

Count(clock, runs) ==
    IF ~runs THEN 0 ELSE IF clock < ClockMax THEN clock + 1 ELSE clock

(* A millisecond of board_delay_ms, or of the transport.                   *)
Tick ==
    /\ wait > 0
    /\ wait' = wait - 1
    /\ dataFor' = Count(dataFor, data)
    /\ offFor' = Count(offFor, ~power)
    /\ faultyFor' = Count(faultyFor, power /\ fault)
    /\ UNCHANGED <<pc, ret, line, reply, remaining, target_is_on, pins>>

-----------------------------------------------------------------------------
(* The current limiter raises and drops FAULT_N when it likes.             *)
FaultChanges ==
    /\ fault' = ~fault
    /\ faultyFor' = 0
    /\ UNCHANGED <<control, data, power, dataFor, offFor>>

(* A reset of the CH552 releases its pins; memory is initialised again.    *)
Restart ==
    /\ pc' = "main" /\ ret' = "main"
    /\ line' = NoLine /\ reply' = NoReply
    /\ remaining' = 0 /\ wait' = 0 /\ target_is_on' = FALSE
    /\ data' = FALSE /\ power' = FALSE
    /\ dataFor' = 0 /\ offFor' = 0 /\ faultyFor' = 0
    /\ UNCHANGED fault

Handlers == HandleOn \/ HandleOff \/ HandleCycle \/ AnswerAtOnce \/ NothingToAnswer
TargetOff == TargetOffData \/ TargetOffPower
TargetOn == \/ TargetOnCheck \/ TargetOnData \/ TargetOnCheckData
            \/ TargetOnPower \/ TargetOnCheckPower
DelayCycle == DelayCycleLoop \/ DelayCycleCheck

(* What the processor does; it never waits for anyone but the clock.       *)
Run == \/ MainLoop \/ FeedByte \/ PollFault \/ Handlers \/ TargetOff
       \/ TargetOn \/ DelayCycle \/ Send \/ PollDone \/ Tick

Next == Run \/ FaultChanges \/ Restart

Spec == Init /\ [][Next]_vars

(* The processor runs on: no step of the main loop waits for the host.     *)
FairSpec == Spec /\ WF_vars(Run)

-----------------------------------------------------------------------------
(* All but the line, which Firmware takes from the receiver.               *)
Typed ==
    /\ pc \in {"main", "poll", "process_line", "off_data", "off_power",
               "target_on", "on_data", "on_settle", "on_power", "power_settle",
               "delay_cycle", "slice", "send", "sending"}
    /\ ret \in {"main", "process_line", "delay_cycle", "send"}
    /\ reply \in Replies \cup {NoReply}
    /\ remaining \in 0 .. REPLUG_MAX_CYCLE_MS
    /\ wait \in Nat
    /\ target_is_on \in BOOLEAN
    /\ data \in BOOLEAN /\ power \in BOOLEAN /\ fault \in BOOLEAN
    /\ dataFor \in Nat /\ offFor \in Nat /\ faultyFor \in Nat

TypeOK == Typed /\ line \in Lines \cup {NoLine}

(* Between commands, and when an answer goes out, the core's flag and the  *)
(* two outputs agree, whatever the fault input did during the sequences:   *)
(* no path through target_on, target_off or delay_cycle leaves the DUT     *)
(* half connected.                                                         *)
OutputsAgree ==
    pc \in {"main", "poll", "process_line", "send", "sending"} =>
        target_is_on = data /\ data = power

(* The DUT is powered without its data lines only between the two writes   *)
(* of target_off.                                                          *)
PowerImpliesData == power => data \/ pc = "off_power"

(* A DUT that is powered while the fault is active is cut off within the   *)
(* longest wait the code can be in: a settle time of target_on or an       *)
(* answer the host does not fetch.                                         *)
FaultReaction ==
    \E ms \in {REPLUG_ON_SETTLE_MS, REPLUG_POWER_SETTLE_MS, SEND_MS} :
        faultyFor \leq ms

(* VBUS is only ever switched on with the data lines connected for the     *)
(* whole settle time before it.                                            *)
PowerAfterData ==
    [][~power /\ power' => data /\ dataFor \geq REPLUG_ON_SETTLE_MS]_vars

(* A cycle keeps VBUS off for the time it was asked for and the settle     *)
(* time of the data lines on top: the slices of delay_cycle add up.        *)
CycleOffTime ==
    [][~power /\ power' /\ IsCycle(line)
         => offFor \geq cycle_ms(line) + REPLUG_ON_SETTLE_MS]_vars

(* Every command is finished: no wait, and no fault at any point of it,    *)
(* keeps the core from taking the next one.                                *)
EveryCommandEnds == line # NoLine ~> line = NoLine

(* A fault that stays active finally leaves the DUT without power, however *)
(* many commands come in.                                                  *)
LastingFaultCutsPower == <>[]fault => <>[]~power

(* The core implements DutSwitch.  The command ends when its answer goes   *)
(* to the transport.                                                       *)
PowerWasCut ==
    /\ IsCycle(line)
    /\ \/ pc \in {"delay_cycle", "slice", "target_on", "on_data", "on_settle",
                  "on_power", "power_settle", "send"}
       \/ pc \in {"off_data", "off_power"} /\ ret = "send"

Abstract == INSTANCE DutSwitch WITH
    job <- IF pc = "sending" THEN NoLine ELSE line,
    answer <- IF pc = "sending" THEN reply ELSE NoReply,
    cut <- PowerWasCut

ImplementsDutSwitch == Abstract!Spec
=============================================================================
