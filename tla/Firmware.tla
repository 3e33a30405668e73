------------------------------- MODULE Firmware -------------------------------
(***************************************************************************)
(* The whole program of the dongle (main in ch552_main.c): bytes of the     *)
(* host, taken from the data endpoint one at a time and fed to the line     *)
(* receiver, each followed by a poll of the command core, which works on    *)
(* the line the receiver has ready, switches the DUT and sends an answer.   *)
(*                                                                          *)
(* The core is ReplugCore, the receiver LineWords, both as they are.  The   *)
(* endpoint is DataChannel, which UsbBulk implements; the races after which *)
(* DataChannel promises nothing are left to UsbBulk.                        *)
(***************************************************************************)
EXTENDS ReplugCore, FiniteSets

CONSTANTS
    Streams,                 \* what the host may send, byte by byte
    Spelling,                \* the bytes of the text of a word
    REPLUG_LINE_CAPACITY,
    MaxPacket,
    MaxText                  \* the longest line in a stream

ASSUME FirmwareAssumption ==
    /\ REPLUG_LINE_CAPACITY \in Nat \ {0} /\ MaxText \in Nat /\ MaxPacket \in Nat
    /\ \A stream \in Streams : stream \in Seq(0 .. 255)
    /\ \A s, t \in DOMAIN Spelling : Spelling[s] = Spelling[t] => s = t

VARIABLES
    line_buffer, line_ready, line_overflow, text,   \* of the receiver
    accepted, read, sending, delivered, level,      \* of the endpoint
    stream,                                         \* what the host sends
    executed                                        \* lines handed to process_line

receiver == <<line_buffer, line_ready, line_overflow, text>>
endpoint == <<accepted, read, sending, delivered, level>>
history == <<stream, executed>>
firmware == <<vars, receiver, endpoint, history>>

Channel == INSTANCE DataChannel
Receiver == INSTANCE LineWords WITH
    pc <- IF pc = "main" THEN "main" ELSE "poll", Bytes <- 0 .. 255

(* The words process_line finds in the buffer.  Too many of them it refuses *)
(* as it does an overflow.                                                 *)
Unknown == "?"
TextOf(word) ==
    IF \E t \in DOMAIN Spelling : Spelling[t] = word
    THEN CHOOSE t \in DOMAIN Spelling : Spelling[t] = word ELSE Unknown
Command(buffer, overflow) ==
    LET words == Receiver!tokenize(buffer)
        Of(word) == [text |-> TextOf(word), number |-> parse_u16(word)] IN
    [overflow |-> overflow \/ words.argc > REPLUG_MAX_ARGS,
     args |-> IF overflow THEN <<>> ELSE [i \in DOMAIN words.args |-> Of(words.args[i])]]

FirmwareInit ==
    /\ Init /\ Receiver!Init /\ Channel!Init
    /\ stream \in Streams /\ executed = <<>>

-----------------------------------------------------------------------------
(* usb_cdc_available, usb_cdc_read and replug_core_feed_byte; a poll follows. *)
Byte ==
    /\ Channel!ReadByte /\ Goto("main", "poll")
    /\ Receiver!FeedByte(stream[read'])
    /\ line' = IF line_ready' THEN Command(line_buffer', line_overflow') ELSE NoLine
    /\ executed' = IF line_ready' THEN Append(executed, line') ELSE executed
    /\ UNCHANGED <<ret, reply, remaining, wait, target_is_on, pins, clocks, stream>>

(* No byte to read: the core is polled for the sake of the fault input.    *)
Idle ==
    /\ level = "whole" => read = accepted
    /\ MainLoop
    /\ UNCHANGED <<receiver, endpoint, history>>

(* The core works on the line; when it is done, the line is forgotten.     *)
Work ==
    /\ \/ PollFault \/ HandleOn \/ HandleOff \/ HandleCycle \/ AnswerAtOnce
       \/ TargetOff \/ TargetOn \/ DelayCycle \/ Tick
    /\ UNCHANGED <<receiver, endpoint, history>>

Nothing ==
    /\ NothingToAnswer /\ Receiver!Poll
    /\ UNCHANGED <<endpoint, history>>

SendAnswer ==
    /\ Send /\ Channel!Send
    /\ UNCHANGED <<receiver, history>>

Answered ==
    /\ PollDone /\ Receiver!Poll /\ Channel!Return
    /\ UNCHANGED history

Main == Byte \/ Idle \/ Work \/ Nothing \/ SendAnswer \/ Answered

-----------------------------------------------------------------------------
(* The interrupts of the host's packets, and its requests.                 *)
HostSends ==
    /\ Channel!Accept /\ accepted' \leq Len(stream)
    /\ UNCHANGED <<vars, receiver, history>>

HostFetches ==
    /\ Channel!Fetch
    /\ UNCHANGED <<vars, receiver, history>>

HostRequests ==
    /\ ~sending /\ Channel!Lose
    /\ UNCHANGED <<vars, receiver, history>>

Fault_N == FaultChanges /\ UNCHANGED <<receiver, endpoint, history>>

(* The processor starts anew; what was in the endpoint's buffer is lost.   *)
PowerOn ==
    /\ level = "whole" /\ level' = "lossy"
    /\ Restart /\ Receiver!Restart
    /\ sending' = FALSE
    /\ UNCHANGED <<accepted, read, delivered, history>>

FirmwareNext == \/ Main \/ HostSends \/ HostFetches \/ HostRequests \/ Fault_N \/ PowerOn

FirmwareSpec == FirmwareInit /\ [][FirmwareNext]_firmware /\ WF_firmware(Main)

-----------------------------------------------------------------------------
(* What process_line is to be called with for a line as it is sent.        *)
Taken(part) ==
    IF Receiver!Acceptable(part)
    THEN Command([i \in DOMAIN part |-> Receiver!Lower(part[i])], FALSE)
    ELSE Command(<<>>, TRUE)

(* The lines of the first n bytes, by where they end.                      *)
Breaks(sent, n) == {0} \cup {i \in 1 .. n : sent[i] \in Receiver!Terminators}
Ends(sent, n) == {i \in Breaks(sent, n) : i > 1 /\ i - 1 \notin Breaks(sent, n)}
Begin(sent, end) ==
    1 + CHOOSE i \in Breaks(sent, end - 1) : \A j \in Breaks(sent, end - 1) : j \leq i
LineTo(sent, end) == Taken(SubSeq(sent, Begin(sent, end), end - 1))
NumberOf(sent, end) == Cardinality(Ends(sent, end))

(* The firmware executes exactly the lines of the stream, as far as it has  *)
(* read it, in order and each once, whatever the packets they came in and   *)
(* however long the commands before them took; a spoilt line is refused.   *)
LinesInOrder ==
    level = "whole" =>
        /\ Len(executed) = Cardinality(Ends(stream, read))
        /\ \A end \in Ends(stream, read) :
               executed[NumberOf(stream, end)] = LineTo(stream, end)

(* Also across resets and lost bytes, the DUT only has power after a command *)
(* when an `on` or a `cycle` was executed and no `off` after it.           *)
PowerAsAsked ==
    power /\ pc \in {"main", "send", "sending"} =>
        \E i \in DOMAIN executed :
            /\ IsOn(executed[i]) \/ IsCycle(executed[i])
            /\ \A j \in i + 1 .. Len(executed) : ~IsOff(executed[j])

States == {State(on, f) : on, f \in BOOLEAN}
Tells(r) ==
    \/ r = OK /\ power = ~IsOff(line)
    \/ \E f \in BOOLEAN : r = State(power, f)
    \/ r \in Replies \ ({OK} \cup States)

(* However late the host fetches an answer, what it says of the DUT's power *)
(* is still true then.                                                     *)
AnswerTrueWhenFetched ==
    [][delivered' # delivered /\ delivered' # {} => Tells(reply)]_firmware

(* Every line the endpoint has acknowledged is executed and answered in the *)
(* end, the host fetching the answers or not.                              *)
EveryLineAnswered ==
    <>[](level = "whole"
            => Len(executed) = Cardinality(Ends(stream, accepted)) /\ line = NoLine)
=============================================================================
