----------------------------- MODULE HostSession -----------------------------
(***************************************************************************)
(* The two host tools, portpulse.c and usb_replug.py, against the dongle.   *)
(* Sessions of either tool follow each other: each opens the port, writes   *)
(* one command, reads one line with a time limit, and closes the port.      *)
(*                                                                          *)
(* The dongle takes its commands one by one, and for `on` and `cycle` it    *)
(* takes its time.  The line to it may fall silent for any time, as when    *)
(* the host is suspended: then nothing passes, but the dongle goes on.      *)
(* Time is counted in ticks of a length the instance chooses; what is due   *)
(* happens before the next tick.  Sessions are numbered, and an answer      *)
(* bears the number of the command it belongs to.                           *)
(***************************************************************************)
EXTENDS Integers, Sequences

CONSTANTS
    Tools,                   \* "portpulse", "usb_replug" or both
    Timeouts,                \* what --timeout of usb_replug is given, or its default
    Commands,                \* records: name, and delay, the argument of a cycle
    NoDelay,                 \* a cycle without argument
    DEFAULT_CYCLE_DELAY,     \* in ticks, as all the times below
    SETTLE,                  \* the settle times of target_on
    NATIVE_TIMEOUT,          \* VTIME, ReadTotalTimeoutConstant
    CYCLE_MARGIN,            \* what usb_replug adds to the time of a cycle
    TX_PATIENCE,             \* how long the dongle waits to be asked for an answer
    LineMayFail,             \* whether the line may fall silent
    MaxSessions              \* bound

ToolNames == {"portpulse", "usb_replug"}
Command == [name : {"status", "on", "cycle"}, delay : Nat \cup {NoDelay}]

ASSUME HostAssumption ==
    /\ Tools \subseteq ToolNames /\ Timeouts \subseteq Nat \ {0}
    /\ Commands \subseteq Command /\ LineMayFail \in BOOLEAN
    /\ {DEFAULT_CYCLE_DELAY, SETTLE, NATIVE_TIMEOUT, CYCLE_MARGIN,
        TX_PATIENCE, MaxSessions} \subseteq Nat \ {0}

(* What usb_replug adds to the delay covers what target_on adds to it.     *)
ASSUME MarginAssumption == SETTLE < CYCLE_MARGIN

VARIABLES
    host,     \* the session under way
    sent,     \* commands that the dongle has not taken, the oldest first
    arrived,  \* the first of them is in the dongle's endpoint
    device,   \* the dongle: stage, session of its command, time left
    input,    \* answers in the operating system's buffer
    line,     \* FALSE while nothing passes between host and dongle
    result    \* what the last session reported

vars == <<host, sent, arrived, device, input, line, result>>

Delay(command) ==
    IF command.delay = NoDelay THEN DEFAULT_CYCLE_DELAY ELSE command.delay

\* mutant: the time of the cycle without a margin for what comes after it
effective_timeout_NoMargin(timeout, command) ==
    IF command.name = "cycle" /\ Delay(command) > timeout THEN Delay(command) ELSE timeout

(* effective_timeout_s: for a cycle, at least its time and two seconds.    *)
effective_timeout(timeout, command) ==
    IF command.name = "cycle" /\ Delay(command) + CYCLE_MARGIN > timeout
    THEN Delay(command) + CYCLE_MARGIN ELSE timeout

Limit(tool, timeout, command) ==
    IF tool = "usb_replug" THEN effective_timeout(timeout, command) ELSE NATIVE_TIMEOUT

(* How long the dongle works on a command that meets no fault.             *)
Duration(command) ==
    CASE command.name = "status" -> 0
      [] command.name = "on" -> SETTLE
      [] command.name = "cycle" -> Delay(command) + SETTLE

NoCommand == [name |-> "status", delay |-> NoDelay]
Waiting == [stage |-> "waiting", session |-> 0, left |-> 0]
Closed == [stage |-> "closed", tool |-> "portpulse", session |-> 0, command |-> NoCommand,
           limit |-> 0, spent |-> 0, ahead |-> {}, failed |-> FALSE]

Init ==
    /\ host = Closed /\ sent = <<>> /\ arrived = FALSE /\ device = Waiting
    /\ input = <<>> /\ line = TRUE
    /\ result = [session |-> 0, answer |-> 0]

-----------------------------------------------------------------------------
Open(tool, timeout, command) ==
    /\ host.stage = "closed" /\ result.session < MaxSessions
    /\ host' = [stage |-> "opened", tool |-> tool, session |-> result.session + 1,
                command |-> command, limit |-> Limit(tool, timeout, command),
                spent |-> 0, ahead |-> {}, failed |-> ~line]
    /\ UNCHANGED <<sent, arrived, device, input, line, result>>

(* The sessions whose commands the dongle still has to answer.             *)
UnderWay ==
    {sent[i].session : i \in DOMAIN sent}
        \cup (IF device.stage = "waiting" THEN {} ELSE {device.session})

WriteTo(stage, buffer) ==
    /\ host.stage = "opened"
    /\ host' = [host EXCEPT !.stage = stage, !.ahead = UnderWay]
    /\ sent' = Append(sent, [session |-> host.session, command |-> host.command])
    /\ input' = buffer
    /\ UNCHANGED <<arrived, device, line, result>>

\* mutant: usb_replug takes what it finds in the buffer
Write_Unemptied ==
    WriteTo(IF host.tool = "usb_replug" THEN "writing" ELSE "reading", input)

\* mutant: usb_replug reads while its command waits in the host
Write_Unflushed ==
    WriteTo("reading", IF host.tool = "usb_replug" THEN <<>> ELSE input)

(* usb_replug empties the buffer and then waits until the command has left  *)
(* the host; portpulse takes what it finds, and reads at once.             *)
Write ==
    IF host.tool = "usb_replug" THEN WriteTo("writing", <<>>) ELSE WriteTo("reading", input)

(* The endpoint of the dongle has room for one command at a time.          *)
Flushed == sent = <<>> \/ (Len(sent) = 1 /\ arrived)

Flush ==
    /\ host.stage = "writing" /\ Flushed
    /\ host' = [host EXCEPT !.stage = "reading"]
    /\ UNCHANGED <<sent, arrived, device, input, line, result>>

(* The session is over; answer 0 stands for the time limit.  What is left  *)
(* in the buffer when the port is closed may be there when it is opened,    *)
(* and what has not left the host may be lost.                             *)
Finish(answer, left) ==
    /\ host' = Closed
    /\ result' = [session |-> host.session, answer |-> answer]
    /\ input' \in {left, <<>>}
    /\ sent' \in {sent, IF arrived THEN <<Head(sent)>> ELSE <<>>}
    /\ UNCHANGED <<arrived, device, line>>

\* mutant: the line is left in the buffer
ReadLine_Peek ==
    /\ host.stage = "reading" /\ input # <<>>
    /\ Finish(Head(input), input)

ReadLine ==
    /\ host.stage = "reading" /\ input # <<>>
    /\ Finish(Head(input), Tail(input))

TimedOut == host.stage = "reading" /\ input = <<>> /\ host.spent \geq host.limit

\* mutant: an empty read is tried again
ReadTimesOut_Again ==
    /\ TimedOut
    /\ host' = [host EXCEPT !.spent = 0]
    /\ UNCHANGED <<sent, arrived, device, input, line, result>>

ReadTimesOut == TimedOut /\ Finish(0, <<>>)

-----------------------------------------------------------------------------
(* The dongle.  A line is fed to the core when the main loop is back.      *)
CommandArrives ==
    /\ line /\ sent # <<>> /\ ~arrived
    /\ arrived' = TRUE
    /\ UNCHANGED <<host, sent, device, input, line, result>>

TakeCommand ==
    /\ device.stage = "waiting" /\ arrived
    /\ device' = [stage |-> "working", session |-> Head(sent).session,
                  left |-> Duration(Head(sent).command)]
    /\ sent' = Tail(sent) /\ arrived' = FALSE
    /\ UNCHANGED <<host, input, line, result>>

(* A fault ends the command early, with an ERR line.                       *)
AnswerReady ==
    /\ device.stage = "working"
    /\ device' = [device EXCEPT !.stage = "sending", !.left = TX_PATIENCE]
    /\ UNCHANGED <<host, sent, arrived, input, line, result>>

(* An open port asks for answers; usb_cdc_flush gives up when nobody does. *)
Asked == line /\ host.stage # "closed"

AnswerFetched ==
    /\ device.stage = "sending" /\ Asked
    /\ device' = Waiting
    /\ input' = Append(input, device.session)
    /\ UNCHANGED <<host, sent, arrived, line, result>>

AnswerDropped ==
    /\ device.stage = "sending" /\ ~Asked /\ device.left = 0
    /\ device' = Waiting
    /\ UNCHANGED <<host, sent, arrived, input, line, result>>

LineChanges ==
    /\ LineMayFail /\ line' = ~line
    /\ host' = IF line /\ host.stage # "closed" THEN [host EXCEPT !.failed = TRUE] ELSE host
    /\ UNCHANGED <<sent, arrived, device, input, result>>

(* What is due happens before time passes.                                 *)
Due ==
    \/ host.stage = "opened"
    \/ host.stage = "writing" /\ Flushed
    \/ host.stage = "reading" /\ input # <<>>
    \/ TimedOut
    \/ line /\ sent # <<>> /\ ~arrived
    \/ device.stage = "waiting" /\ arrived
    \/ device.stage # "waiting" /\ device.left = 0
    \/ device.stage = "sending" /\ Asked

Tick ==
    /\ ~Due
    /\ host.stage = "reading" \/ device.stage # "waiting"
    /\ host' = IF host.stage = "reading" THEN [host EXCEPT !.spent = @ + 1] ELSE host
    /\ device' = IF device.stage # "waiting" THEN [device EXCEPT !.left = @ - 1] ELSE device
    /\ UNCHANGED <<sent, arrived, input, line, result>>

Next ==
    \/ \E tool \in Tools, timeout \in Timeouts, command \in Commands :
           Open(tool, timeout, command)
    \/ Write \/ Flush \/ ReadLine \/ ReadTimesOut
    \/ CommandArrives \/ TakeCommand \/ AnswerReady \/ AnswerFetched \/ AnswerDropped
    \/ LineChanges \/ Tick

Spec == Init /\ [][Next]_vars

(* Time passes, the dongle works, and a session under way goes on; no       *)
(* session has to be opened, and a silent line may stay silent for ever.    *)
FairSpec ==
    Spec /\ WF_vars(Write \/ Flush \/ ReadLine \/ ReadTimesOut
                    \/ CommandArrives \/ TakeCommand \/ AnswerFetched \/ AnswerDropped
                    \/ (device.left = 0 /\ AnswerReady) \/ Tick)

-----------------------------------------------------------------------------
Sessions == 0 .. MaxSessions
Stages == {"closed", "opened", "writing", "reading"}
SomeCommand == Commands \cup {NoCommand}

Sent == [session : Sessions, command : SomeCommand]
Host == [stage : Stages, tool : ToolNames, session : Sessions, command : SomeCommand,
         limit : Nat, spent : Nat, ahead : SUBSET Sessions, failed : BOOLEAN]
Dongle == [stage : {"waiting", "working", "sending"}, session : Sessions, left : Nat]
Result == [session : Sessions, answer : Sessions]

(* No session reads beyond its time limit, and that of usb_replug runs only *)
(* once its command is in the dongle (transact flushes before it reads).    *)
TypeOK ==
    /\ host \in Host /\ device \in Dongle /\ result \in Result
    /\ sent \in Seq(Sent) /\ input \in Seq(Sessions)
    /\ arrived \in BOOLEAN /\ line \in BOOLEAN
    /\ arrived => sent # <<>>
    /\ host.spent \leq host.limit
    /\ host.stage = "reading" /\ host.tool = "usb_replug" => Flushed

Closes == host.stage = "reading" /\ host'.stage = "closed"

(* Answers left in the buffer by earlier sessions are never taken for the   *)
(* answer of a session of usb_replug (transact empties the buffer).  What   *)
(* it may print, other than its own answer, is that of a command that was   *)
(* still under way when it wrote its own.                                   *)
OwnAnswer ==
    [][Closes /\ host.tool = "usb_replug"
           => result'.answer \in {0, host.session} \cup host.ahead]_vars

(* usb_replug only says "timed out" of a dongle that is busy with an        *)
(* earlier command or does not answer: a cycle of any length is waited for, *)
(* with any --timeout, and so is a command that takes less than that.       *)
InTime == host.command.name = "cycle" \/ Duration(host.command) < host.limit
EveryCommandReported ==
    [][Closes /\ host.tool = "usb_replug" /\ InTime /\ host.ahead = {} /\ ~host.failed
           => result'.answer = host.session]_vars

(* Answers still to come, the oldest first.                                *)
Pending ==
    input \o (IF device.stage = "waiting" THEN <<>> ELSE <<device.session>>)
          \o [i \in DOMAIN sent |-> sent[i].session]

(* Once a session has given up, the sessions after it print answers that   *)
(* are late; but no answer is printed by two sessions, and none after the  *)
(* answer of a later command.                                              *)
AnswersInOrder ==
    /\ \A i, j \in DOMAIN Pending : i < j => Pending[i] < Pending[j]
    /\ result.answer # 0 => \A i \in DOMAIN Pending : result.answer < Pending[i]

(* What the example in the README of portpulse expects: a command that the *)
(* dongle carries out is answered, and with its own answer.                *)
CommandAnswered == result.answer = result.session

(* A session that reads ends, though the line stay silent; and if the line  *)
(* is not silent for ever, so does one that waits for its command to leave. *)
SessionEnds ==
    /\ host.stage = "reading" ~> host.stage = "closed"
    /\ <>[]line => (host.stage # "closed" ~> host.stage = "closed")
=============================================================================
