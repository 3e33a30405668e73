# Formal models of the PortPulse replug dongle

PortPulse is a USB dongle on a CH552 (8051) that sits between a host and a
device under test (DUT). Over a CDC serial port it takes text commands (`on`,
`off`, `cycle [port] [ms]`, `status`, `fault`, `version`, `help`) and switches
the DUT's D+/D- lines and its VBUS; an over-current limiter reports on FAULT_N.
Two host programs drive it, `portpulse` (C) and `usb_replug` (Python).

This directory holds TLA+ models of that code, TLC runs and TLAPS proofs.
`PROJECT.json` lists the runs, maps every definition to the lines it models,
and lists hazards, findings and theorems. Paths below are relative to
`src/firmware/CH552/release/source/firmware/` unless they begin with `src/`.

## Inventory

| Part | State it keeps | Operations | What makes it hard | What makes it correct |
|---|---|---|---|---|
| Command core, `src/replug_core.c` | `target_is_on`, the two outputs | handlers of the seven commands, `target_on`, `target_off`, `delay_cycle`, `poll` | the fault input changes at any moment and is only sampled; waits of up to 30 s | outputs, flag and answers agree; D+/D- before VBUS; a fault cuts the power; a cycle is off as long as asked |
| Line receiver and parser, same file | `line_buffer`, `line_length`, `line_ready`, `line_overflow` | `feed_byte`, `tokenize`, `strings_equal`, `parse_u16` | bad bytes and overlong lines anywhere; locals that share memory with the interrupt handler | a line is what was sent, or is refused; the command found is the one sent |
| Board and main loop, `src/ch552_main.c` | pins, Timer 0 | pin writes, `board_delay_ms`, `transport_send_line`, the loop | the loop is interruptible everywhere; reset | always comes back; starts with the DUT off; every line is executed once and answered |
| USB data endpoint, `src/usb_cdc.c` | `ep2_*`, `UEP2_CTRL`, `UEP2_T_LEN`, `endpoint_halt`, the buffer | `available`, `read`, `write`, `flush`; interrupt handler | two actors, one register changed by load-modify-store; lost handshakes; requests at any moment | bytes in order and once; answers whole; no deaf endpoint |
| USB control endpoint, `src/usb_cdc.c` | `control_*`, address, configuration, line coding, `UEP0_*` | 14 requests, data and status stages, bus reset | transfers given up at any stage, packets repeated | a request takes effect once or not at all; answers complete |
| USB descriptors, `src/usb_descriptors.c` | constant tables, serial number | lookup, build the serial number | lengths at packet boundaries | an answer ends where it must; serial numbers tell dongles apart |
| Host tools, `src/host/portpulse/portpulse.c`, `../../host/usb-replug-cli/usb_replug.py` | one session | choose a port, open, write a line, read a line with a time limit | sessions of both tools after each other; late answers; a silent line; any `--timeout` | no answer is printed twice or out of order; a session that waits long enough for an idle dongle gets its own answer; every session ends; the dongle understands what they write |
| Build scripts, register definitions, tests, documents, hardware | | | | not modelled; documents and tests are read for what they claim |

The parts interact as follows. The bus interrupts the main loop: `usb_cdc_isr`
fills the OUT half of the EP2 buffer and sets `ep2_out_length`; the main loop
takes bytes with `usb_cdc_available`/`usb_cdc_read`, gives each to
`replug_core_feed_byte`, and polls the core after each. The core calls the
board functions (pins, delays, fault input) and `transport_send_line`, which
waits in `usb_cdc_write`/`usb_cdc_flush` for the host to fetch a packet or for
`USB_CDC_TX_SPIN_LIMIT` polls. While the core waits in `board_delay_ms` the
endpoint stays at NAK and the host's next bytes stay with the host. The
interrupt handler never calls the core.

## Modules

| Module | Models | Role |
|---|---|---|
| `CommandSet` | what `process_line` and the handlers make of the words of a line | operators, no state |
| `ReplugCore` | command core on its board functions | state machine |
| `DutSwitch` | what the dongle promises: a job, an answer that is true of the switches | abstract specification |
| `MCReplugCore` | lines and times for TLC | instance |
| `ReplugCoreProofs` | | proofs, among them that `ReplugCore` implements `DutSwitch` |
| `LineReceiver` | `feed_byte`, and the poll that follows each byte | state machine |
| `Numbers` | `parse_u16` digit by digit, and the decimal value of a word | operators |
| `NumbersProofs` | | proofs, with the lemmas about recursive functions the other proofs use |
| `LineWords` | `tokenize`, and definitions of a line's words that do not scan | operators on the lines of `LineReceiver` |
| `MCLineWords`, `LineReceiverProofs` | | instance; proofs |
| `ParserOverlay`, `MCParserOverlay` | `strings_equal`, `parse_u16` and the choice of the handler on shared memory, against the interrupt handler | state machine; instance |
| `ParserOverlayProofs` | | proofs |
| `DataChannel` | what EP2 promises the main loop: bytes once and in order, answers whole or cut off | abstract specification |
| `UsbBulk` | EP2: main loop against interrupt handler and host | state machine, implements `DataChannel` |
| `UsbBulkProofs` | | proofs, among them that `UsbBulk` implements `DataChannel` |
| `Firmware`, `MCFirmware` | `main`: `DataChannel`, `LineWords` and `ReplugCore` composed | state machine; instance |
| `FirmwareProofs` | | proofs, put together from those of the parts |
| `UsbControl`, `MCUsbControl` | EP0: device against the host's side of a control transfer | state machine; instance |
| `UsbControlProofs` | | proofs |
| `HostSession`, `MCHostSession` | sessions of both host tools after each other, over a line that may fall silent | state machine; instance |
| `HostCommands` | the lines both host tools write | operators on `CommandSet` |
| `SerialNumber` | the serial number of a dongle, and the choice of a port by it | operators |
| `HostProofs` | | proofs about the three modules above |

Operators named `X_Something` beside a definition `X`, marked "mutant", are
plausible mistakes in the code of `X`. They are used by no specification; each
property is known to fail when one of them takes `X`'s place.

### Command core

A step of `ReplugCore` is one pin write, one sample of the fault input or one
millisecond of a delay, so that `FaultChanges` can come between any two. `pc`
names the place in the C code; `ret` is where the procedure `target_off`
returns to; `remaining` and `wait` are the counters of `delay_cycle` and
`board_delay_ms`. `line` is the line that is ready, cut into words (the job of
`LineWords`); a word has its text and the number `parse_u16` finds in it. The
check of the fault and the following `if` are one step because they are one
access of the pin. `Restart` is a reset of the processor, which releases the
pins. `dataFor`, `offFor` and `faultyFor` are stopwatches that no action reads.

`DutSwitch` forgets places and times. A command is accepted, switches move in
the one order allowed (power comes on only over connected data lines and goes
off after them), and the answer must be true of the switches at that moment.
`ImplementsDutSwitch` is the refinement: `job` is the line until its answer goes
to the transport, `answer` the reply while it is being sent, and `cut` is
derived from the place in a cycle.

### Line receiver

`FeedByte` is one call of `replug_core_feed_byte`, `Poll` the poll after it;
between them the processor may be reset. Bytes are numbers. `text` is a history
variable, the line as the host sent it, which the properties compare the buffer
with. `LineWords` and `Numbers` state `tokenize` and `parse_u16` as recursive
functions that follow the C loops (`Scan` and `Parse` are one turn of them), and
words and numbers once more by where they begin and by the places of their
digits; the most words a line may have (`REPLUG_MAX_ARGS`, three in the code) is a
constant.

`CommandSet` takes the command of a line as given; `ParserOverlay` finds it. SDCC
places the parameters and locals of functions that are not reentrant in one overlay
area, and `artifacts/usb_replug_ch552.mem` shows which share a cell: `right` of
`strings_equal`, its working copy and the operand of the multiplication in
`parse_u16` on one side, `count` of `endpoint0_queue_next` and the parameters of
`usb_descriptor_lookup`, both called by the interrupt handler, on the other. `ram`
holds those cells by what they mean, `cpu` the place and what stays in
registers; `Interrupt` queues a packet of a control answer between any two steps.
A pointer that was overwritten reads any character (`Right`). Characters are their
codes, and the number `CommandSet` takes for a word is `parse_u16` of its characters. `log.name` and
`log.delay` record that process_line used a cell after it was overwritten: the
properties say what is right unless that happened, what is right although it
happened to a delay, and, as a finding, what goes wrong then.

### EP2

`UsbBulk` splits the main loop at every access of a variable the interrupt
handler writes. An assignment `UEP2_CTRL = (UEP2_CTRL & mask) | value` is a load
and a store with the handler possible in between, and so is `ep2_out_index++`,
as the 8051 has no single instruction for either; setting `UEP_T_RES_ACK`, which
is zero, is a single AND. A transaction of the bus and its interrupt are one
step: `bUC_INT_BUSY` makes the controller answer NAK until the handler is done.
The host side has the toggles and repeats a packet whose handshake it missed.
Bytes are numbered; an answer is its two packets, `text` and `crlf` (the lines
of the core are at most 64 bytes long).

The code has real races at those places, so most properties hold only as long
as none of three events happened, which `log.upsets` records: `stale_store` (a
store wrote back a value the handler had changed since the load), `taken_back`
(a packet was withdrawn that the host had received without the device knowing)
and `request` (a control request, reset or suspend came while the main loop
was in `usb_cdc_read` or `transport_send_line`). `Undisturbed` says that none
did. The properties therefore show that these are the only ways to go wrong,
not that nothing does; `OutBackpressure` is one of them in the open, as a
finding. `NeverDeaf` excludes the stale store alone, and `MainReturns` and
`TypeOK` exclude nothing.

`DataChannel` is what is left of all this for the main loop: bytes acknowledged,
bytes read, whether an answer is being sent and what of it has arrived. Its
promise has three levels, and `ImplementsDataChannel` shows that `UsbBulk` keeps
it: `whole` before the first request, `lossy` after one that came between two
calls (acknowledged bytes may be missing, none comes twice), `broken` after a
race.

### The whole program

`Firmware` is the loop of `main`. It takes `ReplugCore` and `LineWords` as they
are and puts `DataChannel` in the place of EP2: `Byte` is `usb_cdc_available`,
`usb_cdc_read` and `feed_byte` in one, `Command` is `tokenize` and `parse_u16` on
the buffer, `Work` are the steps of the core, `SendAnswer` and `Answered` the two
ends of `transport_send_line`. The host sends a stream of bytes in packets of any
size, fetches answers or not, and may send a request between two calls; the
fault input changes at will; `PowerOn` starts the processor anew anywhere.
`executed` is the history of the lines handed to `process_line`, and `LinesInOrder`
compares it with the lines of the stream, found by where they end. The races in
EP2 are left to `UsbBulk` and the ones in the parser to `ParserOverlay`, so
`Firmware` shows what the program does when none of them happens.

### EP0

The device part of `UsbControl` is a function per handler, from the device
record to the device record, named like the C functions; `dev.packet` is the
offset of the bytes in the endpoint buffer. The host part follows the USB
protocol of a control transfer with toggles and repeated packets, and keeps in
`host.settings` what it has been told of the device. A transfer that was given
up may or may not have had its effect: such settings are in `host.doubt` until
a later request decides them. `SettingsAgree` and `AnswerRight` are about the
others. The `Losses` of an instance say in which stages a handshake may get
lost.

### Host sessions

`HostSession` runs one session after another. Each `Open` chooses its tool anew, and
for `usb_replug` its `--timeout`, any positive time: the tools differ in the time
limit, in whether the input buffer is emptied before the command is written, and in
whether the session waits (`flush`) until the command has left the host before it
reads. The dongle takes one command at a time; `Duration` is the time the core
needs, but for a fault, which ends it early. The answer waits for an open port, and
is dropped when nobody asks in time. The line may fall silent at any moment
and for any time: then no command and no answer passes, the dongle's patience and a
read limit run on, and `flush` returns only once the line is back. When a port is
closed, what is left in the buffer may stay or be thrown away, and so may commands
that have not left the host. `host.ahead` are the sessions whose commands were
under way when this one wrote its own, `host.failed` says that the line was silent
during it; both only serve the properties. A tick comes only when nothing that is
due is left to do; how long it is, is up to the instance.

What holds of the tools is less than one would like. Neither tool can tell its own
answer from that of an earlier command that is still to come: `usb_replug` empties
the buffer, which takes away the answers that have arrived and no others. So after
`portpulse cycle` has given up, `usb_replug status` may print the `OK` of the cycle,
and after `portpulse --delay-ms 30000 cycle` it may time out, as may `usb_replug
--timeout 0.1 on` on an idle dongle. `OwnAnswer` and `EveryCommandReported` say
exactly how far it goes: what is printed is the own answer or that of a command
under way when the own one was written; and a session gets its own answer when no
other was under way, the line was up, and the limit is longer than the command
takes, which for `cycle` is so whatever `--timeout` is.

`HostCommands` is the other end of the line: the words both tools write for
what their user asks, in terms of `CommandSet`. A delay is written in decimal
(`printed`, the characters of `%d` and `str`), and its number is `parse_u16` of
those characters. `SerialNumber` has the descriptor
`usb_build_serial_descriptor` builds, byte by byte, and the choice `usb_replug
--serial` makes among the ports listed. Both hold only operators and theorems.

## Runs

| Run | Asks | Bounds, and why they are enough |
|---|---|---|
| `core` | are outputs, flag, order, times and answers right under any fault input; is `DutSwitch` implemented; does every command end, and a lasting fault cut the power | cycles of 3 to 5 ms, slices of 2, settle times 2 and 3, sending up to 1: a cycle of less, more and a multiple of a slice, and waits of different lengths, so that a confusion of any two shows; one line per branch of `process_line`. The safety proofs have no bounds |
| `receiver` | is a line what was sent, or refused; are words and numbers read right | buffer of 6, lines of up to 6: empty, shorter, full and one too long; two words at most, so that a third fits and is refused; both ends of every byte range in the code; digits 0, 3, 5, 6 and the character before the digits, which make 65535, 65536 and leading zeros. The receiver's proofs have no bounds |
| `bulk_steady` | is `DataChannel` implemented without requests, with delivery and backpressure; is every byte read | 3 bytes in packets of up to 2, 2 polls: two packets follow each other, the second while the first is read, each possibly repeated |
| `bulk_requests` | is it implemented, and are answers whole, with one request anywhere | 2 bytes, 2 polls; one request of each of the eight kinds, at any step |
| `bulk_sequences` | halts, deafness and the main loop under sequences of requests | three requests, one byte: set, clear and set a halt, with a packet waiting at any time |
| `control` | effects and answers of requests under loss and abandonment; does every transfer end | 24 SETUP packets: descriptors whose answers are longer, shorter and a multiple of a packet; every request right, most of them also wrong in one parameter; any number of transfers |
| `parser` | is the command found that was sent, and its delay, with the interrupt handler anywhere | one line of each kind, among them a name's beginning and one longer, delays at 99, 100, 30000, 30001 and around 65535, up to three interrupts in a line, queueing 2 or 8 bytes |
| `firmware` | are the lines of a stream executed in order and once, does the DUT have power only as asked, are answers true when fetched, is every line answered | five streams of 9 to 14 bytes in packets of up to 4 into a line buffer of 7 (characters and NUL): CR LF, capitals, an empty line, an overlong and a spoilt one, a port argument, a last line without end; `on`, `off`, `cycle` and `status`; delays of 1 and 2 ms, which `core` varies |
| `host` | which answers can a session of either tool print, when does it give up, does every session end | ticks of 500 ms; three sessions, each of either tool: one that gives up, one that takes its answer or the late one, one after it; `status`, `on`, cycles of 100 ms (one tick), 2 s and 30 s, the least, default and greatest delays; `--timeout` of 500 ms (no longer than `on` takes, in ticks) and the default 5 s; the line falls silent and comes back any number of times. The safety proofs have no bounds |

Three runs (`parser_delay`, `bulk_backpressure`, `host_portpulse`) check a
sentence of the documents or an assertion of a test and find the code doing
something else; see the findings.

Deadlock is checked in all runs but the two of `HostSession`, whose number of
sessions is bounded and which stops after the last one.

### Fairness

- `ReplugCore`: weak fairness of everything the processor does, taken as one
  action. The main loop never waits for the host: `transport_send_line` is
  bounded by `USB_CDC_TX_SPIN_LIMIT`. Nothing is assumed of commands and faults.
- `UsbBulk`: weak fairness of the main loop alone; the host need not fetch
  anything, and repeats packets or not. This is what lets the core model assume
  that sending ends.
- `Firmware`: weak fairness of the main loop, as in `ReplugCore`; the host need not
  fetch an answer, nor send anything. That sending ends is `MainReturns` of
  `UsbBulk`.
- `ParserOverlay`: none.
- `UsbControl`: a host that stays in a transfer repeats what got no handshake
  and some handshake arrives. It may give the transfer up instead.
  `EveryTransferEnds` excuses a transfer whose data packet was taken and its
  handshake lost (`host.repeats`): the device then answers NAK to the repeated
  packet for good and only a new SETUP helps (a hazard listed at
  `src/usb_cdc.c:481`).
- `HostSession`: time passes, the dongle does its work, and a session under way does
  what its code does next. No session need be opened, and the line need not come
  back: `SessionEnds` promises the end of a session that reads in any case, and of one
  that is still writing only if the line is not silent for ever, as nothing limits
  the time of `flush`.

## Findings

| Run | What |
|---|---|
| `parser_delay` | A packet of a control answer queued between the store and the multiplication of the operand in `parse_u16` takes its place: `cycle 100` can wait 2100 ms and is answered `OK`. The shipped image has both sides write cells 0x14 to 0x17. |
| `bulk_backpressure` | `wait_for_tx_ready` changes `UEP2_CTRL` by load and store with interrupts enabled; an OUT packet in between is undone and the endpoint accepts a packet over one that is unread. |
| `host_portpulse` | `portpulse cycle` with its default of 2 s runs into its own read limit of 1 s and reports that there was no response; the late answer is left for the next session, which prints it as its own. `usb_replug.py` waits long enough for every cycle (`EveryCommandReported`), and empties the buffer first; but it takes a late answer for its own too when that arrives after line 159 (see Host sessions). |

## Proofs

TLAPS proves these for all values of the constants that meet the named
assumptions, which TLC evaluates for the instances:

| Assumption | Says | Because |
|---|---|---|
| `LinesAssumption`, `CycleAssumption`, `DelayAssumption` | lines are lines; times are naturals, a slice is at least 1 ms, the default delay lies between the bounds, which fit in 16 bits | constants of `replug_core.c` |
| `ReceiverAssumption`, `WordsAssumption`, `FirmwareAssumption` | bytes are bytes, the buffer has a place, the bounds of an instance are naturals, no two words are spelt alike | `REPLUG_LINE_CAPACITY`, `REPLUG_MAX_ARGS`, the names in `process_line` |
| `OverlayAssumption` | every word has its characters, none of them NUL, and `parse_u16` of them as its number; the names and the port are words; no two words are spelt alike; a packet has 1 to 8 bytes | the line buffer ends at the first NUL; `USB_EP0_SIZE` |
| `BulkAssumption` | requests are of the eight kinds, the bounds of an instance are naturals, a wait makes at least one poll | `USB_CDC_TX_SPIN_LIMIT` |
| `ControlAssumption` | SETUP packets have the fields of one, the line coding after reset is a line coding, a handshake is lost in a stage of a transfer | `usb_setup_packet_t` |
| `HostAssumption` | the tools are among the two, commands are commands, times, every `--timeout` and the number of sessions are positive | both tools; `positive_float` |
| `MarginAssumption` | the margin `usb_replug.py` adds to a cycle (2 s) exceeds the settle times of the core (120 ms) | `usb_replug.py:147` |

- `ReplugCoreProofs`. The safety properties of `core` are not inductive: that a
  cycle was off long enough at the moment of the pin write follows from what
  held at each slice before. `IInv` adds, for each place of the program, where
  the switches are (`Switches`), how far the current wait has come (`Waits`:
  the stopwatch and the rest of the wait add up to the settle time), how much
  off time a cycle has behind it (`OffTime`: `offFor`, `remaining` and `wait`
  add up to the delay) and how long a fault can have been on (`FaultTime`). One
  lemma per group of actions shows that `IInv` is preserved. From it:
  `TypeCorrect`, `OutputsAlwaysAgree`, `PowerAlwaysHasData`, `FaultIsCutOff`,
  `PowerOnlyAfterData`, `CycleKeepsOffTime`. One more invariant (`Commands`): the
  place of the program, the command and the answer chosen fit together. Then
  every step is a step of `DutSwitch` or none: `Refinement`.
- `LineReceiverProofs`. The invariant says of the line being received what
  `LineIntact` says of a line that is ready, and that none is ready when a byte
  is read. The lemmas are about appending to a sequence mapped to lower case.
  From it: `BufferHolds`, `LinesAreIntact`. `WordsAreRight` and `NumbersAreRight`
  say that `tokenize` and `parse_u16` meet their second definitions on every line
  the buffer can hold. `Good` says what `Scan` finds from a cursor on: one word for
  each beginning there, in order, or a refusal when they are too many; `GoodTurn`
  is one turn of the loop and `ScannedGood` goes down from the end of the line.
- `NumbersProofs`. `NumberRead`: `parse_u16` of any word is its decimal value, or a
  refusal when it is no number or does not fit. `SoFar` is the invariant of the
  loop (the digits read, followed by as many zeros as there are digits to come,
  and those make the number); once a product does not fit, the digits to come
  only add to it (`RefusedRightly`). The induction these two need has no theorem of
  the library with an operator as its parameter behind it: `Induction` is stated for
  a set of naturals and follows from the least element of a set (`NatMin`), which
  is the library's well-foundedness of the finite sets under inclusion, and
  `FixedPoint` shows that a function defined by recursion along a measure exists.
- `ParserOverlayProofs`. `FoundAsAsked` is about the end of a line, and what holds
  at the end was learnt a character at a time. `IInv` says, unless an interrupt has
  hit a comparison of this line: the first word is none of the names before the
  one it is compared with (`Comparing`); word and name agree up to the place
  reached and the pointers, if not overwritten, are at it (`Agreeing`); the digits
  read make the number so far, and the operand's loaded byte is the one stored,
  unless a hit on the multiplication is in `log` (`Reading`); and what is found is
  what was asked (`Found`). The cells themselves need not hold their values: what
  has overwritten one is noticed when it is used. From it, for any words and lines
  and any number of interrupts: `CommandFound` and `DelayAtWorst`, that is
  `FoundAsAsked` and `OnlyDelayWrong`: whatever was hit in a multiplication, a cycle
  that is carried out has passed the bounds of `handle_cycle` (`AskedCycle` for a
  delay that is found as asked, `Found` for any other).
- `HostProofs`, serial number. The character at each place of the serial number is a digit of
  one half of one byte of the id (`DigitIsSent`), a digit tells its half byte
  (`HexDigitTells`) and the two halves make the byte (`NibblesMakeByte`).
  Serial numbers are of one length, so one that contains another is the other:
  `SerialTellsApart`, for all ids of five bytes. `SerialSelects` follows for any
  set of attached dongles.
- `HostProofs`, commands. `PrintedRead`: `parse_u16` of the decimal characters of any
  integer is that integer when it has 16 bits, and a refusal when it is greater
  or negative. The quotients by ten come to zero (`QuotientsEnd`), the digits they
  leave make the number (`DigitsMake`, by induction over the divisions), and
  `NumberRead` does the rest. `CommandSet` is expanded once for lines of one word
  and once for `cycle` with a number (`SingleWord`, `CycleWords`); the tools' lines
  are two instances. `ReplugUnderstood` assumes that the tool and the firmware have
  the same bounds, which are 100 and 30000 on both sides; `PortpulseChecked` holds
  for any bounds and any delay an `int` can have. That the characters are those
  `%d` and `str` write is the external part.
- `UsbBulkProofs`. `TypeOK` is proved first, with `Bounds` (the index never
  passes the end of the buffer, the poll counter never wraps). The safety
  properties say what a state is like that took many accesses to reach, so the
  invariant `IInv == TypeOK /\ Bounds /\ Hears /\ Calm` says for each place of the
  main loop what it has loaded and what that tells of the endpoint now. `Hears`
  holds unless a store undid a change; `Calm` unless one of `log.upsets`
  happened. Its parts `Order` (the number of the byte at the index) and
  `Waiting` (what the armed packet holds) carry the refinement. From it:
  `PacketKeptAlways`, `OnlyHostBytesAlways`, `FlushMeansDeliveredAlways`,
  `AnswersIntactAlways`, `HaltsHoldAlways`, `NeverDeafAlways`, and `Refinement`:
  every step that breaks no promise is a step of `DataChannel`, or none.
- `UsbControlProofs`. The invariant relates the two ends of a transfer:
  `Fits` (an answer lies within its source), `Answering` (with `Offer`: device and
  host count the same bytes, but for a packet whose handshake is under way, and a
  zero-length packet follows when a short answer fills its last one),
  `Agreement` (the settings are those the host knows, but for those in doubt),
  `Confirming` (a request was carried out before its status packet; only an
  address is still to come), `Taking` (only the line coding is taken in a data
  stage) and `AnswerRight` itself. A SETUP packet has one of five outcomes
  (`Rejects`, `Ignores`, `Replies`, `Confirms`, `Takes`), one lemma per request
  says which. From it, for any set of requests, line codings and losses:
  `TypeCorrect`, `SettingsAgreeAlways`, `AnswerRightAlways`,
  `AddressAfterStatusAlways`.
- `HostProofs`, sessions. `AnswersInOrder` needs to know where an answer is that is
  not yet printed: `Ordered` says that the input buffer, the dongle and the commands
  it has not taken hold answers in increasing order, each later than those before and
  than the answer printed last. `AllMine` is what emptying the buffer buys: from then
  on, everything that is still to come belongs to this session or to one that was
  under way. `Limited` compares a limit with the time of its command (this is where
  the margin is needed). `Alone` says of a session of `usb_replug` that found the
  dongle idle and the line up that its command is in one place, and that the time it
  has spent and the time the dongle still needs are together no more than its
  duration. From it, for any number of sessions of both tools, any commands and any
  `--timeout`: `TypeCorrect`, `AnswersInOrderAlways`, `OwnAnswerAlways`,
  `EveryCommandReportedAlways`.
- `FirmwareProofs`. A step of the program is a step of `ReplugCore` or hands it a
  line (`CoreStep`), and a step of the receiver or a poll without a byte
  (`ReceiverStep`), so `IInv` and `Commands` of `ReplugCoreProofs` and `IInv` of
  `LineReceiverProofs`, instantiated, hold in the whole program, and with them
  what they imply: `CoreKeepsPromises`, `CoreKeepsTimes`, `LinesStayIntact`,
  `LinesAreRead`. The
  properties of the whole need to know how the parts hang together. For
  `PowerAsAskedAlways`: the line that is worked on is the last one executed
  (`Executing`), and with power on an `on` or `cycle` has been executed and no
  `off` after it, but for one on its way to the outputs (`PoweredAsAsked`). For
  `AnswerTrueWhenFetchedAlways`: an answer that is true when it is chosen
  (`Truthful` of `DutSwitch`) stays so until the loop goes on (`Telling`). For
  `LinesInOrderAlways`: the receiver holds the bytes since the last terminator
  (`InTheReceiver`), and what was executed are the lines up to there
  (`Executed`); a terminator makes a line ready exactly when the stream has one
  more line end.

Only model-checked:

- liveness (`EveryCommandEnds`, `LastingFaultCutsPower`, `EveryByteRead`,
  `MainReturns`, `EveryLineAnswered`, `EveryTransferEnds`, `SessionEnds`), which
  needs reasoning about fairness and ENABLED that the prover does not do.

Every invariant and every safety property of a step that a passing run checks is
also the statement of a theorem. What a theorem does not reach is whether the
words and lines of an instance are those of the code: `LinesInOrderAlways` treats
`Command`, the words and numbers of a line, as an operator it knows nothing of, and
`LinesAreRead` says what they are; the core and `ParserOverlay` take lines as
given by `Lines`.

## Not modelled

- Clock, timer and endpoint set-up and the constant descriptors: register writes
  and data without steps to interleave.
- The line buffer across a bus reset: half a line that was read before it is
  continued by the first line after it. `Firmware` does this, and no property
  is about it, because nothing says what a host may expect.
- Argument parsing and messages of the host tools, the listing of ports by the
  operating system and what may happen between listing and opening one, and
  two tools on one port at a time.
- Electrical behaviour: the limiter is a fault input that may change at will. The
  order of latch and direction writes in `board_safe_gpio_init` is inside the one
  step `Restart`; `tests/test_gpio_safety.py` compares it.
- Build scripts, hardware files and reports.

## Plan

Done: all modules above, and proofs of every safety property for the core, the
receiver and parser, EP2, EP0, the sessions, the whole program, the serial number
and the commands of the tools.

Next, if the host tools get a way to tell their answers apart (an answer that names
its command, or a read that goes on until it does), `OwnAnswer` can be restated
without `host.ahead`. Nothing is planned for the firmware as it is.
