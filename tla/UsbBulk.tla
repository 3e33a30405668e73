------------------------------- MODULE UsbBulk -------------------------------
(***************************************************************************)
(* Endpoint 2 of the CDC interface (usb_cdc.c): the bytes of commands come  *)
(* in over EP2 OUT, the lines of answers leave over EP2 IN.                 *)
(*                                                                          *)
(* Two actors share the endpoint's variables and its control register       *)
(* UEP2_CTRL: the main loop, which can be interrupted between any two       *)
(* accesses, and the handler usb_cdc_isr, which the main loop never         *)
(* interrupts.  A step of the main loop makes one access to what the        *)
(* handler writes too; a step of the bus is a whole transaction with its    *)
(* interrupt (bUC_INT_BUSY makes the bus wait for the handler).  The        *)
(* assignments to UEP2_CTRL in usb_cdc_read and wait_for_tx_ready are a     *)
(* load and a store of the register; the one in usb_cdc_write is a single   *)
(* AND, because UEP_T_RES_ACK is zero.                                      *)
(*                                                                          *)
(* Bytes are numbered in the order the host sends them.  An answer is two   *)
(* writes, "text" and "crlf"; each fits into one packet.                    *)
(***************************************************************************)
EXTENDS Integers

CONSTANTS
    Requests,     \* the control requests and bus events that may occur
    MaxRequests,  \* bound: how many of them
    MaxBytes,     \* bound: how many bytes the host sends
    MaxPacket,    \* bound: the bytes of an OUT packet (64 in the hardware)
    USB_CDC_TX_SPIN_LIMIT

AllRequests ==
    {"deconfigure", "configure", "bus_reset", "suspend",
     "halt_out", "halt_in", "clear_out", "clear_in"}

ASSUME BulkAssumption ==
    /\ Requests \subseteq AllRequests
    /\ MaxRequests \in Nat /\ MaxBytes \in Nat /\ MaxPacket \in Nat
    /\ USB_CDC_TX_SPIN_LIMIT \in Nat \ {0}

VARIABLES
    dev,   \* what the main loop and the interrupt handler share
    cpu,   \* the main loop: its place, and what it has loaded
    host,  \* the host's end of the endpoint
    log    \* what happened; read by no code

vars == <<dev, cpu, host, log>>

(* What may go wrong between the two actors: a store undid a change by the *)
(* bus; a packet was taken back that the host has received, so that it will *)
(* take the next one for a repetition; a request came while the main loop  *)
(* was reading a byte or sending a line.                                   *)
AllUpsets == {"stale_store", "taken_back", "request"}
Upset(kind, condition) ==
    log' = [log EXCEPT !.upsets = IF condition THEN @ \cup {kind} ELSE @]

ReadPlaces ==
    {"available", "available_length", "available_index", "read", "read_index",
     "read_length", "load_index", "store_index", "read_byte", "compare_length",
     "compare_index", "clear_index", "clear_length", "rearm_load",
     "rearm_configuration", "rearm_halt", "rearm_store", "feed"}
SendPlaces ==    \* in transport_send_line
    {"write", "write_halt", "wait", "wait_configuration", "wait_halt", "cancel_busy",
     "cancel_length", "cancel_load", "cancel_halt", "cancel_store", "copy",
     "arm_busy", "arm_length", "arm"}
Pieces == {"text", "crlf"}
Responses == {"ACK", "NAK", "STALL"}
Control == [r_tog : BOOLEAN, t_tog : BOOLEAN, r : Responses, t : Responses]

OutResponse(configuration) == IF configuration = 0 THEN "NAK" ELSE "ACK"
InResponse(halted) == IF halted THEN "STALL" ELSE "NAK"
HaltResponse_Ignored == "ACK"    \* mutant: the packet read, the halt is over
HaltResponse == IF dev.halt_out THEN "STALL" ELSE "ACK"
RearmResponse == IF dev.current_configuration = 0 THEN "NAK" ELSE HaltResponse

(* reset_data_endpoints: toggles, halts and both packets are forgotten.    *)
Fresh(configuration) ==
    [current_configuration |-> configuration,
     ep2_out_length |-> 0, ep2_out_index |-> 0, ep2_tx_busy |-> FALSE,
     halt_out |-> FALSE, halt_in |-> FALSE,    \* endpoint_halt
     UEP2_CTRL |-> [r_tog |-> FALSE, t_tog |-> FALSE,
                    r |-> OutResponse(configuration), t |-> "NAK"],
     UEP2_T_LEN |-> "none",                    \* the piece it is the length of
     rx_base |-> 0, tx_piece |-> "none"]       \* the two halves of usb_ep2_buffer

(* The main loop between two calls: what it had loaded is forgotten.       *)
Returned ==
    [pc |-> "available", acc |-> 0, ctrl |-> Fresh(0).UEP2_CTRL, res |-> "NAK",
     value |-> "nul", piece |-> "flush", spins |-> 0]

Init ==
    /\ \E configuration \in {0, 1} : dev = Fresh(configuration)
    /\ cpu = Returned
    /\ host = [out |-> FALSE, in |-> FALSE,    \* its data toggles
               retry |-> FALSE,                \* it missed the last handshake
               size |-> 0,                     \* of its last packet
               requests |-> 0]
    /\ log = [sent |-> 0, read |-> 0,          \* numbers of bytes
              got |-> "none",                  \* the last piece the host received
              delivered |-> {},                \* all it received of this answer
              upsets |-> {}]                   \* the races that happened

-----------------------------------------------------------------------------
At(place) == cpu.pc = place
Go(place) == cpu' = [cpu EXCEPT !.pc = place]
Load(place, n) == cpu' = [cpu EXCEPT !.pc = place, !.acc = n]
LoadControl(place) == cpu' = [cpu EXCEPT !.pc = place, !.ctrl = dev.UEP2_CTRL]
Response(place, r) == cpu' = [cpu EXCEPT !.pc = place, !.res = r]
Feed(byte) == cpu' = [Returned EXCEPT !.pc = "feed", !.value = byte]
Return == cpu' = Returned

\* mutant: usb_cdc_available does not count the last byte
Available_OffByOne ==
    \/ At("available")
         /\ IF dev.current_configuration = 0 THEN Return ELSE Go("available_length")
    \/ At("available_length") /\ Load("available_index", dev.ep2_out_length)
    \/ At("available_index")
         /\ IF cpu.acc \leq dev.ep2_out_index + 1
            THEN Return ELSE cpu' = [Returned EXCEPT !.pc = "read"]

(* usb_cdc_available: the difference of two bytes, one read after the other. *)
Available ==
    \/ At("available")
         /\ IF dev.current_configuration = 0 THEN Return ELSE Go("available_length")
    \/ At("available_length") /\ Load("available_index", dev.ep2_out_length)
    \/ At("available_index")
         /\ IF cpu.acc = dev.ep2_out_index
            THEN Return ELSE cpu' = [Returned EXCEPT !.pc = "read"]

(* usb_cdc_read up to the byte.                                            *)
Read ==
    \/ At("read") /\ dev.current_configuration = 0 /\ Feed("nul")
    \/ At("read") /\ dev.current_configuration # 0 /\ Go("read_index")
    \/ At("read_index") /\ Load("read_length", dev.ep2_out_index)
    \/ At("read_length") /\ cpu.acc \geq dev.ep2_out_length /\ Feed("nul")
    \/ At("read_length") /\ cpu.acc < dev.ep2_out_length /\ Go("load_index")
    \/ At("load_index") /\ Load("store_index", dev.ep2_out_index)
    \/ At("compare_length") /\ Load("compare_index", dev.ep2_out_length)
    \/ At("compare_index")
         /\ IF dev.ep2_out_index = cpu.acc THEN Go("clear_index") ELSE Feed("byte")

(* After the last byte: what UEP2_CTRL shall say of the next packet.       *)
Rearm ==
    \/ At("rearm_load") /\ LoadControl("rearm_configuration")
    \/ At("rearm_configuration") /\ dev.current_configuration = 0
         /\ Response("rearm_store", "NAK")
    \/ At("rearm_configuration") /\ dev.current_configuration # 0 /\ Go("rearm_halt")
    \/ At("rearm_halt")
         /\ Response("rearm_store", HaltResponse)

(* replug_core_feed_byte and the poll after it: the byte may have ended a  *)
(* line, and the line may have an answer.                                  *)
FeedByte == At("feed") /\ Return

(* usb_cdc_write, up to the wait.                                          *)
Write ==
    \/ At("write")
         /\ IF dev.current_configuration = 0 THEN Return ELSE Go("write_halt")
    \/ At("write_halt") /\ dev.halt_in /\ Return
    \/ At("write_halt") /\ ~dev.halt_in
         /\ cpu' = [cpu EXCEPT !.pc = "wait", !.spins = USB_CDC_TX_SPIN_LIMIT]

(* wait_for_tx_ready: until the packet before is gone, or not to be; one   *)
(* poll, and what follows when it finds the packet still there.            *)
GiveUp_LeavesArmed == Return    \* mutant: the packet is not taken back
GiveUp == Go("cancel_busy")

\* mutants: the count of the polls is tested before it is lowered; a packet
\* nobody fetches is waited for forever
PollAgain_LateTest ==
    cpu' = [cpu EXCEPT !.pc = IF cpu.spins = 0 THEN "cancel_busy" ELSE "wait",
                       !.spins = @ - 1]
PollAgain_Forever == Go("wait")
PollAgain ==
    IF cpu.spins = 1 THEN GiveUp ELSE cpu' = [cpu EXCEPT !.pc = "wait", !.spins = @ - 1]

Wait ==
    \/ At("wait") /\ dev.ep2_tx_busy /\ Go("wait_configuration")
    \/ At("wait") /\ ~dev.ep2_tx_busy
         /\ IF cpu.piece = "flush" THEN Return ELSE Go("copy")
    \/ At("wait_configuration")
         /\ IF dev.current_configuration = 0 THEN GiveUp ELSE Go("wait_halt")
    \/ At("wait_halt") /\ IF dev.halt_in THEN GiveUp ELSE PollAgain

(* What UEP2_CTRL shall say once the packet is taken back.                 *)
Cancel ==
    \/ At("cancel_load") /\ LoadControl("cancel_halt")
    \/ At("cancel_halt") /\ Response("cancel_store", InResponse(dev.halt_in))

-----------------------------------------------------------------------------
(* The steps that write.                                                   *)
Store(from, to, new) ==
    /\ At(from) /\ Go(to)
    /\ dev' = new
    /\ UNCHANGED <<host, log>>

StoreIndex ==
    /\ At("store_index") /\ Go("read_byte")
    /\ dev' = [dev EXCEPT !.ep2_out_index = cpu.acc + 1]
    /\ Upset("stale_store", cpu.acc # dev.ep2_out_index)
    /\ UNCHANGED host
ClearIndex_Forgotten == Store("clear_index", "clear_length", dev) \* mutant: keeps the index
ClearIndex == Store("clear_index", "clear_length", [dev EXCEPT !.ep2_out_index = 0])
ClearLength_Forgotten == Store("clear_length", "rearm_load", dev) \* mutant: keeps the length
ClearLength == Store("clear_length", "rearm_load", [dev EXCEPT !.ep2_out_length = 0])
CancelBusy == Store("cancel_busy", "cancel_length", [dev EXCEPT !.ep2_tx_busy = FALSE])
CancelLength ==
    Store("cancel_length", "cancel_load", [dev EXCEPT !.UEP2_T_LEN = "none"])
Copy == Store("copy", "arm_busy", [dev EXCEPT !.tx_piece = cpu.piece])
ArmBusy_Forgotten == Store("arm_busy", "arm_length", dev) \* mutant: nobody waits for it
ArmBusy == Store("arm_busy", "arm_length", [dev EXCEPT !.ep2_tx_busy = TRUE])
ArmLength == Store("arm_length", "arm", [dev EXCEPT !.UEP2_T_LEN = cpu.piece])

(* The packet is armed; the next write follows, or the flush.              *)
Flush == [cpu EXCEPT !.pc = "wait", !.piece = "flush", !.spins = USB_CDC_TX_SPIN_LIMIT]
Armed_TextOnly == Flush    \* mutant: the end of the line is not sent
Armed == IF cpu.piece = "text" THEN [cpu EXCEPT !.pc = "write", !.piece = "crlf"] ELSE Flush

Arm ==
    /\ At("arm") /\ cpu' = Armed
    /\ dev' = [dev EXCEPT !.UEP2_CTRL.t = "ACK"]
    /\ UNCHANGED <<host, log>>

(* The store that ends a load-modify-store of UEP2_CTRL.  It is stale if   *)
(* an assignment nobody interrupted would store another value now.         *)
RearmStore ==
    LET stored == [cpu.ctrl EXCEPT !.r = cpu.res]
        fresh == [dev.UEP2_CTRL EXCEPT !.r = RearmResponse] IN
    /\ At("rearm_store") /\ Feed("byte")
    /\ dev' = [dev EXCEPT !.UEP2_CTRL = stored]
    /\ Upset("stale_store", stored # fresh)
    /\ UNCHANGED host

CancelStore ==
    LET stored == [cpu.ctrl EXCEPT !.t = cpu.res]
        fresh == [dev.UEP2_CTRL EXCEPT !.t = InResponse(dev.halt_in)] IN
    /\ At("cancel_store") /\ Return
    /\ dev' = [dev EXCEPT !.UEP2_CTRL = stored]
    /\ log' = [log EXCEPT !.upsets =
                 @ \cup (IF stored # fresh THEN {"stale_store"} ELSE {})
                   \cup (IF host.in # stored.t_tog THEN {"taken_back"} ELSE {})]
    /\ UNCHANGED host

ReadByte ==
    /\ At("read_byte") /\ Go("compare_length")
    /\ log' = [log EXCEPT !.read = dev.rx_base + cpu.acc + 1]
    /\ UNCHANGED <<dev, host>>

TransportSendLine ==
    /\ At("feed") /\ cpu.value = "byte"
    /\ cpu' = [cpu EXCEPT !.pc = "write", !.piece = "text"]
    /\ log' = [log EXCEPT !.delivered = {}]
    /\ UNCHANGED <<dev, host>>

Looks == Available \/ Read \/ Rearm \/ FeedByte \/ Write \/ Wait \/ Cancel

Main == \/ Looks /\ UNCHANGED <<dev, host, log>>
        \/ StoreIndex \/ ReadByte \/ ClearIndex \/ ClearLength \/ RearmStore
        \/ TransportSendLine \/ CancelBusy \/ CancelLength \/ CancelStore
        \/ Copy \/ ArmBusy \/ ArmLength \/ Arm

-----------------------------------------------------------------------------
(* What the handler makes of an OUT packet of n bytes.                     *)
Discarded ==
    [dev EXCEPT !.ep2_out_length = 0, !.ep2_out_index = 0, !.UEP2_CTRL.r = "NAK"]
Taken(n, base, r) ==
    [dev EXCEPT !.ep2_out_length = n, !.ep2_out_index = 0, !.rx_base = base,
                !.UEP2_CTRL.r = r]
\* mutants: the endpoint keeps saying ACK while a packet waits to be read;
\* an empty packet is waited on like any other
PacketResponse_StaysArmed(n) == HaltResponse
PacketResponse_EmptyNaks(n) == IF dev.halt_out THEN "STALL" ELSE "NAK"
PacketResponse(n) ==
    IF dev.halt_out THEN "STALL" ELSE IF n = 0 THEN "ACK" ELSE "NAK"

\* mutant: a packet is taken whatever its toggle
OutHandled_NoToggle(n, base) ==
    IF dev.current_configuration = 0 THEN Discarded ELSE Taken(n, base, PacketResponse(n))

(* The handler ignores a packet with the wrong toggle: the host repeats one *)
(* whose handshake it missed.                                              *)
OutHandled(n, base) ==
    IF dev.current_configuration = 0 THEN Discarded
    ELSE IF host.out # dev.UEP2_CTRL.r_tog THEN dev
    ELSE Taken(n, base, PacketResponse(n))

(* A packet is received while the endpoint says ACK.                       *)
OutPacket(n, handshake) ==
    LET base == IF host.retry THEN log.sent - n ELSE log.sent IN
    /\ dev.UEP2_CTRL.r = "ACK"
    /\ host.retry => n = host.size
    /\ base + n \leq MaxBytes
    /\ dev' = [OutHandled(n, base) EXCEPT
                 !.UEP2_CTRL.r_tog = IF host.out = @ THEN ~@ ELSE @]
    /\ host' = [host EXCEPT !.retry = ~handshake, !.size = IF handshake THEN 0 ELSE n,
                            !.out = IF handshake THEN ~@ ELSE @]
    /\ log' = [log EXCEPT !.sent = base + n]
    /\ UNCHANGED cpu

(* An IN token finds the endpoint armed: what the host receives depends on *)
(* the length and on the buffer.  It drops a packet it knows by its        *)
(* toggle.  Without its handshake the device goes on offering the packet.  *)
Offered == IF dev.UEP2_T_LEN \in {"none", dev.tx_piece} THEN dev.UEP2_T_LEN ELSE "mixed"

InHandled ==
    [dev EXCEPT !.UEP2_T_LEN = "none", !.ep2_tx_busy = FALSE,
                !.UEP2_CTRL.t_tog = ~@, !.UEP2_CTRL.t = InResponse(dev.halt_in)]

InPacket(handshake) ==
    LET new == host.in = dev.UEP2_CTRL.t_tog IN
    /\ dev.UEP2_CTRL.t = "ACK"
    /\ dev' = IF handshake THEN InHandled ELSE dev
    /\ host' = [host EXCEPT !.in = IF new THEN ~@ ELSE @]
    /\ log' = IF new /\ Offered # "none"
              THEN [log EXCEPT !.got = Offered, !.delivered = @ \cup {Offered}]
              ELSE log
    /\ UNCHANGED cpu

(* Control requests and bus events: the state they leave behind.           *)
Handled(request) ==
    CASE request = "configure" -> Fresh(1)
      [] request \in {"deconfigure", "bus_reset"} -> Fresh(0)
      [] request = "suspend" ->
           [dev EXCEPT !.ep2_tx_busy = FALSE, !.UEP2_T_LEN = "none",
                       !.UEP2_CTRL.t = InResponse(dev.halt_in)]
      [] request = "halt_out" ->
           [dev EXCEPT !.halt_out = TRUE, !.UEP2_CTRL.r = "STALL"]
      [] request = "halt_in" ->
           [dev EXCEPT !.halt_in = TRUE, !.ep2_tx_busy = FALSE, !.UEP2_T_LEN = "none",
                       !.UEP2_CTRL.t = "STALL"]
      [] request = "clear_out" ->
           [dev EXCEPT !.halt_out = FALSE, !.ep2_out_length = 0, !.ep2_out_index = 0,
                       !.UEP2_CTRL = [@ EXCEPT !.r_tog = FALSE, !.r = "ACK"]]
      [] request = "clear_in" ->
           [dev EXCEPT !.halt_in = FALSE, !.ep2_tx_busy = FALSE, !.UEP2_T_LEN = "none",
                       !.UEP2_CTRL = [@ EXCEPT !.t_tog = FALSE, !.t = "NAK"]]

Between == {"available", "available_length", "feed"}

(* The host resets its toggles with the device's.                          *)
Request(request) ==
    LET both == {"configure", "deconfigure", "bus_reset"} IN
    /\ host.requests < MaxRequests
    /\ dev' = [Handled(request) EXCEPT !.rx_base = dev.rx_base,
                                       !.tx_piece = dev.tx_piece]
    /\ host' = [host EXCEPT
                  !.requests = @ + 1,
                  !.out = IF request \in both \cup {"clear_out"} THEN FALSE ELSE @,
                  !.retry = IF request \in both \cup {"clear_out"} THEN FALSE ELSE @,
                  !.size = IF request \in both \cup {"clear_out"} THEN 0 ELSE @,
                  !.in = IF request \in both \cup {"clear_in"} THEN FALSE ELSE @]
    /\ Upset("request", cpu.pc \notin Between)
    /\ UNCHANGED cpu

Bus == \/ \E n \in 0 .. MaxPacket, handshake \in BOOLEAN : OutPacket(n, handshake)
       \/ \E handshake \in BOOLEAN : InPacket(handshake)
       \/ \E request \in Requests : Request(request)

Next == Main \/ Bus

Spec == Init /\ [][Next]_vars

FairSpec == Spec /\ WF_vars(Main)

-----------------------------------------------------------------------------
Byte == 0 .. MaxBytes
Offers == Pieces \cup {"none", "mixed"}

Device == [current_configuration : {0, 1},
           ep2_out_length : 0 .. MaxPacket, ep2_out_index : 0 .. MaxPacket,
           ep2_tx_busy : BOOLEAN, halt_out : BOOLEAN, halt_in : BOOLEAN,
           UEP2_CTRL : Control, UEP2_T_LEN : Pieces \cup {"none"},
           rx_base : Byte, tx_piece : Pieces \cup {"none"}]
Processor == [pc : ReadPlaces \cup SendPlaces, acc : 0 .. MaxPacket,
              ctrl : Control, res : Responses, value : {"nul", "byte"},
              piece : Pieces \cup {"flush"}, spins : 0 .. USB_CDC_TX_SPIN_LIMIT]
HostEnd == [out : BOOLEAN, in : BOOLEAN, retry : BOOLEAN, size : 0 .. MaxPacket,
            requests : 0 .. MaxRequests]
Log == [sent : Byte, read : 0 .. MaxBytes + MaxPacket, got : Offers,
        delivered : SUBSET Offers, upsets : SUBSET AllUpsets]

(* The type invariant.  Whatever the races, ep2_out_index never passes the  *)
(* end of the buffer, and the count of the polls never wraps below zero.   *)
TypeOK == dev \in Device /\ cpu \in Processor /\ host \in HostEnd /\ log \in Log

(* The races of AllUpsets are the only ways to what the next properties     *)
(* exclude: as long as none of them happened, ...                          *)
Undisturbed == log.upsets = {}

(* ... the endpoint refuses packets while there are bytes to read (the     *)
(* buffer has room for one packet, and the handler overwrites its length); *)
PacketKept == Undisturbed /\ dev.UEP2_CTRL.r = "ACK" => dev.ep2_out_length = 0

(* ... the command parser is fed bytes of the host only, never the zero of *)
(* an usb_cdc_read that found nothing to read;                             *)
OnlyHostBytes == Undisturbed /\ At("feed") => cpu.value = "byte"

(* ... usb_cdc_flush returns success only when the host has both parts of  *)
(* the line;                                                               *)
FlushMeansDelivered ==
    Undisturbed /\ At("wait") /\ cpu.piece = "flush" /\ ~dev.ep2_tx_busy
        => log.delivered = Pieces

(* ... the host is never sent the buffer of one packet with the length of  *)
(* another: usb_cdc_write does not touch the buffer of an armed endpoint;  *)
AnswersIntact == Undisturbed => log.got # "mixed"

(* ... a halted endpoint answers STALL, also after the main loop has read  *)
(* the packet that was waiting or given up the one it was sending.         *)
HaltsHold ==
    /\ Undisturbed /\ dev.halt_out => dev.UEP2_CTRL.r = "STALL"
    /\ Undisturbed /\ dev.halt_in /\ At("available") => dev.UEP2_CTRL.t = "STALL"

(* What the main loop sees of the endpoint is DataChannel: usb_cdc_read     *)
(* delivers every byte once and in order, whatever packets are repeated;   *)
(* when requests in between threw packets away, at least no byte is read   *)
(* twice; an answer arrives as text and end, and not after its call; and   *)
(* the races of AllUpsets are the only ways out of that.                   *)
Channel == INSTANCE DataChannel WITH
    accepted <- log.sent, read <- log.read, delivered <- log.delivered,
    sending <- cpu.pc \in SendPlaces,
    level <- IF ~Undisturbed THEN "broken"
             ELSE IF host.requests = 0 THEN "whole" ELSE "lossy"

ImplementsDataChannel == Channel!Spec

(* Unless a store undid a change by the bus, a configured endpoint that is *)
(* not halted and has nothing to read accepts packets: it never goes deaf. *)
NeverDeaf ==
    /\ At("available") /\ "stale_store" \notin log.upsets
    /\ dev.current_configuration # 0 /\ ~dev.halt_out /\ dev.ep2_out_length = 0
    => dev.UEP2_CTRL.r = "ACK"

(* Whatever the bus does, and if the host never fetches an answer, the main *)
(* loop comes back to ask for bytes and to poll the fault input.           *)
MainReturns == []<>At("available")

(* Every byte the device accepted is read in the end, the host fetching the *)
(* answers or not.                                                         *)
EveryByteRead ==
    \A k \in 1 .. MaxBytes : log.sent \geq k ~> log.read \geq k \/ ~Undisturbed

(* The test of the endpoint (test_usb_cdc.c, "bulk OUT backpressure"): a   *)
(* packet that waits to be read keeps the endpoint from accepting another. *)
OutBackpressure == dev.UEP2_CTRL.r = "ACK" => dev.ep2_out_length = 0
=============================================================================
