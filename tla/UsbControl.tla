------------------------------ MODULE UsbControl ------------------------------
(***************************************************************************)
(* Endpoint 0 of the CDC interface (usb_cdc.c): control transfers.          *)
(*                                                                          *)
(* The device side is what usb_cdc_isr does to its own state, one step per  *)
(* transaction.  The host side is the protocol of a control transfer: a     *)
(* SETUP packet, a data stage in packets of eight bytes, a status stage in  *)
(* the other direction, packets told apart by their toggles.  A handshake   *)
(* may be lost in the stages Losses names, the host may give a transfer up  *)
(* and start another, and it may reset the bus.                             *)
(***************************************************************************)
EXTENDS Integers, FiniteSets

CONSTANTS
    Setups,       \* the SETUP packets the host may send
    Codings,      \* the line codings it may set, and the one of usb_cdc_init
    DefaultCoding,
    Losses        \* the stages in which a handshake may be lost

USB_EP0_SIZE == 8
USB_SERIAL_DESCRIPTOR_LENGTH == 32
LINE_CODING_SIZE == 7
Stages == {"idle", "data_in", "data_out", "status_in", "status_out"}
RequestTypes == {"00", "01", "02", "21", "80", "81", "82", "A1", "C0"}

SetupType == [type : RequestTypes, request : STRING,
              value : Nat, index : Nat, length : Nat]

ASSUME ControlAssumption ==
    /\ Setups \subseteq SetupType
    /\ DefaultCoding \in Codings
    /\ Losses \subseteq Stages \ {"idle"}

VARIABLES
    dev,    \* the device
    host    \* the host and its transfer

vars == <<dev, host>>

NoAnswer == <<"none", 0>>
NoSetup == [type |-> "00", request |-> "none", value |-> 0, index |-> 0, length |-> 0]

-----------------------------------------------------------------------------
(* What the handlers do with the endpoint: d is the device before.         *)
Control(r_tog, t_tog, r, t) == [r_tog |-> r_tog, t_tog |-> t_tog, r |-> r, t |-> t]

endpoint0_stall(d) ==
    [d EXCEPT !.UEP0_T_LEN = 0, !.UEP0_CTRL = Control(TRUE, TRUE, "STALL", "STALL"),
              !.control_state = "IDLE"]

endpoint0_status_in(d) ==
    [d EXCEPT !.UEP0_T_LEN = 0, !.UEP0_CTRL = Control(TRUE, TRUE, "ACK", "ACK"),
              !.control_state = "STATUS_IN"]

PacketSize_Full(remaining) == USB_EP0_SIZE    \* mutant: every packet is full
PacketSize(remaining) == IF remaining > USB_EP0_SIZE THEN USB_EP0_SIZE ELSE remaining

(* The next packet of the answer, the empty one that ends it, or nothing.  *)
endpoint0_queue_next(d) ==
    LET count == PacketSize(d.control_remaining)
    IN  IF d.control_remaining # 0
        THEN [d EXCEPT !.control_pointer = @ + count, !.control_remaining = @ - count,
                       !.packet = d.control_pointer, !.UEP0_T_LEN = count,
                       !.UEP0_CTRL.t = "ACK"]
        ELSE IF d.control_send_zlp
        THEN [d EXCEPT !.control_send_zlp = FALSE, !.UEP0_T_LEN = 0, !.UEP0_CTRL.t = "ACK"]
        ELSE [d EXCEPT !.UEP0_T_LEN = 0, !.UEP0_CTRL.t = "NAK", !.control_state = "IDLE"]

SendLength_Whole(available, requested) == available  \* mutant: more than was asked for
SendLength(available, requested) == IF available > requested THEN requested ELSE available

(* An answer shorter than asked for must end in a packet that is not full. *)
SendZlp_Never(send_length, requested) == FALSE       \* mutant: forgets the empty packet
SendZlp(send_length, requested) ==
    send_length < requested /\ send_length % USB_EP0_SIZE = 0

endpoint0_start_in(d, answer, available, requested) ==
    LET send_length == SendLength(available, requested) IN
    endpoint0_queue_next(
        [d EXCEPT !.answer = answer, !.control_pointer = 0,
                  !.control_remaining = send_length,
                  !.control_send_zlp = SendZlp(send_length, requested),
                  !.control_state = "IN_DATA"])

(* usb_descriptor_lookup with the serial number, which is built at start;  *)
(* zero stands for no descriptor.                                          *)
DescriptorLength(descriptor_type, descriptor_index) ==
    CASE descriptor_type = 1 /\ descriptor_index = 0 -> 18
      [] descriptor_type = 2 /\ descriptor_index = 0 -> 75
      [] descriptor_type = 3 /\ descriptor_index = 0 -> 4
      [] descriptor_type = 3 /\ descriptor_index = 1 -> 20
      [] descriptor_type = 3 /\ descriptor_index = 2 -> 52
      [] descriptor_type = 3 /\ descriptor_index = 3 -> USB_SERIAL_DESCRIPTOR_LENGTH
      [] descriptor_type = 3 /\ descriptor_index = 4 -> 24
      [] OTHER -> 0

(* The language must be US English for a string, zero for all others.      *)
handle_get_descriptor(d, s) ==
    LET descriptor_type == s.value \div 256
        descriptor_index == s.value % 256
        available == DescriptorLength(descriptor_type, descriptor_index)
        language == IF descriptor_type = 3 /\ descriptor_index # 0 THEN 1033 ELSE 0
    IN  IF available # 0 /\ s.index = language
        THEN endpoint0_start_in(d, <<"descriptor", s.value>>, available, s.length)
        ELSE endpoint0_stall(d)

Is(s, types, values, indexes, length) ==
    s.type \in types /\ s.value \in values /\ s.index \in indexes /\ s.length = length

Halts == {129, 2, 130}    \* the endpoints EP1 IN, EP2 OUT and EP2 IN

(* What reset_data_endpoints leaves of the state this module keeps.        *)
Configured(d, value) == [d EXCEPT !.current_configuration = value, !.endpoint_halt = {}]

IsStatusRequest(s) ==
    \/ Is(s, {"80"}, {0}, {0}, 2)
    \/ Is(s, {"81"}, {0}, {0, 1}, 2)
    \/ Is(s, {"82"}, {0}, {0, 128} \cup Halts, 2)

(* A standard request with the right parameters.                           *)
Accepted(d, s) ==
    CASE s.request = "SET_ADDRESS" ->
           endpoint0_status_in([d EXCEPT !.pending_address = s.value,
                                         !.address_pending = TRUE])
      [] s.request = "SET_CONFIGURATION" -> endpoint0_status_in(Configured(d, s.value))
      [] s.request = "CLEAR_FEATURE" ->
           endpoint0_status_in([d EXCEPT !.endpoint_halt = @ \ {s.index}])
      [] s.request = "SET_FEATURE" ->
           endpoint0_status_in([d EXCEPT !.endpoint_halt = @ \cup {s.index}])
      [] s.request = "SET_INTERFACE" -> endpoint0_status_in(d)
      [] s.request = "GET_CONFIGURATION" ->
           endpoint0_start_in(d, <<"configuration", d.current_configuration>>, 1, s.length)
      [] s.request = "GET_INTERFACE" ->
           endpoint0_start_in(d, <<"interface", 0>>, 1, s.length)
      [] s.request = "GET_STATUS" ->
           endpoint0_start_in(d, <<"status", IF s.type = "82" /\ s.index \in d.endpoint_halt
                                             THEN 1 ELSE 0>>, 2, s.length)

Accepts(s) ==
    \/ s.request = "SET_ADDRESS" /\ Is(s, {"00"}, 0 .. 127, {0}, 0)
    \/ s.request = "SET_CONFIGURATION" /\ Is(s, {"00"}, {0, 1}, {0}, 0)
    \/ s.request = "GET_CONFIGURATION" /\ Is(s, {"80"}, {0}, {0}, 1)
    \/ s.request = "GET_STATUS" /\ IsStatusRequest(s)
    \/ s.request = "GET_INTERFACE" /\ Is(s, {"81"}, {0}, {0, 1}, 1)
    \/ s.request = "SET_INTERFACE" /\ Is(s, {"01"}, {0}, {0, 1}, 0)
    \/ s.request \in {"CLEAR_FEATURE", "SET_FEATURE"} /\ Is(s, {"02"}, {0}, Halts, 0)

handle_standard_setup(d, s) ==
    IF s.request = "GET_DESCRIPTOR" /\ s.type = "80" THEN handle_get_descriptor(d, s)
    ELSE IF Accepts(s) THEN Accepted(d, s)
    ELSE endpoint0_stall(d)

handle_cdc_setup(d, s) ==
    CASE s.request = "SET_LINE_CODING" /\ Is(s, {"21"}, {0}, {0}, LINE_CODING_SIZE) ->
           [d EXCEPT !.control_state = "LINE_CODING_OUT", !.UEP0_T_LEN = 0,
                     !.UEP0_CTRL = Control(TRUE, TRUE, "ACK", "NAK")]
      [] s.request = "GET_LINE_CODING" /\ Is(s, {"A1"}, {0}, {0}, LINE_CODING_SIZE) ->
           endpoint0_start_in(d, <<"line_coding", d.line_coding>>, LINE_CODING_SIZE, s.length)
      [] s.request \in {"SET_CONTROL_LINE_STATE", "SEND_BREAK"}
           /\ s.type = "21" /\ s.index = 0 /\ s.length = 0 -> endpoint0_status_in(d)
      [] OTHER -> endpoint0_stall(d)

\* mutant: an address that was asked for before is not forgotten
NewTransfer_KeepsAddress ==
    [dev EXCEPT !.control_state = "IDLE", !.control_remaining = 0,
                !.control_send_zlp = FALSE,
                !.UEP0_CTRL = Control(TRUE, TRUE, "ACK", "NAK")]

(* A new SETUP packet ends whatever transfer there was.                    *)
NewTransfer ==
    [dev EXCEPT !.control_state = "IDLE", !.control_remaining = 0,
                !.control_send_zlp = FALSE, !.address_pending = FALSE,
                !.UEP0_CTRL = Control(TRUE, TRUE, "ACK", "NAK")]

handle_setup(s) ==
    LET d == NewTransfer
    IN  IF s.type \in {"00", "01", "02", "80", "81", "82"} THEN handle_standard_setup(d, s)
        ELSE IF s.type \in {"21", "A1"} THEN handle_cdc_setup(d, s)
        ELSE endpoint0_stall(d)

(* The host has acknowledged a packet.                                     *)
handle_endpoint0_in ==
    CASE dev.control_state = "STATUS_IN" ->
           [dev EXCEPT !.UEP0_T_LEN = 0, !.UEP0_CTRL.t = "NAK", !.control_state = "IDLE",
                       !.USB_DEV_AD = IF dev.address_pending THEN dev.pending_address ELSE @,
                       !.address_pending = FALSE]
      [] dev.control_state = "IN_DATA" ->
           endpoint0_queue_next([dev EXCEPT !.UEP0_CTRL.t_tog = ~@])
      [] OTHER -> [dev EXCEPT !.UEP0_T_LEN = 0, !.UEP0_CTRL.t = "NAK"]

WithCoding_Dropped(coding) == dev                    \* mutant: acknowledged and not kept
WithCoding(coding) == [dev EXCEPT !.line_coding = coding]

(* The device has acknowledged a packet of the host with the right toggle. *)
handle_endpoint0_out(n, coding) ==
    IF dev.control_state = "LINE_CODING_OUT"
    THEN IF n = LINE_CODING_SIZE
         THEN endpoint0_status_in(WithCoding(coding))
         ELSE endpoint0_stall(dev)
    ELSE [dev EXCEPT !.UEP0_CTRL = Control(TRUE, TRUE, "ACK", "NAK"),
                     !.control_state = "IDLE"]

reset_usb_state(d) ==
    [Configured(d, 0) EXCEPT !.address_pending = FALSE, !.control_state = "IDLE",
                             !.USB_DEV_AD = 0, !.UEP0_T_LEN = 0,
                             !.UEP0_CTRL = Control(FALSE, FALSE, "ACK", "NAK")]

(* usb_cdc_init on zeroed memory.                                          *)
Init ==
    /\ dev = reset_usb_state(
               [control_state |-> "IDLE", control_remaining |-> 0, control_send_zlp |-> FALSE,
                control_pointer |-> 0, packet |-> 0,   \* offsets: next, and in the buffer
                answer |-> NoAnswer,                   \* what control_pointer points into
                pending_address |-> 0, address_pending |-> FALSE, USB_DEV_AD |-> 0,
                current_configuration |-> 0, endpoint_halt |-> {},
                line_coding |-> DefaultCoding, UEP0_T_LEN |-> 0,
                UEP0_CTRL |-> Control(FALSE, FALSE, "ACK", "NAK")])
    /\ host = [stage |-> "idle", setup |-> NoSetup, coding |-> DefaultCoding,
               tog |-> TRUE,            \* of the next packet of the data stage
               got |-> 0,               \* bytes of the answer
               intact |-> TRUE,         \* they are the answer's, without a gap
               repeats |-> FALSE,       \* it missed the handshake of a data packet
               settings |-> [address |-> 0, configuration |-> 0, halts |-> {},
                             coding |-> DefaultCoding],
               doubt |-> {}]            \* the settings a lost transfer may have changed

-----------------------------------------------------------------------------
(* What an accepted request sets, by the book.                             *)
Set(settings, s, coding) ==
    CASE s.request = "SET_ADDRESS" -> [settings EXCEPT !.address = s.value]
      [] s.request = "SET_CONFIGURATION" ->
           [settings EXCEPT !.configuration = s.value, !.halts = {}]
      [] s.request = "SET_FEATURE" -> [settings EXCEPT !.halts = @ \cup {s.index}]
      [] s.request = "CLEAR_FEATURE" -> [settings EXCEPT !.halts = @ \ {s.index}]
      [] s.request = "SET_LINE_CODING" -> [settings EXCEPT !.coding = coding]
      [] OTHER -> settings

(* What an unfinished request may have set.  An address is never in doubt  *)
(* for being given up: it is taken with the handshake of the status stage. *)
Doubtful(s) ==
    CASE s.request = "SET_CONFIGURATION" -> {"configuration", "halts"}
      [] s.request \in {"SET_FEATURE", "CLEAR_FEATURE"} -> {"halts"}
      [] s.request = "SET_LINE_CODING" -> {"coding"}
      [] OTHER -> {}

Definite(s) ==
    CASE s.request = "SET_CONFIGURATION" -> {"configuration", "halts"}
      [] s.request = "SET_LINE_CODING" -> {"coding"}
      [] OTHER -> {}

FirstStage(s) ==
    IF s.length = 0 THEN "status_in"
    ELSE IF s.type \in {"80", "81", "82", "A1", "C0"} THEN "data_in" ELSE "data_out"

Reachable == host.settings.address = dev.USB_DEV_AD

Setup(s, coding) ==
    /\ host.stage = "idle" /\ Reachable
    /\ FirstStage(s) = "data_out" \/ coding = DefaultCoding
    /\ dev' = handle_setup(s)
    /\ host' = [host EXCEPT !.stage = FirstStage(s), !.setup = s, !.coding = coding,
                            !.tog = TRUE, !.got = 0, !.intact = TRUE]

(* The host's transfer ended, one way or the other.                        *)
Over(h) == [h EXCEPT !.stage = "idle", !.setup = NoSetup, !.coding = DefaultCoding,
                     !.tog = TRUE, !.got = 0, !.intact = TRUE, !.repeats = FALSE]

(* Both sides say STALL, until the next SETUP: the request is rejected.    *)
Rejected ==
    /\ \/ host.stage \in {"data_in", "status_in"} /\ dev.UEP0_CTRL.t = "STALL"
       \/ host.stage \in {"data_out", "status_out"} /\ dev.UEP0_CTRL.r = "STALL"
    /\ Reachable
    /\ host' = Over(host)
    /\ UNCHANGED dev

(* A packet of the data stage: the host keeps it if its toggle is new, and *)
(* takes a short one, or the last byte it asked for, for the end.          *)
DataIn(handshake) ==
    LET new == dev.UEP0_CTRL.t_tog = host.tog
        got == host.got + dev.UEP0_T_LEN
    IN  /\ host.stage = "data_in" /\ dev.UEP0_CTRL.t = "ACK" /\ Reachable
        /\ handshake \/ "data_in" \in Losses
        /\ dev' = IF handshake THEN handle_endpoint0_in ELSE dev
        /\ host' = IF ~new THEN host
                   ELSE [host EXCEPT
                          !.tog = ~@, !.got = got,
                          !.intact = @ /\ (dev.UEP0_T_LEN = 0 \/ dev.packet = host.got),
                          !.stage = IF dev.UEP0_T_LEN < USB_EP0_SIZE \/ got \geq host.setup.length
                                    THEN "status_out" ELSE @]

(* The empty packet that says the request is done.                         *)
StatusIn(handshake) ==
    /\ host.stage = "status_in" /\ dev.UEP0_CTRL.t = "ACK" /\ dev.UEP0_CTRL.t_tog
    /\ Reachable
    /\ handshake \/ "status_in" \in Losses
    /\ dev' = IF handshake THEN handle_endpoint0_in ELSE dev
    /\ host' = Over([host EXCEPT
                       !.settings = Set(@, host.setup, host.coding),
                       !.doubt = (@ \ Definite(host.setup))
                           \cup (IF ~handshake /\ host.setup.request = "SET_ADDRESS"
                                 THEN {"address"} ELSE {})])

(* A packet of the host, always with toggle 1.  A repeated one looks like  *)
(* the first: the toggles of this endpoint are set by the handlers alone.  *)
Out(stage, next, n, handshake) ==
    /\ host.stage = stage /\ dev.UEP0_CTRL.r = "ACK" /\ Reachable
    /\ handshake \/ stage \in Losses
    /\ dev' = IF dev.UEP0_CTRL.r_tog THEN handle_endpoint0_out(n, host.coding) ELSE dev
    /\ host' = IF ~handshake THEN [host EXCEPT !.repeats = (stage = "data_out")]
               ELSE IF next = "idle" THEN Over(host) ELSE [host EXCEPT !.stage = next]

DataOut(n, handshake) == Out("data_out", "status_in", n, handshake)
StatusOut(handshake) == Out("status_out", "idle", 0, handshake)

(* The host waits no longer.                                               *)
GiveUp ==
    /\ host.stage # "idle"
    /\ host' = Over([host EXCEPT !.doubt = @ \cup Doubtful(host.setup)])
    /\ UNCHANGED dev

BusReset ==
    /\ dev' = reset_usb_state(dev)
    /\ host' = Over([host EXCEPT
                  !.settings = [@ EXCEPT !.address = 0, !.configuration = 0, !.halts = {}],
                  !.doubt = (@ \cup Doubtful(host.setup)) \cap {"coding"}])

Next ==
    \/ \E s \in Setups, coding \in Codings : Setup(s, coding)
    \/ Rejected
    \/ \E handshake \in BOOLEAN : DataIn(handshake) \/ StatusIn(handshake)
    \/ \E n \in {0, LINE_CODING_SIZE}, handshake \in BOOLEAN : DataOut(n, handshake)
    \/ \E handshake \in BOOLEAN : StatusOut(handshake)
    \/ GiveUp
    \/ BusReset

Spec == Init /\ [][Next]_vars

(* A host that goes on with its transfer repeats what got no handshake.    *)
FairSpec ==
    /\ Spec
    /\ WF_vars(Rejected)
    /\ WF_vars(DataIn(TRUE)) /\ WF_vars(StatusIn(TRUE))
    /\ WF_vars(DataOut(LINE_CODING_SIZE, TRUE)) /\ WF_vars(StatusOut(TRUE))

-----------------------------------------------------------------------------
Addresses == {0} \cup {s.value : s \in Setups}
Settings == [address : Addresses, configuration : {0, 1}, halts : SUBSET Halts,
             coding : Codings]
Answers == {NoAnswer} \cup {"descriptor"} \X {s.value : s \in Setups}
           \cup {"configuration", "interface", "status"} \X {0, 1}
           \cup {"line_coding"} \X Codings
Lengths == 0 .. 75      \* the longest descriptor

Responses == {"ACK", "NAK", "STALL"}
Register == [r_tog : BOOLEAN, t_tog : BOOLEAN, r : Responses, t : Responses]
Device == [control_state : {"IDLE", "IN_DATA", "STATUS_IN", "LINE_CODING_OUT"},
           control_remaining : Lengths, control_send_zlp : BOOLEAN,
           control_pointer : Lengths, packet : Lengths, answer : Answers,
           pending_address : Addresses, address_pending : BOOLEAN,
           USB_DEV_AD : Addresses, current_configuration : {0, 1},
           endpoint_halt : SUBSET Halts, line_coding : Codings,
           UEP0_T_LEN : 0 .. USB_EP0_SIZE, UEP0_CTRL : Register]
HostEnd == [stage : Stages, setup : Setups \cup {NoSetup}, coding : Codings,
            tog : BOOLEAN, got : Lengths, intact : BOOLEAN, repeats : BOOLEAN,
            settings : Settings,
            doubt : SUBSET {"address", "configuration", "halts", "coding"}]

(* The type invariant: no answer runs past its end.                        *)
TypeOK == dev \in Device /\ host \in HostEnd

(* Between transfers the device is set as the host has been told: every    *)
(* request that reached its status stage took effect, once and whole, and  *)
(* every rejected one had none, whatever was given up or repeated between. *)
SettingsAgree ==
    host.stage = "idle" =>
        /\ "address" \in host.doubt \/ dev.USB_DEV_AD = host.settings.address
        /\ \/ "configuration" \in host.doubt
           \/ dev.current_configuration = host.settings.configuration
        /\ "halts" \in host.doubt \/ dev.endpoint_halt = host.settings.halts
        /\ "coding" \in host.doubt \/ dev.line_coding = host.settings.coding

(* What the answer to a request says, by what the host has been told.      *)
Says(s, value) ==
    CASE s.request = "GET_CONFIGURATION" ->
           "configuration" \in host.doubt \/ value = host.settings.configuration
      [] s.request = "GET_LINE_CODING" ->
           "coding" \in host.doubt \/ value = host.settings.coding
      [] s.request = "GET_STATUS" ->
           \/ "halts" \in host.doubt
           \/ value = IF s.type = "82" /\ s.index \in host.settings.halts THEN 1 ELSE 0
      [] s.request = "GET_DESCRIPTOR" -> value = s.value
      [] OTHER -> TRUE

WholeLength(s) ==
    CASE s.request = "GET_DESCRIPTOR" -> DescriptorLength(s.value \div 256, s.value % 256)
      [] s.request = "GET_LINE_CODING" -> LINE_CODING_SIZE
      [] s.request = "GET_STATUS" -> 2
      [] OTHER -> 1

(* When the host takes an answer for complete it has every byte of it, once *)
(* and in order, up to the length it asked for, and they say how the       *)
(* device is set.                                                          *)
AnswerRight ==
    host.stage = "status_out" =>
        LET s == host.setup whole == WholeLength(s) IN
        /\ host.intact
        /\ host.got = IF whole < s.length THEN whole ELSE s.length
        /\ Says(s, dev.answer[2])

(* The device changes its address with the handshake of the status stage of *)
(* that very request and at no other time: the status stage itself is      *)
(* still sent from the old address.                                        *)
AddressAfterStatus ==
    [][dev'.USB_DEV_AD # dev.USB_DEV_AD =>
         \/ BusReset
         \/ /\ host.stage = "status_in" /\ host.setup.request = "SET_ADDRESS"
            /\ dev'.USB_DEV_AD = host.setup.value]_vars

(* A transfer the host goes on with ends: with its answer and its status   *)
(* stage, or with a STALL, never with NAKs forever.  A data packet of the  *)
(* host that is repeated is the exception: its status stage may never come. *)
EveryTransferEnds == host.stage # "idle" ~> host.stage = "idle" \/ host.repeats
=============================================================================
