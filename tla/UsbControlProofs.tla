--------------------------- MODULE UsbControlProofs ---------------------------
(***************************************************************************)
(* Proofs about UsbControl: whatever SETUP packets the host sends, with     *)
(* whatever handshakes lost, transfers given up and resets between.        *)
(***************************************************************************)
EXTENDS UsbControl, TLAPS

Multiples == {0, 8, 16, 24, 32, 40, 48, 56, 64, 72}    \* the full packets of an answer

(* A device that waits for a packet of its answer to be fetched.  expected  *)
(* bytes are sent in all; control_pointer is behind those of this packet.  *)
(* After a full packet the host goes on unless it has what it asked for,   *)
(* and then there must be another packet.                                  *)
Offer(d, expected, requested) ==
    /\ d.UEP0_CTRL.t = "ACK" /\ d.UEP0_CTRL.r = "ACK" /\ d.control_state = "IN_DATA"
    /\ d.control_pointer + d.control_remaining = expected
    /\ d.UEP0_T_LEN \leq d.control_pointer
    /\ d.UEP0_T_LEN # 0 => d.packet = d.control_pointer - d.UEP0_T_LEN
    /\ d.control_remaining # 0 => d.UEP0_T_LEN = 8
    /\ d.UEP0_T_LEN = 8 => d.control_pointer \in Multiples
    /\ d.UEP0_T_LEN = 8
         => (d.control_send_zlp <=> expected < requested /\ expected \in Multiples)
    /\ d.UEP0_T_LEN # 8 => ~d.control_send_zlp

(* What is left of a device by a handler that changes none of its settings. *)
SameSettings(d, e) ==
    /\ e.USB_DEV_AD = d.USB_DEV_AD /\ e.current_configuration = d.current_configuration
    /\ e.endpoint_halt = d.endpoint_halt /\ e.line_coding = d.line_coding
SameAddressing(d, e) ==
    e.pending_address = d.pending_address /\ e.address_pending = d.address_pending
SameAnswer(d, e) ==
    /\ e.control_pointer = d.control_pointer /\ e.control_remaining = d.control_remaining
    /\ e.answer = d.answer
Fits(d) == d.control_pointer + d.control_remaining \leq 75

Shows(r_tog, t_tog, r, t, e) ==
    /\ e.UEP0_CTRL.r_tog = r_tog /\ e.UEP0_CTRL.t_tog = t_tog
    /\ e.UEP0_CTRL.r = r /\ e.UEP0_CTRL.t = t

-----------------------------------------------------------------------------
(* The inductive invariant, in named parts.                                *)
StallsAgree == dev.UEP0_CTRL.r = "STALL" <=> dev.UEP0_CTRL.t = "STALL"

(* In the data stage of an answer both ends count alike: the host has all   *)
(* before the packet on offer, or that packet too when only its handshake  *)
(* was lost, and then it was full and more must come.                      *)
Expected == SendLength(WholeLength(host.setup), host.setup.length)

Answering ==
    host.stage = "data_in" /\ dev.UEP0_CTRL.t # "STALL" =>
        /\ Offer(dev, Expected, host.setup.length)
        /\ IF dev.UEP0_CTRL.t_tog = host.tog
           THEN host.got = dev.control_pointer - dev.UEP0_T_LEN
           ELSE /\ host.got = dev.control_pointer /\ host.got < host.setup.length
                /\ dev.UEP0_T_LEN = 8
        /\ host.intact
        /\ Says(host.setup, dev.answer[2])

(* The device is set as the host has been told, but for what is in doubt.   *)
Agree(d, settings, doubt) ==
    /\ "address" \in doubt \/ d.USB_DEV_AD = settings.address
    /\ "configuration" \in doubt \/ d.current_configuration = settings.configuration
    /\ "halts" \in doubt \/ d.endpoint_halt = settings.halts
    /\ "coding" \in doubt \/ d.line_coding = settings.coding

(* During a transfer only what its request sets may differ; and nothing as *)
(* long as the request has not been carried out, or is rejected.           *)
Agreement ==
    /\ Agree(dev, host.settings, host.doubt \cup Doubtful(host.setup))
    /\ \/ host.stage \in {"idle", "data_in", "status_out"}
       \/ dev.UEP0_CTRL.t = "STALL"
       \/ dev.control_state = "LINE_CODING_OUT"
       => Agree(dev, host.settings, host.doubt)

(* A device that offers the packet of the status stage has carried the      *)
(* request out, but for the address, which it keeps for the handshake.     *)
Confirming ==
    host.stage = "status_in" /\ dev.UEP0_CTRL.t = "ACK" =>
        LET set == Set(host.settings, host.setup, host.coding)
            doubt == host.doubt \ Definite(host.setup)
        IN  /\ dev.control_state = "STATUS_IN" /\ dev.UEP0_CTRL.r = "ACK"
            /\ dev.address_pending <=> host.setup.request = "SET_ADDRESS"
            /\ dev.address_pending => dev.pending_address = host.setup.value
            /\ host.setup.request = "SET_FEATURE" => host.setup.index \in Halts
            /\ "configuration" \in doubt \/ dev.current_configuration = set.configuration
            /\ "halts" \in doubt \/ dev.endpoint_halt = set.halts
            /\ "coding" \in doubt \/ dev.line_coding = set.coding

(* Only a line coding is taken from the host, and only in its data stage.   *)
Taking ==
    /\ host.stage = "data_out" /\ dev.UEP0_CTRL.r # "STALL" =>
         /\ host.setup.request = "SET_LINE_CODING" /\ dev.UEP0_CTRL.r_tog = TRUE
         /\ ~dev.address_pending
    /\ host.stage \in {"data_in", "status_out"} => dev.control_state # "LINE_CODING_OUT"

IInv ==
    /\ TypeOK /\ Fits(dev) /\ StallsAgree
    /\ Answering /\ Agreement /\ Confirming /\ Taking /\ AnswerRight

-----------------------------------------------------------------------------
(* What the handlers make of a device.                                     *)
LEMMA Sizes ==
    ASSUME NEW d \in Device
    PROVE  /\ d.control_pointer \in Nat /\ d.control_pointer \leq 75
           /\ d.control_remaining \in Nat /\ d.control_remaining \leq 75
           /\ d.UEP0_T_LEN \in Nat /\ d.UEP0_T_LEN \leq 8
           /\ d.UEP0_CTRL \in Register
  BY DEF Device, Lengths, USB_EP0_SIZE

LEMMA Zero == 0 \in 0 .. USB_EP0_SIZE
  BY DEF USB_EP0_SIZE

LEMMA ControlFields ==
    ASSUME NEW r_tog \in BOOLEAN, NEW t_tog \in BOOLEAN,
           NEW r \in Responses, NEW t \in Responses, NEW e,
           e.UEP0_CTRL = Control(r_tog, t_tog, r, t)
    PROVE  e.UEP0_CTRL \in Register /\ Shows(r_tog, t_tog, r, t, e)
  BY DEF Control, Register, Shows

LEMMA StallFields ==
    ASSUME NEW d \in Device, NEW e, e = endpoint0_stall(d)
    PROVE  /\ e \in Device /\ SameSettings(d, e) /\ SameAddressing(d, e) /\ SameAnswer(d, e)
           /\ Shows(TRUE, TRUE, "STALL", "STALL", e) /\ e.control_state = "IDLE"
  <1> DEFINE control == Control(TRUE, TRUE, "STALL", "STALL")
  <1>1. control \in Register /\ e = [d EXCEPT !.UEP0_T_LEN = 0, !.UEP0_CTRL = control,
                                              !.control_state = "IDLE"]
    BY DEF endpoint0_stall, Control, Register, Responses
  <1> HIDE DEF control
  <1>2. /\ e \in Device /\ SameSettings(d, e) /\ SameAddressing(d, e) /\ SameAnswer(d, e)
        /\ e.UEP0_CTRL = control /\ e.control_state = "IDLE"
    BY <1>1, Zero DEF Device, SameSettings, SameAddressing, SameAnswer
  <1> QED
    BY <1>2, ControlFields DEF control, Responses

LEMMA StatusFields ==
    ASSUME NEW d \in Device, NEW e, e = endpoint0_status_in(d)
    PROVE  /\ e \in Device /\ SameSettings(d, e) /\ SameAddressing(d, e) /\ SameAnswer(d, e)
           /\ Shows(TRUE, TRUE, "ACK", "ACK", e) /\ e.control_state = "STATUS_IN"
  <1> DEFINE control == Control(TRUE, TRUE, "ACK", "ACK")
  <1>1. control \in Register /\ e = [d EXCEPT !.UEP0_T_LEN = 0, !.UEP0_CTRL = control,
                                              !.control_state = "STATUS_IN"]
    BY DEF endpoint0_status_in, Control, Register, Responses
  <1> HIDE DEF control
  <1>2. /\ e \in Device /\ SameSettings(d, e) /\ SameAddressing(d, e) /\ SameAnswer(d, e)
        /\ e.UEP0_CTRL = control /\ e.control_state = "STATUS_IN"
    BY <1>1, Zero DEF Device, SameSettings, SameAddressing, SameAnswer
  <1> QED
    BY <1>2, ControlFields DEF control, Responses

(* The next packet, the empty one, or none.                                *)
LEMMA QueueFields ==
    ASSUME NEW d \in Device, Fits(d), NEW e, e = endpoint0_queue_next(d)
    PROVE  /\ e \in Device /\ SameSettings(d, e) /\ SameAddressing(d, e)
           /\ e.answer = d.answer /\ Fits(e)
           /\ Shows(d.UEP0_CTRL.r_tog, d.UEP0_CTRL.t_tog, d.UEP0_CTRL.r, e.UEP0_CTRL.t, e)
           /\ \/ LET count == PacketSize(d.control_remaining) IN
                 /\ d.control_remaining # 0
                 /\ e.UEP0_CTRL.t = "ACK" /\ e.control_state = d.control_state
                 /\ e.control_pointer = d.control_pointer + count
                 /\ e.control_remaining = d.control_remaining - count
                 /\ e.packet = d.control_pointer /\ e.UEP0_T_LEN = count
                 /\ e.control_send_zlp = d.control_send_zlp
              \/ /\ d.control_remaining = 0 /\ d.control_send_zlp
                 /\ e.UEP0_CTRL.t = "ACK" /\ e.control_state = d.control_state
                 /\ e.control_pointer = d.control_pointer /\ e.control_remaining = 0
                 /\ e.UEP0_T_LEN = 0 /\ e.control_send_zlp = FALSE
              \/ /\ d.control_remaining = 0 /\ ~d.control_send_zlp
                 /\ e.UEP0_CTRL.t = "NAK" /\ e.control_state = "IDLE"
                 /\ e.control_pointer = d.control_pointer /\ e.control_remaining = 0
  <1> DEFINE acked == [d.UEP0_CTRL EXCEPT !.t = "ACK"]
             naked == [d.UEP0_CTRL EXCEPT !.t = "NAK"]
  <1>1. /\ acked \in Register /\ acked.t = "ACK" /\ acked.r = d.UEP0_CTRL.r
        /\ acked.r_tog = d.UEP0_CTRL.r_tog /\ acked.t_tog = d.UEP0_CTRL.t_tog
        /\ naked \in Register /\ naked.t = "NAK" /\ naked.r = d.UEP0_CTRL.r
        /\ naked.r_tog = d.UEP0_CTRL.r_tog /\ naked.t_tog = d.UEP0_CTRL.t_tog
    BY DEF Device, Register, Responses
  <1>2. CASE d.control_remaining # 0
    <2> DEFINE count == PacketSize(d.control_remaining)
               pointer == d.control_pointer + count
               left == d.control_remaining - count
    <2>1. /\ count \in 0 .. USB_EP0_SIZE /\ pointer \in Lengths /\ left \in Lengths
          /\ pointer + left = d.control_pointer + d.control_remaining
      BY <1>2, Sizes DEF PacketSize, USB_EP0_SIZE, Fits, Lengths
    <2>2. e = [d EXCEPT !.control_pointer = pointer, !.control_remaining = left,
                        !.packet = d.control_pointer, !.UEP0_T_LEN = count,
                        !.UEP0_CTRL = acked]
      BY <1>2 DEF endpoint0_queue_next
    <2> HIDE DEF acked, naked, count, pointer, left
    <2>3. /\ e \in Device /\ SameSettings(d, e) /\ SameAddressing(d, e)
          /\ e.answer = d.answer /\ e.UEP0_CTRL = acked
          /\ e.control_pointer = pointer /\ e.control_remaining = left
          /\ e.packet = d.control_pointer /\ e.UEP0_T_LEN = count
          /\ e.control_send_zlp = d.control_send_zlp /\ e.control_state = d.control_state
      BY <2>1, <1>1, <2>1, <2>2 DEF Device, SameSettings, SameAddressing
    <2> QED
      BY <1>1, <1>2, <2>1, <2>3 DEF Shows, Fits, count, pointer, left
  <1>3. CASE d.control_remaining = 0 /\ d.control_send_zlp
    <2>1. e = [d EXCEPT !.control_send_zlp = FALSE, !.UEP0_T_LEN = 0, !.UEP0_CTRL = acked]
      BY <1>3 DEF endpoint0_queue_next
    <2> HIDE DEF acked, naked
    <2>2. /\ e \in Device /\ SameSettings(d, e) /\ SameAddressing(d, e)
          /\ SameAnswer(d, e) /\ e.UEP0_CTRL = acked
          /\ e.UEP0_T_LEN = 0 /\ e.control_send_zlp = FALSE
          /\ e.control_state = d.control_state
      BY <1>1, <2>1, Zero DEF Device, SameSettings, SameAddressing, SameAnswer
    <2> QED
      BY <1>1, <1>3, <2>2 DEF Shows, Fits, SameAnswer
  <1>4. CASE d.control_remaining = 0 /\ ~d.control_send_zlp
    <2>1. e = [d EXCEPT !.UEP0_T_LEN = 0, !.UEP0_CTRL = naked, !.control_state = "IDLE"]
      BY <1>4 DEF endpoint0_queue_next
    <2> HIDE DEF acked, naked
    <2>2. /\ e \in Device /\ SameSettings(d, e) /\ SameAddressing(d, e)
          /\ SameAnswer(d, e) /\ e.UEP0_CTRL = naked /\ e.control_state = "IDLE"
      BY <1>1, <2>1, Zero DEF Device, SameSettings, SameAddressing, SameAnswer
    <2> QED
      BY <1>1, <1>4, <2>2 DEF Shows, Fits, SameAnswer
  <1> QED
    BY <1>2, <1>3, <1>4

LEMMA FullPackets == \A n \in 0 .. 75 : n % USB_EP0_SIZE = 0 <=> n \in Multiples
  BY DEF USB_EP0_SIZE, Multiples

(* An answer begins: with an offer, unless it was asked for without a byte. *)
LEMMA StartFields ==
    ASSUME NEW d \in Device, d.UEP0_CTRL.r = "ACK", NEW answer \in Answers,
           NEW available, available \in 1 .. 75, NEW requested, requested \in Nat,
           NEW e, e = endpoint0_start_in(d, answer, available, requested)
    PROVE  /\ e \in Device /\ SameSettings(d, e) /\ SameAddressing(d, e) /\ Fits(e)
           /\ e.answer = answer
           /\ Shows(d.UEP0_CTRL.r_tog, d.UEP0_CTRL.t_tog, "ACK", e.UEP0_CTRL.t, e)
           /\ \/ /\ requested # 0 /\ e.UEP0_T_LEN = e.control_pointer
                 /\ Offer(e, SendLength(available, requested), requested)
              \/ requested = 0 /\ e.UEP0_CTRL.t = "NAK" /\ e.control_state = "IDLE"
  <1> DEFINE expected == SendLength(available, requested)
             zlp == SendZlp(expected, requested)
             begun == [d EXCEPT !.answer = answer, !.control_pointer = 0,
                                !.control_remaining = expected,
                                !.control_send_zlp = zlp, !.control_state = "IN_DATA"]
  <1>1. /\ expected \in 0 .. 75 /\ expected \leq requested
        /\ expected = 0 <=> requested = 0
    BY DEF SendLength
  <1>2. zlp \in BOOLEAN /\ (zlp <=> expected < requested /\ expected \in Multiples)
    BY <1>1, FullPackets DEF SendZlp
  <1>3. e = endpoint0_queue_next(begun)
    BY DEF endpoint0_start_in
  <1>t. 0 \in Lengths /\ expected \in Lengths
    BY <1>1 DEF Lengths
  <1> HIDE DEF expected, zlp
  <1>4. /\ begun \in Device /\ SameSettings(d, begun) /\ SameAddressing(d, begun)
        /\ begun.answer = answer /\ begun.control_pointer = 0
        /\ begun.control_remaining = expected /\ (begun.control_send_zlp <=> zlp)
        /\ begun.control_state = "IN_DATA" /\ begun.UEP0_CTRL = d.UEP0_CTRL
    BY <1>2, <1>t DEF Device, SameSettings, SameAddressing
  <1>5. Fits(begun)
    BY <1>1, <1>4 DEF Fits
  <1> HIDE DEF begun
  <1>6. CASE requested = 0
    <2>1. expected = 0 /\ ~zlp
      BY <1>1, <1>2, <1>6
    <2>2. /\ e \in Device /\ SameSettings(begun, e) /\ SameAddressing(begun, e) /\ Fits(e)
          /\ e.answer = answer
          /\ Shows(d.UEP0_CTRL.r_tog, d.UEP0_CTRL.t_tog, d.UEP0_CTRL.r, e.UEP0_CTRL.t, e)
          /\ e.UEP0_CTRL.t = "NAK" /\ e.control_state = "IDLE"
      BY <1>3, <1>4, <1>5, <2>1, QueueFields
    <2> QED
      BY <1>4, <1>6, <2>2 DEF SameSettings, SameAddressing
  <1>7. CASE requested # 0
    <2> DEFINE count == PacketSize(expected)
    <2>1. /\ count \in 1 .. 8 /\ (count # expected => count = 8) /\ count \leq expected
          /\ count # 8 => expected \notin Multiples
      BY <1>1, <1>7 DEF PacketSize, USB_EP0_SIZE, Multiples
    <2>2. /\ e \in Device /\ SameSettings(begun, e) /\ SameAddressing(begun, e) /\ Fits(e)
          /\ e.answer = answer
          /\ Shows(d.UEP0_CTRL.r_tog, d.UEP0_CTRL.t_tog, d.UEP0_CTRL.r, "ACK", e)
          /\ e.control_state = "IN_DATA"
          /\ e.control_pointer = count /\ e.control_remaining = expected - count
          /\ e.packet = 0 /\ e.UEP0_T_LEN = count /\ (e.control_send_zlp <=> zlp)
      <3>1. expected # 0 /\ 0 + count = count
        BY <1>1, <1>7, <2>1
      <3>2. begun.control_remaining # 0
        BY <1>4, <3>1
      <3>3. /\ e \in Device /\ SameSettings(begun, e) /\ SameAddressing(begun, e) /\ Fits(e)
            /\ e.answer = begun.answer
            /\ Shows(begun.UEP0_CTRL.r_tog, begun.UEP0_CTRL.t_tog, begun.UEP0_CTRL.r,
                     e.UEP0_CTRL.t, e)
            /\ e.UEP0_CTRL.t = "ACK" /\ e.control_state = begun.control_state
            /\ e.control_pointer = begun.control_pointer + PacketSize(begun.control_remaining)
            /\ e.control_remaining = begun.control_remaining - PacketSize(begun.control_remaining)
            /\ e.packet = begun.control_pointer
            /\ e.UEP0_T_LEN = PacketSize(begun.control_remaining)
            /\ e.control_send_zlp = begun.control_send_zlp
        BY <1>3, <1>4, <1>5, <3>2, QueueFields
      <3> QED
        BY <1>4, <3>1, <3>3
    <2>3. count = 8 => count \in Multiples
      BY DEF Multiples
    <2> HIDE DEF count
    <2>4. Offer(e, expected, requested)
      BY <1>1, <1>2, <2>1, <2>2, <2>3 DEF Offer, Shows
    <2> QED
      BY <1>4, <1>7, <2>2, <2>4 DEF SameSettings, SameAddressing, Shows, expected
  <1> QED
    BY <1>6, <1>7

-----------------------------------------------------------------------------
(* What a SETUP packet leads to: a STALL; nothing, when an answer of no     *)
(* bytes is asked for; the first packet of the answer; a new setting and a *)
(* status stage; or a data stage.                                          *)
Rejects(d, e) ==
    /\ SameSettings(d, e) /\ ~e.address_pending /\ e.control_state = "IDLE"
    /\ e.UEP0_CTRL.r = "STALL" /\ e.UEP0_CTRL.t = "STALL"

Ignores(d, s, e) ==
    /\ SameSettings(d, e) /\ ~e.address_pending /\ e.control_state = "IDLE"
    /\ e.UEP0_CTRL.r = "ACK" /\ e.UEP0_CTRL.t = "NAK" /\ FirstStage(s) = "status_in"

Told(d, s) ==
    CASE s.request = "GET_CONFIGURATION" -> d.current_configuration
      [] s.request = "GET_LINE_CODING" -> d.line_coding
      [] s.request = "GET_STATUS" ->
           IF s.type = "82" /\ s.index \in d.endpoint_halt THEN 1 ELSE 0
      [] s.request = "GET_DESCRIPTOR" -> s.value
      [] OTHER -> 0

Replies(d, s, e) ==
    /\ SameSettings(d, e) /\ ~e.address_pending /\ FirstStage(s) = "data_in"
    /\ Offer(e, SendLength(WholeLength(s), s.length), s.length)
    /\ e.UEP0_T_LEN = e.control_pointer /\ e.UEP0_CTRL.t_tog = TRUE
    /\ e.answer[2] = Told(d, s)

Confirms(d, s, e) ==
    /\ e.USB_DEV_AD = d.USB_DEV_AD /\ e.line_coding = d.line_coding
    /\ e.current_configuration = IF s.request = "SET_CONFIGURATION" THEN s.value
                                 ELSE d.current_configuration
    /\ e.endpoint_halt = CASE s.request = "SET_CONFIGURATION" -> {}
                           [] s.request = "SET_FEATURE" -> d.endpoint_halt \cup {s.index}
                           [] s.request = "CLEAR_FEATURE" -> d.endpoint_halt \ {s.index}
                           [] OTHER -> d.endpoint_halt
    /\ e.address_pending <=> s.request = "SET_ADDRESS"
    /\ e.address_pending => e.pending_address = s.value
    /\ e.control_state = "STATUS_IN" /\ e.UEP0_CTRL.r = "ACK" /\ e.UEP0_CTRL.t = "ACK"
    /\ FirstStage(s) = "status_in" /\ s.request # "SET_LINE_CODING"
    /\ s.request = "SET_FEATURE" => s.index \in Halts

Takes(d, s, e) ==
    /\ SameSettings(d, e) /\ ~e.address_pending /\ e.control_state = "LINE_CODING_OUT"
    /\ e.UEP0_CTRL.r_tog = TRUE /\ e.UEP0_CTRL.r = "ACK" /\ e.UEP0_CTRL.t = "NAK"
    /\ FirstStage(s) = "data_out" /\ s.request = "SET_LINE_CODING"

Outcome(d, s, e) ==
    \/ Rejects(d, e) \/ Ignores(d, s, e) \/ Replies(d, s, e) \/ Confirms(d, s, e)
    \/ Takes(d, s, e)

(* The device in the middle of handle_setup.                               *)
Begun(d) ==
    /\ d \in Device /\ Fits(d) /\ d.UEP0_CTRL.r = "ACK" /\ d.UEP0_CTRL.t_tog = TRUE
    /\ ~d.address_pending

LEMMA SetupFields ==
    ASSUME NEW s \in Setups
    PROVE  /\ s.value \in Nat /\ s.index \in Nat /\ s.length \in Nat /\ s.value \in Addresses
           /\ s.type \in RequestTypes
  BY ControlAssumption DEF SetupType, Addresses

LEMMA NewTransferFields ==
    ASSUME dev \in Device, Fits(dev)
    PROVE  Begun(NewTransfer) /\ SameSettings(dev, NewTransfer)
  <1> DEFINE control == Control(TRUE, TRUE, "ACK", "NAK")
             d == [dev EXCEPT !.control_state = "IDLE", !.control_remaining = 0,
                              !.control_send_zlp = FALSE, !.address_pending = FALSE,
                              !.UEP0_CTRL = control]
  <1>1. /\ control \in Register /\ control.r = "ACK" /\ control.t_tog = TRUE
        /\ 0 \in Lengths /\ NewTransfer = d
    BY DEF Control, Register, Responses, Lengths, NewTransfer
  <1> HIDE DEF control
  <1>2. /\ d \in Device /\ SameSettings(dev, d) /\ d.UEP0_CTRL = control
        /\ d.control_pointer = dev.control_pointer /\ d.control_remaining = 0
        /\ d.address_pending = FALSE
    BY <1>1 DEF Device, SameSettings
  <1> QED
    BY <1>1, <1>2, Sizes DEF Begun, Fits

LEMMA StallOutcome ==
    ASSUME NEW d, Begun(d), NEW s, NEW e, e = endpoint0_stall(d)
    PROVE  e \in Device /\ Fits(e) /\ Outcome(d, s, e)
  BY StallFields DEF Begun, Outcome, Rejects, Shows, SameAddressing, SameAnswer, Fits

(* A standard or class request that is answered.                           *)
LEMMA AnswerOutcome ==
    ASSUME NEW d, Begun(d), NEW s \in Setups, NEW answer \in Answers,
           answer[2] = Told(d, s), NEW available \in 1 .. 75, available = WholeLength(s),
           s.type \in {"80", "81", "82", "A1"},
           NEW e, e = endpoint0_start_in(d, answer, available, s.length)
    PROVE  e \in Device /\ Fits(e) /\ Outcome(d, s, e)
  <1>1. s.length \in Nat /\ d \in Device /\ d.UEP0_CTRL.r = "ACK"
    BY SetupFields DEF Begun
  <1>2. FirstStage(s) = IF s.length = 0 THEN "status_in" ELSE "data_in"
    BY DEF FirstStage
  <1>3. /\ e \in Device /\ SameSettings(d, e) /\ SameAddressing(d, e) /\ Fits(e)
        /\ e.answer = answer
        /\ Shows(d.UEP0_CTRL.r_tog, d.UEP0_CTRL.t_tog, "ACK", e.UEP0_CTRL.t, e)
        /\ \/ /\ s.length # 0 /\ e.UEP0_T_LEN = e.control_pointer
              /\ Offer(e, SendLength(available, s.length), s.length)
           \/ s.length = 0 /\ e.UEP0_CTRL.t = "NAK" /\ e.control_state = "IDLE"
    BY <1>1, StartFields
  <1> QED
    BY <1>2, <1>3 DEF Begun, Outcome, Replies, Ignores, Shows, SameAddressing

LEMMA DescriptorLengths ==
    ASSUME NEW descriptor_type, NEW descriptor_index
    PROVE  DescriptorLength(descriptor_type, descriptor_index) \in 0 .. 75
  BY DEF DescriptorLength, USB_SERIAL_DESCRIPTOR_LENGTH

LEMMA DescriptorOutcome ==
    ASSUME NEW d, Begun(d), NEW s \in Setups, s.request = "GET_DESCRIPTOR", s.type = "80",
           NEW e, e = handle_get_descriptor(d, s)
    PROVE  e \in Device /\ Fits(e) /\ Outcome(d, s, e)
  <1> DEFINE available == DescriptorLength(s.value \div 256, s.value % 256)
             answer == <<"descriptor", s.value>>
  <1>1. \/ e = endpoint0_stall(d)
        \/ available # 0 /\ e = endpoint0_start_in(d, answer, available, s.length)
    BY DEF handle_get_descriptor
  <1>2. available \in 0 .. 75 /\ available = WholeLength(s)
    BY DescriptorLengths DEF WholeLength
  <1>3. answer \in Answers /\ answer[2] = Told(d, s)
    BY DEF Answers, Told
  <1> HIDE DEF available, answer
  <1>4. CASE available # 0 /\ e = endpoint0_start_in(d, answer, available, s.length)
    <2>1. available \in 1 .. 75
      BY <1>2, <1>4
    <2> QED
      BY <1>2, <1>3, <1>4, <2>1, AnswerOutcome
  <1> QED
    BY <1>1, <1>4, StallOutcome

(* A request that is confirmed changes a device d to a device f first.     *)
LEMMA StatusOutcome ==
    ASSUME NEW f \in Device, Fits(f), NEW e, e = endpoint0_status_in(f)
    PROVE  /\ e \in Device /\ Fits(e) /\ SameSettings(f, e) /\ SameAddressing(f, e)
           /\ e.control_state = "STATUS_IN" /\ e.UEP0_CTRL.r = "ACK" /\ e.UEP0_CTRL.t = "ACK"
  BY StatusFields DEF Fits, SameAnswer, Shows

(* A standard request with the right parameters.                           *)
LEMMA AcceptedOutcome ==
    ASSUME NEW d, Begun(d), NEW s \in Setups, Accepts(s), NEW e, e = Accepted(d, s)
    PROVE  e \in Device /\ Fits(e) /\ Outcome(d, s, e)
  <1>0. /\ d \in Device /\ Fits(d) /\ ~d.address_pending
        /\ s.value \in Addresses /\ (s.length = 0 => FirstStage(s) = "status_in")
    BY SetupFields DEF Begun, FirstStage
  <1>1. CASE s.request = "SET_ADDRESS"
    <2> DEFINE f == [d EXCEPT !.pending_address = s.value, !.address_pending = TRUE]
    <2>1. e = endpoint0_status_in(f) /\ s.length = 0
      BY <1>1 DEF Accepted, Accepts, Is
    <2>2. /\ f \in Device /\ Fits(f) /\ SameSettings(d, f)
          /\ f.address_pending = TRUE /\ f.pending_address = s.value
      BY <1>0 DEF Device, Fits, SameSettings
    <2> HIDE DEF f
    <2> QED
      BY <1>0, <1>1, <2>1, <2>2, StatusOutcome
         DEF Outcome, Confirms, SameSettings, SameAddressing
  <1>2. CASE s.request = "SET_CONFIGURATION"
    <2> DEFINE f == [d EXCEPT !.current_configuration = s.value, !.endpoint_halt = {}]
    <2>1. e = endpoint0_status_in(f) /\ s.length = 0 /\ s.value \in {0, 1}
      BY <1>2 DEF Accepted, Accepts, Is, Configured
    <2>2. /\ f \in Device /\ Fits(f) /\ f.address_pending = d.address_pending
          /\ f.USB_DEV_AD = d.USB_DEV_AD /\ f.line_coding = d.line_coding
          /\ f.current_configuration = s.value /\ f.endpoint_halt = {}
      BY <1>0, <2>1 DEF Device, Fits
    <2> HIDE DEF f
    <2> QED
      BY <1>0, <1>2, <2>1, <2>2, StatusOutcome
         DEF Outcome, Confirms, SameSettings, SameAddressing
  <1>3. CASE s.request = "SET_FEATURE"
    <2> DEFINE f == [d EXCEPT !.endpoint_halt = @ \cup {s.index}]
    <2>1. e = endpoint0_status_in(f) /\ s.length = 0 /\ s.index \in Halts
      BY <1>3 DEF Accepted, Accepts, Is
    <2>2. /\ f \in Device /\ Fits(f) /\ f.address_pending = d.address_pending
          /\ f.USB_DEV_AD = d.USB_DEV_AD /\ f.line_coding = d.line_coding
          /\ f.current_configuration = d.current_configuration
          /\ f.endpoint_halt = d.endpoint_halt \cup {s.index}
      BY <1>0, <2>1 DEF Device, Fits
    <2> HIDE DEF f
    <2> QED
      BY <1>0, <1>3, <2>1, <2>2, StatusOutcome
         DEF Outcome, Confirms, SameSettings, SameAddressing
  <1>4. CASE s.request = "CLEAR_FEATURE"
    <2> DEFINE f == [d EXCEPT !.endpoint_halt = @ \ {s.index}]
    <2>1. e = endpoint0_status_in(f) /\ s.length = 0
      BY <1>4 DEF Accepted, Accepts, Is
    <2>2. /\ f \in Device /\ Fits(f) /\ f.address_pending = d.address_pending
          /\ f.USB_DEV_AD = d.USB_DEV_AD /\ f.line_coding = d.line_coding
          /\ f.current_configuration = d.current_configuration
          /\ f.endpoint_halt = d.endpoint_halt \ {s.index}
      BY <1>0 DEF Device, Fits
    <2> HIDE DEF f
    <2> QED
      BY <1>0, <1>4, <2>1, <2>2, StatusOutcome
         DEF Outcome, Confirms, SameSettings, SameAddressing
  <1>5. CASE s.request = "SET_INTERFACE"
    <2>1. e = endpoint0_status_in(d) /\ s.length = 0
      BY <1>5 DEF Accepted, Accepts, Is
    <2> QED
      BY <1>0, <1>5, <2>1, StatusOutcome
         DEF Outcome, Confirms, SameSettings, SameAddressing
  <1>6. CASE s.request = "GET_CONFIGURATION"
    <2> DEFINE answer == <<"configuration", d.current_configuration>>
    <2>1. /\ e = endpoint0_start_in(d, answer, 1, s.length) /\ s.type = "80"
          /\ WholeLength(s) = 1
      BY <1>6 DEF Accepted, Accepts, Is, WholeLength
    <2>2. answer \in Answers /\ answer[2] = Told(d, s)
      BY <1>0, <1>6 DEF Answers, Told, Device
    <2> HIDE DEF answer
    <2> QED
      BY <2>1, <2>2, AnswerOutcome
  <1>7. CASE s.request = "GET_INTERFACE"
    <2> DEFINE answer == <<"interface", 0>>
    <2>1. /\ e = endpoint0_start_in(d, answer, 1, s.length) /\ s.type = "81"
          /\ WholeLength(s) = 1
      BY <1>7 DEF Accepted, Accepts, Is, WholeLength
    <2>2. answer \in Answers /\ answer[2] = Told(d, s)
      BY <1>7 DEF Answers, Told
    <2> HIDE DEF answer
    <2> QED
      BY <2>1, <2>2, AnswerOutcome
  <1>8. CASE s.request = "GET_STATUS"
    <2> DEFINE halted == IF s.type = "82" /\ s.index \in d.endpoint_halt THEN 1 ELSE 0
               answer == <<"status", halted>>
    <2>1. /\ e = endpoint0_start_in(d, answer, 2, s.length)
          /\ s.type \in {"80", "81", "82"} /\ WholeLength(s) = 2
      BY <1>8 DEF Accepted, Accepts, IsStatusRequest, Is, WholeLength
    <2>2. halted = Told(d, s) /\ halted \in {0, 1}
      BY <1>8 DEF Told
    <2> HIDE DEF halted
    <2>3. answer \in Answers /\ answer[2] = Told(d, s)
      BY <2>2 DEF Answers
    <2> HIDE DEF answer
    <2> QED
      BY <2>1, <2>3, AnswerOutcome
  <1> QED
    BY <1>1, <1>2, <1>3, <1>4, <1>5, <1>6, <1>7, <1>8 DEF Accepts

(* A request of the class.                                                 *)
LEMMA ClassOutcome ==
    ASSUME NEW d, Begun(d), NEW s \in Setups, s.type \in {"21", "A1"},
           NEW e, e = handle_cdc_setup(d, s)
    PROVE  e \in Device /\ Fits(e) /\ Outcome(d, s, e)
  <1>0. d \in Device /\ Fits(d) /\ ~d.address_pending
    BY DEF Begun
  <1>1. CASE s.request = "SET_LINE_CODING" /\ Is(s, {"21"}, {0}, {0}, LINE_CODING_SIZE)
    <2> DEFINE control == Control(TRUE, TRUE, "ACK", "NAK")
    <2>1. /\ e = [d EXCEPT !.control_state = "LINE_CODING_OUT", !.UEP0_T_LEN = 0,
                           !.UEP0_CTRL = control]
          /\ FirstStage(s) = "data_out"
      BY <1>1 DEF handle_cdc_setup, Is, FirstStage, LINE_CODING_SIZE
    <2>2. control \in Register /\ control.r_tog = TRUE /\ control.r = "ACK" /\ control.t = "NAK"
      BY DEF Control, Register, Responses
    <2> HIDE DEF control
    <2>3. /\ e \in Device /\ SameSettings(d, e) /\ SameAnswer(d, e) /\ e.UEP0_CTRL = control
          /\ e.control_state = "LINE_CODING_OUT" /\ e.address_pending = d.address_pending
      BY <1>0, <2>1, <2>2, Zero DEF Device, SameSettings, SameAnswer
    <2> QED
      BY <1>0, <1>1, <2>1, <2>2, <2>3 DEF Outcome, Takes, Fits, SameAnswer
  <1>2. CASE s.request = "GET_LINE_CODING" /\ Is(s, {"A1"}, {0}, {0}, LINE_CODING_SIZE)
    <2> DEFINE answer == <<"line_coding", d.line_coding>>
    <2>1. /\ e = endpoint0_start_in(d, answer, 7, s.length) /\ WholeLength(s) = 7
          /\ s.type = "A1"
      BY <1>2 DEF handle_cdc_setup, Is, WholeLength, LINE_CODING_SIZE
    <2>2. answer \in Answers /\ answer[2] = Told(d, s)
      BY <1>0, <1>2 DEF Answers, Told, Device
    <2> HIDE DEF answer
    <2> QED
      BY <2>1, <2>2, AnswerOutcome
  <1>3. CASE s.request \in {"SET_CONTROL_LINE_STATE", "SEND_BREAK"}
             /\ s.type = "21" /\ s.index = 0 /\ s.length = 0
    <2>1. e = endpoint0_status_in(d) /\ FirstStage(s) = "status_in"
      BY <1>3 DEF handle_cdc_setup, FirstStage
    <2> QED
      BY <1>0, <1>3, <2>1, StatusOutcome
         DEF Outcome, Confirms, SameSettings, SameAddressing
  <1> QED
    BY <1>1, <1>2, <1>3, StallOutcome DEF handle_cdc_setup

LEMMA SetupOutcome ==
    ASSUME dev \in Device, Fits(dev), NEW s \in Setups, NEW e, e = handle_setup(s)
    PROVE  e \in Device /\ Fits(e) /\ Outcome(dev, s, e)
  <1> DEFINE d == NewTransfer
  <1>1. Begun(d) /\ SameSettings(dev, d)
    BY NewTransferFields
  <1>2. e \in Device /\ Fits(e) /\ Outcome(d, s, e)
    <2>1. CASE s.type \in {"00", "01", "02", "80", "81", "82"}
      <3>1. e = handle_standard_setup(d, s)
        BY <2>1 DEF handle_setup
      <3> HIDE DEF d
      <3> QED
        BY <1>1, <3>1, DescriptorOutcome, AcceptedOutcome, StallOutcome
           DEF handle_standard_setup
    <2>2. CASE s.type \in {"21", "A1"}
      <3>1. e = handle_cdc_setup(d, s)
        BY <2>2 DEF handle_setup
      <3> HIDE DEF d
      <3> QED
        BY <1>1, <2>2, <3>1, ClassOutcome
    <2>3. CASE s.type \notin {"00", "01", "02", "80", "81", "82", "21", "A1"}
      <3>1. e = endpoint0_stall(d)
        BY <2>3 DEF handle_setup
      <3> HIDE DEF d
      <3> QED
        BY <1>1, <3>1, StallOutcome
    <2> QED
      BY <2>1, <2>2, <2>3
  <1> HIDE DEF d
  <1> QED
    BY <1>1, <1>2 DEF Outcome, Rejects, Ignores, Replies, Confirms, Takes, SameSettings, Told

-----------------------------------------------------------------------------
(* The other handlers.                                                     *)

(* After a full packet, and unless the host has all it asked for, another  *)
(* packet follows, if only the empty one.                                  *)
LEMMA NextOffer ==
    ASSUME NEW d \in Device, Fits(d), NEW expected, expected \in Nat,
           NEW requested, requested \in Nat, Offer(d, expected, requested),
           NEW e, e = endpoint0_queue_next([d EXCEPT !.UEP0_CTRL.t_tog = ~@])
    PROVE  /\ e \in Device /\ Fits(e) /\ SameSettings(d, e) /\ SameAddressing(d, e)
           /\ e.answer = d.answer /\ e.UEP0_CTRL.r = "ACK" /\ e.UEP0_CTRL.t # "STALL"
           /\ e.control_state \in {"IN_DATA", "IDLE"}
           /\ e.UEP0_CTRL.t_tog = ~d.UEP0_CTRL.t_tog
           /\ d.UEP0_T_LEN = 8 /\ d.control_pointer < requested
                => /\ Offer(e, expected, requested)
                   /\ d.control_pointer = e.control_pointer - e.UEP0_T_LEN
  <1> DEFINE control == [d.UEP0_CTRL EXCEPT !.t_tog = ~@]
             f == [d EXCEPT !.UEP0_CTRL = control]
  <1>1. e = endpoint0_queue_next(f)
    OBVIOUS
  <1>2. /\ control \in Register /\ control.t_tog = ~d.UEP0_CTRL.t_tog
        /\ control.r = "ACK" /\ control.t = "ACK"
    BY Sizes DEF Register, Offer
  <1> HIDE DEF control
  <1>3. /\ f \in Device /\ SameSettings(d, f) /\ SameAddressing(d, f) /\ SameAnswer(d, f)
        /\ f.UEP0_CTRL = control /\ f.control_state = "IN_DATA"
        /\ f.control_send_zlp = d.control_send_zlp
    BY <1>2 DEF Device, SameSettings, SameAddressing, SameAnswer, Offer
  <1>4. Fits(f)
    BY <1>3 DEF SameAnswer, Fits
  <1> HIDE DEF f
  <1>5. /\ e \in Device /\ SameSettings(f, e) /\ SameAddressing(f, e)
        /\ e.answer = f.answer /\ Fits(e)
        /\ Shows(f.UEP0_CTRL.r_tog, f.UEP0_CTRL.t_tog, f.UEP0_CTRL.r, e.UEP0_CTRL.t, e)
    BY <1>1, <1>3, <1>4, QueueFields
  <1>6. /\ e \in Device /\ Fits(e) /\ SameSettings(d, e) /\ SameAddressing(d, e)
        /\ e.answer = d.answer /\ e.UEP0_CTRL.r = "ACK"
        /\ e.UEP0_CTRL.t_tog = ~d.UEP0_CTRL.t_tog
    BY <1>2, <1>3, <1>5 DEF SameSettings, SameAddressing, SameAnswer, Shows
  <1>7. CASE d.control_remaining # 0
    <2> DEFINE count == PacketSize(d.control_remaining)
    <2>1. f.control_remaining = d.control_remaining /\ f.control_remaining # 0
      BY <1>3, <1>7 DEF SameAnswer
    <2>2. /\ e.UEP0_CTRL.t = "ACK" /\ e.control_state = "IN_DATA"
          /\ e.control_pointer = d.control_pointer + count
          /\ e.control_remaining = d.control_remaining - count
          /\ e.packet = d.control_pointer /\ e.UEP0_T_LEN = count
          /\ e.control_send_zlp = d.control_send_zlp
      <3>1. /\ e.UEP0_CTRL.t = "ACK" /\ e.control_state = f.control_state
            /\ e.control_pointer = f.control_pointer + PacketSize(f.control_remaining)
            /\ e.control_remaining = f.control_remaining - PacketSize(f.control_remaining)
            /\ e.packet = f.control_pointer
            /\ e.UEP0_T_LEN = PacketSize(f.control_remaining)
            /\ e.control_send_zlp = f.control_send_zlp
        BY ONLY <1>1, <1>3, <1>4, <2>1, QueueFields
      <3> QED
        BY <1>3, <2>1, <3>1 DEF SameAnswer
    <2>3. /\ count \in 1 .. 8 /\ count \leq d.control_remaining
          /\ count # d.control_remaining => count = 8
      BY <1>7, Sizes DEF PacketSize, USB_EP0_SIZE
    <2> HIDE DEF count
    <2>4. /\ d.UEP0_T_LEN = 8 /\ d.control_pointer \in Multiples
          /\ d.control_pointer + d.control_remaining = expected
          /\ d.control_pointer + d.control_remaining \leq 75
          /\ d.control_send_zlp <=> expected < requested /\ expected \in Multiples
      BY <1>7 DEF Offer, Fits
    <2>5. count = 8 => d.control_pointer + count \in Multiples
      BY <2>3, <2>4, Sizes DEF Multiples
    <2>6. count # 8 => expected \notin Multiples
      BY <2>3, <2>4, Sizes DEF Multiples
    <2>7. Offer(e, expected, requested)
      BY <1>6, <2>2, <2>3, <2>4, <2>5, <2>6, Sizes DEF Offer
    <2> QED
      BY <1>6, <2>2, <2>3, <2>7, Sizes
  <1>8. CASE d.control_remaining = 0 /\ d.control_send_zlp
    <2>1. f.control_remaining = 0 /\ f.control_send_zlp
      BY <1>3, <1>8 DEF SameAnswer
    <2>2. /\ e.UEP0_CTRL.t = "ACK" /\ e.control_state = "IN_DATA"
          /\ e.control_pointer = d.control_pointer /\ e.control_remaining = 0
          /\ e.UEP0_T_LEN = 0 /\ e.control_send_zlp = FALSE
      BY <1>1, <1>3, <1>4, <2>1, QueueFields DEF SameAnswer
    <2>3. Offer(e, expected, requested)
      BY <1>6, <1>8, <2>2, Sizes DEF Offer
    <2> QED
      BY <1>6, <2>2, <2>3, Sizes
  <1>9. CASE d.control_remaining = 0 /\ ~d.control_send_zlp
    <2>1. f.control_remaining = 0 /\ f.control_send_zlp = FALSE
      BY <1>3, <1>9 DEF SameAnswer, Device
    <2>2. e.UEP0_CTRL.t = "NAK" /\ e.control_state = "IDLE"
      BY ONLY <1>1, <1>3, <1>4, <2>1, QueueFields
    <2>3. ~(d.UEP0_T_LEN = 8 /\ d.control_pointer < requested)
      BY <1>9, Sizes DEF Offer
    <2> QED
      BY <1>6, <2>2, <2>3
  <1> QED
    BY <1>7, <1>8, <1>9

(* The address changes with the handshake of the status stage.             *)
LEMMA StatusHandled ==
    ASSUME dev \in Device, Fits(dev), dev.control_state = "STATUS_IN",
           dev.UEP0_CTRL.r = "ACK", NEW e, e = handle_endpoint0_in
    PROVE  /\ e \in Device /\ Fits(e) /\ e.UEP0_CTRL.r = "ACK" /\ e.UEP0_CTRL.t = "NAK"
           /\ e.control_state = "IDLE"
           /\ e.current_configuration = dev.current_configuration
           /\ e.endpoint_halt = dev.endpoint_halt /\ e.line_coding = dev.line_coding
           /\ e.USB_DEV_AD = IF dev.address_pending THEN dev.pending_address
                             ELSE dev.USB_DEV_AD
  <1> DEFINE control == [dev.UEP0_CTRL EXCEPT !.t = "NAK"]
             address == IF dev.address_pending THEN dev.pending_address ELSE dev.USB_DEV_AD
  <1>1. /\ control \in Register /\ control.r = "ACK" /\ control.t = "NAK"
        /\ address \in Addresses
    BY DEF Device, Register, Responses
  <1>2. e = [dev EXCEPT !.UEP0_T_LEN = 0, !.UEP0_CTRL = control, !.control_state = "IDLE",
                        !.USB_DEV_AD = address, !.address_pending = FALSE]
    BY DEF handle_endpoint0_in
  <1> HIDE DEF control, address
  <1>3. /\ e \in Device /\ SameAnswer(dev, e) /\ e.UEP0_CTRL = control
        /\ e.control_state = "IDLE" /\ e.USB_DEV_AD = address
        /\ e.current_configuration = dev.current_configuration
        /\ e.endpoint_halt = dev.endpoint_halt /\ e.line_coding = dev.line_coding
    BY <1>1, <1>2, Zero DEF Device, SameAnswer
  <1> QED
    BY <1>1, <1>3 DEF Fits, SameAnswer, address

(* A packet of the host: the line coding, or the end of a transfer.        *)
Handled(e, coding) ==
    /\ e \in Device /\ Fits(e) /\ e.USB_DEV_AD = dev.USB_DEV_AD
    /\ e.current_configuration = dev.current_configuration
    /\ e.endpoint_halt = dev.endpoint_halt /\ SameAddressing(dev, e)
    /\ e.answer = dev.answer /\ e.UEP0_CTRL.r_tog = TRUE
    /\ \/ /\ dev.control_state = "LINE_CODING_OUT" /\ e.control_state = "STATUS_IN"
          /\ e.line_coding = coding
          /\ e.UEP0_CTRL.r = "ACK" /\ e.UEP0_CTRL.t = "ACK"
       \/ /\ dev.control_state = "LINE_CODING_OUT" /\ e.control_state = "IDLE"
          /\ e.line_coding = dev.line_coding
          /\ e.UEP0_CTRL.r = "STALL" /\ e.UEP0_CTRL.t = "STALL"
       \/ /\ dev.control_state # "LINE_CODING_OUT" /\ e.control_state = "IDLE"
          /\ e.line_coding = dev.line_coding
          /\ e.UEP0_CTRL.r = "ACK" /\ e.UEP0_CTRL.t = "NAK"

LEMMA OutHandled ==
    ASSUME dev \in Device, Fits(dev), NEW n, NEW coding, coding \in Codings,
           NEW e, e = handle_endpoint0_out(n, coding)
    PROVE  Handled(e, coding)
  <1> USE DEF Handled
  <1>1. CASE dev.control_state = "LINE_CODING_OUT" /\ n = LINE_CODING_SIZE
    <2> DEFINE f == [dev EXCEPT !.line_coding = coding]
    <2>1. e = endpoint0_status_in(f)
      BY <1>1 DEF handle_endpoint0_out, WithCoding
    <2>2. /\ f \in Device /\ f.USB_DEV_AD = dev.USB_DEV_AD
          /\ f.current_configuration = dev.current_configuration
          /\ f.endpoint_halt = dev.endpoint_halt /\ f.line_coding = coding
          /\ SameAddressing(dev, f) /\ SameAnswer(dev, f)
      BY DEF Device, SameAddressing, SameAnswer
    <2> HIDE DEF f
    <2>3. /\ e \in Device /\ SameSettings(f, e) /\ SameAddressing(f, e) /\ SameAnswer(f, e)
          /\ Shows(TRUE, TRUE, "ACK", "ACK", e) /\ e.control_state = "STATUS_IN"
      BY <2>1, <2>2, StatusFields
    <2> QED
      BY <1>1, <2>2, <2>3 DEF SameSettings, SameAddressing, SameAnswer, Fits, Shows
  <1>2. CASE dev.control_state = "LINE_CODING_OUT" /\ n # LINE_CODING_SIZE
    <2>1. e = endpoint0_stall(dev)
      BY <1>2 DEF handle_endpoint0_out
    <2> QED
      BY <1>2, <2>1, StallFields DEF SameSettings, SameAnswer, Fits, Shows
  <1>3. CASE dev.control_state # "LINE_CODING_OUT"
    <2> DEFINE control == Control(TRUE, TRUE, "ACK", "NAK")
    <2>1. /\ control \in Register /\ control.r_tog = TRUE
          /\ control.r = "ACK" /\ control.t = "NAK"
      BY DEF Control, Register, Responses
    <2>2. e = [dev EXCEPT !.UEP0_CTRL = control, !.control_state = "IDLE"]
      BY <1>3 DEF handle_endpoint0_out
    <2> HIDE DEF control
    <2>3. /\ e \in Device /\ SameSettings(dev, e) /\ SameAddressing(dev, e)
          /\ SameAnswer(dev, e) /\ e.UEP0_CTRL = control /\ e.control_state = "IDLE"
      BY <2>1, <2>2 DEF Device, SameSettings, SameAddressing, SameAnswer
    <2> QED
      BY <1>3, <2>1, <2>3 DEF SameSettings, SameAnswer, Fits
  <1> QED
    BY <1>1, <1>2, <1>3

LEMMA ResetFields ==
    ASSUME NEW d \in Device, Fits(d), NEW e, e = reset_usb_state(d)
    PROVE  /\ e \in Device /\ Fits(e)
           /\ e.USB_DEV_AD = 0 /\ e.current_configuration = 0 /\ e.endpoint_halt = {}
           /\ e.line_coding = d.line_coding /\ e.control_state = "IDLE"
           /\ e.UEP0_CTRL.r = "ACK" /\ e.UEP0_CTRL.t = "NAK"
  <1> DEFINE control == Control(FALSE, FALSE, "ACK", "NAK")
  <1>1. control \in Register /\ control.r = "ACK" /\ control.t = "NAK" /\ 0 \in Addresses
    BY DEF Control, Register, Responses, Addresses
  <1>2. e = [d EXCEPT !.current_configuration = 0, !.endpoint_halt = {},
                      !.address_pending = FALSE, !.control_state = "IDLE",
                      !.USB_DEV_AD = 0, !.UEP0_T_LEN = 0, !.UEP0_CTRL = control]
    BY DEF reset_usb_state, Configured
  <1> HIDE DEF control
  <1>3. /\ e \in Device /\ SameAnswer(d, e) /\ e.UEP0_CTRL = control
        /\ e.control_state = "IDLE" /\ e.USB_DEV_AD = 0 /\ e.line_coding = d.line_coding
        /\ e.current_configuration = 0 /\ e.endpoint_halt = {}
    BY <1>1, <1>2, Zero DEF Device, SameAnswer
  <1> QED
    BY <1>1, <1>3 DEF Fits, SameAnswer

-----------------------------------------------------------------------------
(* What the host does with its transfer.                                   *)
LEMMA AgreeFrame ==
    ASSUME NEW d, NEW e, SameSettings(d, e), NEW settings, NEW doubt, NEW more,
           Agree(d, settings, doubt), doubt \subseteq more
    PROVE  Agree(e, settings, more)
  BY DEF Agree, SameSettings

LEMMA NothingDoubtful == Doubtful(NoSetup) = {}
  BY DEF Doubtful, NoSetup

LEMMA OverFields ==
    ASSUME NEW h \in HostEnd, host' = Over(h)
    PROVE  /\ host' \in HostEnd /\ host'.stage = "idle" /\ host'.setup = NoSetup
           /\ host'.settings = h.settings /\ host'.doubt = h.doubt
  <1>1. "idle" \in Stages /\ 0 \in Lengths /\ DefaultCoding \in Codings
    BY ControlAssumption DEF Stages, Lengths
  <1> QED
    BY <1>1 DEF Over, HostEnd

(* Between transfers, agreement is all there is to show.                   *)
LEMMA IdleInv ==
    ASSUME dev' \in Device, Fits(dev'), StallsAgree', host' \in HostEnd,
           host'.stage = "idle", host'.setup = NoSetup,
           Agree(dev', host'.settings, host'.doubt)
    PROVE  IInv'
  <1>1. Agreement'
    BY NothingDoubtful DEF Agreement
  <1> QED
    BY <1>1 DEF IInv, TypeOK, Answering, Confirming, Taking, AnswerRight

HaltsAfter(settings, s) ==
    CASE s.request = "SET_CONFIGURATION" -> {}
      [] s.request = "SET_FEATURE" -> settings.halts \cup {s.index}
      [] s.request = "CLEAR_FEATURE" -> settings.halts \ {s.index}
      [] OTHER -> settings.halts

LEMMA SetFields ==
    ASSUME NEW settings, settings \in Settings, NEW s, NEW coding
    PROVE  /\ Set(settings, s, coding).address
                = IF s.request = "SET_ADDRESS" THEN s.value ELSE settings.address
           /\ Set(settings, s, coding).configuration
                = IF s.request = "SET_CONFIGURATION" THEN s.value ELSE settings.configuration
           /\ Set(settings, s, coding).halts = HaltsAfter(settings, s)
           /\ Set(settings, s, coding).coding
                = IF s.request = "SET_LINE_CODING" THEN coding ELSE settings.coding
  <1> USE DEF Settings, Set, HaltsAfter
  <1>1. CASE s.request = "SET_ADDRESS"
    BY <1>1
  <1>2. CASE s.request = "SET_CONFIGURATION"
    BY <1>2
  <1>3. CASE s.request = "SET_FEATURE"
    BY <1>3
  <1>4. CASE s.request = "CLEAR_FEATURE"
    BY <1>4
  <1>5. CASE s.request = "SET_LINE_CODING"
    BY <1>5
  <1>6. CASE s.request \notin {"SET_ADDRESS", "SET_CONFIGURATION", "SET_FEATURE",
                               "CLEAR_FEATURE", "SET_LINE_CODING"}
    BY <1>6
  <1> QED
    BY <1>1, <1>2, <1>3, <1>4, <1>5, <1>6

LEMMA WholeLengths == ASSUME NEW s PROVE WholeLength(s) \in 0 .. 75
  BY DescriptorLengths DEF WholeLength, LINE_CODING_SIZE

-----------------------------------------------------------------------------
(* Every step keeps the invariant.                                         *)
LEMMA InitInv == Init => IInv
  <1> SUFFICES ASSUME Init
               PROVE  IInv
    OBVIOUS
  <1> DEFINE zeroed ==
        [control_state |-> "IDLE", control_remaining |-> 0, control_send_zlp |-> FALSE,
         control_pointer |-> 0, packet |-> 0, answer |-> NoAnswer,
         pending_address |-> 0, address_pending |-> FALSE, USB_DEV_AD |-> 0,
         current_configuration |-> 0, endpoint_halt |-> {}, line_coding |-> DefaultCoding,
         UEP0_T_LEN |-> 0, UEP0_CTRL |-> Control(FALSE, FALSE, "ACK", "NAK")]
  <1>1. /\ 0 \in Lengths /\ 0 \in Addresses /\ {} \in SUBSET Halts /\ NoAnswer \in Answers
        /\ Control(FALSE, FALSE, "ACK", "NAK") \in Register /\ DefaultCoding \in Codings
    BY ControlAssumption DEF Lengths, Addresses, Answers, Control, Register, Responses
  <1>2. zeroed \in Device
    BY <1>1, Zero DEF Device
  <1>3. Fits(zeroed) /\ zeroed.line_coding = DefaultCoding
    BY DEF Fits
  <1>4. dev = reset_usb_state(zeroed)
    BY DEF Init
  <1> HIDE DEF zeroed
  <1>5. /\ dev \in Device /\ Fits(dev)
        /\ dev.USB_DEV_AD = 0 /\ dev.current_configuration = 0 /\ dev.endpoint_halt = {}
        /\ dev.line_coding = DefaultCoding /\ dev.control_state = "IDLE"
        /\ dev.UEP0_CTRL.r = "ACK" /\ dev.UEP0_CTRL.t = "NAK"
    BY <1>2, <1>3, <1>4, ResetFields
  <1>6. /\ host.stage = "idle" /\ host.setup = NoSetup /\ host.doubt = {}
        /\ host.settings = [address |-> 0, configuration |-> 0, halts |-> {},
                            coding |-> DefaultCoding]
    BY DEF Init
  <1>7. host \in HostEnd
    BY <1>1 DEF Init, HostEnd, Settings, Stages
  <1>8. Agree(dev, host.settings, host.doubt)
    BY <1>5, <1>6 DEF Agree
  <1>9. Agreement
    BY <1>6, <1>8, NothingDoubtful DEF Agreement
  <1> QED
    BY <1>5, <1>6, <1>7, <1>9
       DEF IInv, TypeOK, StallsAgree, Answering, Confirming, Taking, AnswerRight

LEMMA SetupInv ==
    ASSUME IInv, NEW s \in Setups, NEW coding \in Codings, Setup(s, coding)
    PROVE  IInv'
  <1>1. /\ dev' \in Device /\ Fits(dev') /\ Outcome(dev, s, dev')
    BY SetupOutcome DEF IInv, TypeOK, Setup
  <1>2. /\ host' \in HostEnd /\ host'.stage = FirstStage(s) /\ host'.setup = s
        /\ host'.coding = coding /\ host'.tog = TRUE /\ host'.got = 0 /\ host'.intact = TRUE
        /\ host'.settings = host.settings /\ host'.doubt = host.doubt
    <2>1. FirstStage(s) \in Stages /\ 0 \in Lengths
      BY DEF FirstStage, Stages, Lengths
    <2> QED
      BY <2>1 DEF Setup, IInv, TypeOK, HostEnd
  <1>3. host.stage = "idle" /\ Agree(dev, host.settings, host.doubt)
    BY DEF Setup, IInv, Agreement
  <1>4. host.settings \in Settings
    BY DEF IInv, TypeOK, HostEnd
  <1>5. AnswerRight'
    BY <1>2 DEF AnswerRight, FirstStage
  <1>6. SameSettings(dev, dev')
          => Agree(dev', host'.settings, host'.doubt)
             /\ Agree(dev', host'.settings, host'.doubt \cup Doubtful(host'.setup))
    BY <1>2, <1>3, AgreeFrame
  <1>7. CASE Rejects(dev, dev')
    BY <1>1, <1>2, <1>5, <1>6, <1>7
       DEF Rejects, IInv, TypeOK, StallsAgree, Answering, Agreement, Confirming, Taking
  <1>8. CASE Ignores(dev, s, dev')
    BY <1>1, <1>2, <1>5, <1>6, <1>8
       DEF Ignores, IInv, TypeOK, StallsAgree, Answering, Agreement, Confirming, Taking
  <1>9. CASE Replies(dev, s, dev')
    <2>1. /\ SameSettings(dev, dev') /\ host'.stage = "data_in"
          /\ Offer(dev', Expected', s.length)
          /\ dev'.UEP0_T_LEN = dev'.control_pointer /\ dev'.UEP0_CTRL.t_tog = TRUE
          /\ dev'.answer[2] = Told(dev, s)
      BY <1>2, <1>9 DEF Replies, Expected
    <2>2. Says(host.setup, dev.answer[2])'
      BY <1>2, <1>3, <2>1 DEF Says, Told, Agree
    <2>3. host'.got = dev'.control_pointer - dev'.UEP0_T_LEN
      BY <1>1, <1>2, <2>1, Sizes
    <2>5. Answering'
      BY <1>2, <2>1, <2>2, <2>3 DEF Answering
    <2>4. /\ dev'.UEP0_CTRL.t = "ACK" /\ dev'.UEP0_CTRL.r = "ACK"
          /\ dev'.control_state = "IN_DATA"
      BY <2>1 DEF Offer
    <2> QED
      BY <1>1, <1>2, <1>5, <1>6, <2>1, <2>4, <2>5
         DEF IInv, TypeOK, StallsAgree, Agreement, Confirming, Taking
  <1>10. CASE Confirms(dev, s, dev')
    <2>1. Agree(dev', host'.settings, host'.doubt \cup Doubtful(host'.setup))
      BY <1>2, <1>3, <1>10 DEF Confirms, Agree, Doubtful
    <2> DEFINE set == Set(host.settings, s, coding)
               doubt == host.doubt \ Definite(s)
    <2>2. /\ "configuration" \in doubt \/ dev'.current_configuration = set.configuration
          /\ "halts" \in doubt \/ dev'.endpoint_halt = set.halts
          /\ "coding" \in doubt \/ dev'.line_coding = set.coding
      <3>1. /\ set.configuration = IF s.request = "SET_CONFIGURATION" THEN s.value
                                   ELSE host.settings.configuration
            /\ set.halts = HaltsAfter(host.settings, s)
            /\ set.coding = IF s.request = "SET_LINE_CODING" THEN coding
                            ELSE host.settings.coding
        BY <1>4, SetFields
      <3> HIDE DEF set
      <3>2. /\ "configuration" \in doubt
                 => "configuration" \in host.doubt /\ s.request # "SET_CONFIGURATION"
            /\ "halts" \in doubt => "halts" \in host.doubt
            /\ s.request \notin {"SET_CONFIGURATION", "SET_LINE_CODING"} => doubt = host.doubt
            /\ s.request = "SET_CONFIGURATION" /\ "coding" \in host.doubt
                 => "coding" \in doubt
        BY DEF Definite
      <3> HIDE DEF doubt
      <3> QED
        BY <1>3, <1>10, <3>1, <3>2 DEF Confirms, Agree, HaltsAfter
    <2>3. Confirming'
      BY <1>2, <1>10, <2>2 DEF Confirms, Confirming
    <2> QED
      BY <1>1, <1>2, <1>5, <1>10, <2>1, <2>3
         DEF Confirms, IInv, TypeOK, StallsAgree, Answering, Agreement, Taking
  <1>11. CASE Takes(dev, s, dev')
    BY <1>1, <1>2, <1>5, <1>6, <1>11
       DEF Takes, IInv, TypeOK, StallsAgree, Answering, Agreement, Confirming, Taking
  <1> QED
    BY <1>1, <1>7, <1>8, <1>9, <1>10, <1>11 DEF Outcome

LEMMA RejectedInv ==
    ASSUME IInv, Rejected
    PROVE  IInv'
  <1>1. dev' = dev /\ host' = Over(host)
    BY DEF Rejected
  <1>2. Agree(dev, host.settings, host.doubt)
    BY DEF Rejected, IInv, StallsAgree, Agreement
  <1>3. host \in HostEnd
    BY DEF IInv, TypeOK
  <1>4. /\ host' \in HostEnd /\ host'.stage = "idle" /\ host'.setup = NoSetup
        /\ host'.settings = host.settings /\ host'.doubt = host.doubt
    BY <1>1, <1>3, OverFields
  <1>5. StallsAgree' /\ dev' \in Device /\ Fits(dev')
    BY <1>1 DEF IInv, TypeOK, StallsAgree
  <1> QED
    BY <1>1, <1>2, <1>4, <1>5, IdleInv

LEMMA GiveUpInv ==
    ASSUME IInv, GiveUp
    PROVE  IInv'
  <1> DEFINE h == [host EXCEPT !.doubt = @ \cup Doubtful(host.setup)]
  <1>1. dev' = dev /\ host' = Over(h)
    BY DEF GiveUp
  <1>2. h \in HostEnd /\ h.settings = host.settings /\ h.doubt = host.doubt \cup Doubtful(host.setup)
    <2>1. Doubtful(host.setup) \subseteq {"configuration", "halts", "coding"}
      BY DEF Doubtful
    <2> QED
      BY <2>1 DEF IInv, TypeOK, HostEnd
  <1> HIDE DEF h
  <1>3. /\ host' \in HostEnd /\ host'.stage = "idle" /\ host'.setup = NoSetup
        /\ host'.settings = h.settings /\ host'.doubt = h.doubt
    BY <1>1, <1>2, OverFields
  <1>4. Agree(dev', host'.settings, host'.doubt)
    BY <1>1, <1>2, <1>3 DEF IInv, Agreement
  <1>5. StallsAgree' /\ dev' \in Device /\ Fits(dev')
    BY <1>1 DEF IInv, TypeOK, StallsAgree
  <1> QED
    BY <1>3, <1>4, <1>5, IdleInv

LEMMA BusResetInv ==
    ASSUME IInv, BusReset
    PROVE  IInv'
  <1> DEFINE settings == [host.settings EXCEPT !.address = 0, !.configuration = 0, !.halts = {}]
             doubt == (host.doubt \cup Doubtful(host.setup)) \cap {"coding"}
             h == [host EXCEPT !.settings = settings, !.doubt = doubt]
  <1>1. host' = Over(h) /\ dev' = reset_usb_state(dev)
    BY DEF BusReset
  <1>2. /\ settings \in Settings /\ settings.address = 0 /\ settings.configuration = 0
        /\ settings.halts = {} /\ settings.coding = host.settings.coding
    BY DEF IInv, TypeOK, HostEnd, Settings, Addresses
  <1> HIDE DEF settings
  <1>3. h \in HostEnd /\ h.settings = settings /\ h.doubt = doubt
    BY <1>2 DEF IInv, TypeOK, HostEnd
  <1> HIDE DEF h
  <1>4. /\ host' \in HostEnd /\ host'.stage = "idle" /\ host'.setup = NoSetup
        /\ host'.settings = settings /\ host'.doubt = doubt
    BY <1>1, <1>3, OverFields
  <1>5. /\ dev' \in Device /\ Fits(dev')
        /\ dev'.USB_DEV_AD = 0 /\ dev'.current_configuration = 0 /\ dev'.endpoint_halt = {}
        /\ dev'.line_coding = dev.line_coding
        /\ dev'.UEP0_CTRL.r = "ACK" /\ dev'.UEP0_CTRL.t = "NAK"
    BY <1>1, ResetFields DEF IInv, TypeOK
  <1>6. Agree(dev', host'.settings, host'.doubt)
    BY <1>2, <1>4, <1>5 DEF IInv, Agreement, Agree
  <1> QED
    BY <1>4, <1>5, <1>6, IdleInv DEF StallsAgree

(* What the host notes at the status stage has happened, or happens with    *)
(* the handshake, or is in doubt for want of one.                          *)
LEMMA StatusInInv ==
    ASSUME IInv, NEW handshake \in BOOLEAN, StatusIn(handshake)
    PROVE  IInv'
  <1> DEFINE set == Set(host.settings, host.setup, host.coding)
             unsure == IF ~handshake /\ host.setup.request = "SET_ADDRESS"
                       THEN {"address"} ELSE {}
             doubt == (host.doubt \ Definite(host.setup)) \cup unsure
             h == [host EXCEPT !.settings = set, !.doubt = doubt]
  <1>1. /\ host.stage = "status_in" /\ dev.UEP0_CTRL.t = "ACK" /\ Reachable
        /\ dev' = IF handshake THEN handle_endpoint0_in ELSE dev
        /\ host' = Over(h)
    BY DEF StatusIn
  <1>2. /\ dev.control_state = "STATUS_IN" /\ dev.UEP0_CTRL.r = "ACK"
        /\ dev.address_pending <=> host.setup.request = "SET_ADDRESS"
        /\ dev.address_pending => dev.pending_address = host.setup.value
        /\ host.setup.request = "SET_FEATURE" => host.setup.index \in Halts
        /\ "configuration" \in doubt \/ dev.current_configuration = set.configuration
        /\ "halts" \in doubt \/ dev.endpoint_halt = set.halts
        /\ "coding" \in doubt \/ dev.line_coding = set.coding
    BY <1>1 DEF IInv, Confirming
  <1>3. host.settings \in Settings /\ host.coding \in Codings
    BY DEF IInv, TypeOK, HostEnd
  <1>4. set \in Settings
    <2>1. host.setup.request = "SET_ADDRESS" => host.setup.value \in Addresses
      BY <1>2 DEF IInv, TypeOK, Device
    <2>2. host.setup.request = "SET_CONFIGURATION" => host.setup.value \in {0, 1}
      <3>1. host.setup.request = "SET_CONFIGURATION" => "configuration" \notin doubt
        BY DEF Definite
      <3>2. host.setup.request = "SET_CONFIGURATION"
              => dev.current_configuration = host.setup.value
        BY <1>2, <1>3, <3>1, SetFields
      <3> QED
        BY <3>2 DEF IInv, TypeOK, Device
    <2> QED
      BY <1>2, <1>3, <2>1, <2>2 DEF Set, Settings
  <1>5. set.address = IF host.setup.request = "SET_ADDRESS" THEN host.setup.value
                      ELSE host.settings.address
    BY <1>3, SetFields
  <1>6. doubt \in SUBSET {"address", "configuration", "halts", "coding"}
    BY DEF IInv, TypeOK, HostEnd
  <1>7. ~handshake /\ host.setup.request = "SET_ADDRESS" => "address" \in doubt
    OBVIOUS
  <1> HIDE DEF set, doubt
  <1>8. h \in HostEnd /\ h.settings = set /\ h.doubt = doubt
    BY <1>4, <1>6 DEF IInv, TypeOK, HostEnd
  <1> HIDE DEF h
  <1>9. /\ host' \in HostEnd /\ host'.stage = "idle" /\ host'.setup = NoSetup
        /\ host'.settings = set /\ host'.doubt = doubt
    BY <1>1, <1>8, OverFields
  <1>10. CASE handshake
    <2>1. /\ dev' \in Device /\ Fits(dev')
          /\ dev'.UEP0_CTRL.r = "ACK" /\ dev'.UEP0_CTRL.t = "NAK"
          /\ dev'.current_configuration = dev.current_configuration
          /\ dev'.endpoint_halt = dev.endpoint_halt /\ dev'.line_coding = dev.line_coding
          /\ dev'.USB_DEV_AD = IF dev.address_pending THEN dev.pending_address
                               ELSE dev.USB_DEV_AD
      BY <1>1, <1>2, <1>10, StatusHandled DEF IInv, TypeOK
    <2>2. dev'.USB_DEV_AD = set.address
      BY <1>1, <1>2, <1>5, <2>1 DEF Reachable
    <2>3. Agree(dev', host'.settings, host'.doubt)
      BY <1>2, <1>9, <2>1, <2>2 DEF Agree
    <2> QED
      BY <1>9, <2>1, <2>3, IdleInv DEF StallsAgree
  <1>11. CASE ~handshake
    <2>1. dev' = dev
      BY <1>1, <1>11
    <2>2. "address" \in doubt \/ dev.USB_DEV_AD = set.address
      BY <1>1, <1>5, <1>7, <1>11 DEF Reachable
    <2>3. Agree(dev', host'.settings, host'.doubt)
      BY <1>2, <1>9, <2>1, <2>2 DEF Agree
    <2>4. dev' \in Device /\ Fits(dev') /\ StallsAgree'
      BY <2>1 DEF IInv, TypeOK, StallsAgree
    <2> QED
      BY <1>9, <2>3, <2>4, IdleInv
  <1> QED
    BY <1>10, <1>11

(* A data packet leaves the host behind by one packet at most, and what it *)
(* takes for the end is the end.                                           *)
LEMMA DataInInv ==
    ASSUME IInv, NEW handshake \in BOOLEAN, DataIn(handshake)
    PROVE  IInv'
  <1> DEFINE length == host.setup.length
             new == dev.UEP0_CTRL.t_tog = host.tog
             got == host.got + dev.UEP0_T_LEN
             ended == dev.UEP0_T_LEN < USB_EP0_SIZE \/ got \geq length
             stage == IF ended THEN "status_out" ELSE host.stage
             intact == host.intact /\ (dev.UEP0_T_LEN = 0 \/ dev.packet = host.got)
  <1>1. /\ host.stage = "data_in" /\ dev.UEP0_CTRL.t = "ACK"
        /\ dev' = IF handshake THEN handle_endpoint0_in ELSE dev
        /\ host' = IF ~new THEN host
                   ELSE [host EXCEPT !.tog = ~@, !.got = got, !.intact = intact, !.stage = stage]
    BY DEF DataIn
  <1>2. /\ Offer(dev, Expected, length)
        /\ new => host.got = dev.control_pointer - dev.UEP0_T_LEN
        /\ ~new => host.got = dev.control_pointer /\ host.got < length /\ dev.UEP0_T_LEN = 8
        /\ host.intact = TRUE /\ Says(host.setup, dev.answer[2])
    BY <1>1 DEF IInv, TypeOK, HostEnd, Answering
  <1>3. dev \in Device /\ Fits(dev) /\ host \in HostEnd
    BY DEF IInv, TypeOK
  <1>4. length \in Nat
    BY <1>3, SetupFields DEF HostEnd, NoSetup
  <1>5. Expected \in Nat /\ Expected \in 0 .. 75 /\ Expected \leq length
    BY <1>4, WholeLengths DEF Expected, SendLength
  <1>e. handshake => dev' = endpoint0_queue_next([dev EXCEPT !.UEP0_CTRL.t_tog = ~@])
    BY <1>1, <1>2 DEF handle_endpoint0_in, Offer
  <1> HIDE DEF length
  <1>n. handshake
          => /\ dev' \in Device /\ Fits(dev') /\ SameSettings(dev, dev')
             /\ dev'.answer = dev.answer /\ dev'.UEP0_CTRL.r = "ACK"
             /\ dev'.UEP0_CTRL.t # "STALL" /\ dev'.control_state \in {"IN_DATA", "IDLE"}
             /\ dev'.UEP0_CTRL.t_tog = ~dev.UEP0_CTRL.t_tog
             /\ dev.UEP0_T_LEN = 8 /\ dev.control_pointer < length
                  => /\ Offer(dev', Expected, length)
                     /\ dev.control_pointer = dev'.control_pointer - dev'.UEP0_T_LEN
    <2> SUFFICES ASSUME handshake
                 PROVE  <1>n!2
      OBVIOUS
    <2> QED
      BY <1>2, <1>3, <1>4, <1>5, <1>e, NextOffer
  <1>6. /\ dev' \in Device /\ Fits(dev') /\ SameSettings(dev, dev')
        /\ dev'.answer = dev.answer /\ dev'.UEP0_CTRL.r = "ACK"
        /\ dev'.UEP0_CTRL.t # "STALL" /\ dev'.control_state \in {"IN_DATA", "IDLE"}
    <2>1. CASE handshake
      BY <1>n, <2>1
    <2>2. CASE ~handshake
      <3>1. dev' = dev
        BY <1>1, <2>2
      <3> QED
        BY <1>2, <1>3, <3>1 DEF SameSettings, Offer
    <2> QED
      BY <2>1, <2>2
  <1>7. new => got = dev.control_pointer /\ got \in Lengths
    BY <1>2, <1>3, Sizes DEF Lengths
  <1>8. new => intact = TRUE
    BY <1>2 DEF Offer
  <1>9. stage \in {"data_in", "status_out"} /\ stage \in Stages
    BY <1>1 DEF Stages
  <1> HIDE DEF got, intact, stage
  <1>10. /\ host' \in HostEnd /\ host'.setup = host.setup /\ host'.intact = TRUE
         /\ host'.settings = host.settings /\ host'.doubt = host.doubt
         /\ host'.stage \in {"data_in", "status_out"}
         /\ host'.stage = IF new THEN stage ELSE "data_in"
         /\ host'.tog = ~dev.UEP0_CTRL.t_tog
         /\ host'.got = dev.control_pointer
    <2>1. CASE new
      BY <1>1, <1>3, <1>7, <1>8, <1>9, <2>1 DEF HostEnd
    <2>2. CASE ~new
      BY <1>1, <1>2, <1>3, <2>2, Sizes DEF HostEnd, Register
    <2> QED
      BY <2>1, <2>2
  <1>11. Says(host.setup, dev.answer[2])'
    BY <1>2, <1>6, <1>10 DEF Says
  <1>12. CASE host'.stage = "data_in"
    <2>1. host'.got < length /\ dev.UEP0_T_LEN = 8
      <3>1. CASE new
        <4>1. ~(dev.UEP0_T_LEN < 8) /\ ~(got \geq length)
          BY <1>10, <1>12, <3>1 DEF stage, USB_EP0_SIZE
        <4> QED
          BY <1>3, <1>4, <1>7, <1>10, <3>1, <4>1, Sizes
      <3>2. CASE ~new
        BY <1>2, <1>10, <3>2
      <3> QED
        BY <3>1, <3>2
    <2>2. Offer(dev', Expected', length) /\ Expected' = Expected
      <3>1. Expected' = Expected
        BY <1>10 DEF Expected
      <3>2. CASE handshake
        BY <1>n, <1>10, <2>1, <3>1, <3>2
      <3>3. CASE ~handshake
        BY <1>1, <1>2, <3>1, <3>3
      <3> QED
        BY <3>2, <3>3
    <2>3. IF dev'.UEP0_CTRL.t_tog = host'.tog
          THEN host'.got = dev'.control_pointer - dev'.UEP0_T_LEN
          ELSE /\ host'.got = dev'.control_pointer /\ host'.got < length
               /\ dev'.UEP0_T_LEN = 8
      <3>1. CASE handshake
        BY <1>n, <1>10, <2>1, <3>1
      <3>2. CASE ~handshake
        <4>1. dev' = dev
          BY <1>1, <3>2
        <4>2. dev.UEP0_CTRL.t_tog \in BOOLEAN
          BY <1>3, Sizes DEF Register
        <4> QED
          BY <1>10, <2>1, <4>1, <4>2
      <3> QED
        BY <3>1, <3>2
    <2>4. Answering' /\ AnswerRight'
      BY <1>10, <1>11, <1>12, <2>2, <2>3 DEF Answering, AnswerRight, length
    <2>5. Agreement'
      BY <1>1, <1>6, <1>10, AgreeFrame DEF IInv, Agreement
    <2> QED
      BY <1>6, <1>10, <2>4, <2>5, <1>12
         DEF IInv, TypeOK, StallsAgree, Confirming, Taking
  <1>13. CASE host'.stage = "status_out"
    <2>1. new /\ ended
      BY <1>10, <1>1, <1>13 DEF stage
    <2>2. dev.control_pointer = Expected
      BY <1>2, <1>3, <1>4, <1>5, <1>7, <2>1, Sizes DEF Offer, USB_EP0_SIZE
    <2>3. host'.got = IF WholeLength(host.setup) < length THEN WholeLength(host.setup) ELSE length
      BY <1>4, <1>10, <2>2, WholeLengths DEF Expected, SendLength, length
    <2>4. Answering' /\ AnswerRight'
      BY <1>10, <1>11, <1>13, <2>3 DEF Answering, AnswerRight, length
    <2>5. Agreement'
      BY <1>1, <1>6, <1>10, AgreeFrame DEF IInv, Agreement
    <2> QED
      BY <1>6, <1>10, <2>4, <2>5, <1>13
         DEF IInv, TypeOK, StallsAgree, Confirming, Taking
  <1> QED
    BY <1>10, <1>12, <1>13

(* A line coding that is taken, once or again, is the one of the request.   *)
LEMMA DataOutInv ==
    ASSUME IInv, NEW n, NEW handshake \in BOOLEAN, DataOut(n, handshake)
    PROVE  IInv'
  <1>1. /\ host.stage = "data_out" /\ dev.UEP0_CTRL.r = "ACK"
        /\ dev' = IF dev.UEP0_CTRL.r_tog THEN handle_endpoint0_out(n, host.coding) ELSE dev
        /\ host' = IF ~handshake THEN [host EXCEPT !.repeats = TRUE]
                   ELSE [host EXCEPT !.stage = "status_in"]
    BY DEF DataOut, Out
  <1>2. /\ dev \in Device /\ Fits(dev) /\ host \in HostEnd
        /\ host.coding \in Codings /\ host.settings \in Settings
    BY DEF IInv, TypeOK, HostEnd
  <1>3. /\ host.setup.request = "SET_LINE_CODING" /\ dev.UEP0_CTRL.r_tog = TRUE
        /\ ~dev.address_pending
    BY <1>1 DEF IInv, Taking
  <1>4. Doubtful(host.setup) = {"coding"} /\ Definite(host.setup) = {"coding"}
    BY <1>3 DEF Doubtful, Definite
  <1>5. /\ Agree(dev, host.settings, host.doubt \cup {"coding"})
        /\ dev.control_state = "LINE_CODING_OUT" => Agree(dev, host.settings, host.doubt)
    BY <1>4 DEF IInv, Agreement
  <1>6. /\ host' \in HostEnd /\ host'.setup = host.setup /\ host'.coding = host.coding
        /\ host'.settings = host.settings /\ host'.doubt = host.doubt
        /\ host'.stage \in {"data_out", "status_in"}
    BY <1>1, <1>2 DEF HostEnd, Stages
  <1>7. dev' = handle_endpoint0_out(n, host.coding)
    BY <1>1, <1>3
  <1>8. /\ dev' \in Device /\ Fits(dev') /\ dev'.USB_DEV_AD = dev.USB_DEV_AD
        /\ dev'.current_configuration = dev.current_configuration
        /\ dev'.endpoint_halt = dev.endpoint_halt /\ SameAddressing(dev, dev')
        /\ dev'.UEP0_CTRL.r_tog = TRUE
        /\ \/ /\ dev'.control_state = "STATUS_IN" /\ dev'.line_coding = host.coding
              /\ dev'.UEP0_CTRL.r = "ACK" /\ dev'.UEP0_CTRL.t = "ACK"
           \/ /\ dev.control_state = "LINE_CODING_OUT" /\ dev'.control_state = "IDLE"
              /\ dev'.line_coding = dev.line_coding
              /\ dev'.UEP0_CTRL.r = "STALL" /\ dev'.UEP0_CTRL.t = "STALL"
           \/ /\ dev'.control_state = "IDLE" /\ dev'.line_coding = dev.line_coding
              /\ dev'.UEP0_CTRL.r = "ACK" /\ dev'.UEP0_CTRL.t = "NAK"
    <2>1. Handled(dev', host.coding)
      BY <1>2, <1>7, OutHandled
    <2> QED
      BY <2>1 DEF Handled
  <1>9. Agree(dev', host'.settings, host'.doubt \cup Doubtful(host'.setup))
    BY <1>4, <1>5, <1>6, <1>8 DEF Agree
  <1>10. dev'.UEP0_CTRL.t = "STALL" => Agree(dev', host'.settings, host'.doubt)
    BY <1>5, <1>6, <1>8 DEF Agree
  <1>11. Agreement'
    BY <1>6, <1>8, <1>9, <1>10 DEF Agreement
  <1>12. Confirming'
    <2> SUFFICES ASSUME dev'.UEP0_CTRL.t = "ACK"
                 PROVE  Confirming'
      BY DEF Confirming
    <2> DEFINE set == Set(host.settings, host.setup, host.coding)
               doubt == host.doubt \ Definite(host.setup)
    <2>1. /\ dev'.control_state = "STATUS_IN" /\ dev'.line_coding = host.coding
          /\ dev'.UEP0_CTRL.r = "ACK" /\ ~dev'.address_pending
      BY <1>3, <1>8 DEF SameAddressing
    <2>2. /\ set.configuration = host.settings.configuration
          /\ set.halts = host.settings.halts /\ set.coding = host.coding
      <3>1. /\ set.configuration = IF host.setup.request = "SET_CONFIGURATION"
                                   THEN host.setup.value ELSE host.settings.configuration
            /\ set.halts = HaltsAfter(host.settings, host.setup)
            /\ set.coding = IF host.setup.request = "SET_LINE_CODING" THEN host.coding
                            ELSE host.settings.coding
        BY <1>2, SetFields
      <3> HIDE DEF set
      <3> QED
        BY <1>3, <3>1 DEF HaltsAfter
    <2>3. /\ "configuration" \in doubt <=> "configuration" \in host.doubt
          /\ "halts" \in doubt <=> "halts" \in host.doubt
      BY <1>4
    <2> HIDE DEF set, doubt
    <2>4. /\ "configuration" \in doubt \/ dev'.current_configuration = set.configuration
          /\ "halts" \in doubt \/ dev'.endpoint_halt = set.halts
          /\ "coding" \in doubt \/ dev'.line_coding = set.coding
      BY <1>5, <1>8, <2>1, <2>2, <2>3 DEF Agree
    <2> QED
      BY <1>3, <1>6, <2>1, <2>4 DEF Confirming, set, doubt
  <1>13. Taking'
    BY <1>3, <1>6, <1>8 DEF Taking, SameAddressing
  <1> QED
    BY <1>6, <1>8, <1>11, <1>12, <1>13 DEF IInv, TypeOK, StallsAgree, Answering, AnswerRight

(* The end of an answer changes nothing.                                   *)
LEMMA StatusOutInv ==
    ASSUME IInv, NEW handshake \in BOOLEAN, StatusOut(handshake)
    PROVE  IInv'
  <1>1. /\ host.stage = "status_out"
        /\ dev' = IF dev.UEP0_CTRL.r_tog THEN handle_endpoint0_out(0, host.coding) ELSE dev
        /\ host' = IF ~handshake THEN [host EXCEPT !.repeats = FALSE] ELSE Over(host)
    BY DEF StatusOut, Out
  <1>2. /\ dev \in Device /\ Fits(dev) /\ host \in HostEnd /\ host.coding \in Codings
    BY DEF IInv, TypeOK, HostEnd
  <1>3. dev.control_state # "LINE_CODING_OUT" /\ Agree(dev, host.settings, host.doubt)
    BY <1>1 DEF IInv, Taking, Agreement
  <1>4. /\ dev' \in Device /\ Fits(dev') /\ SameSettings(dev, dev')
        /\ dev'.answer = dev.answer /\ dev'.control_state # "LINE_CODING_OUT"
        /\ StallsAgree'
    <2>1. CASE dev' = handle_endpoint0_out(0, host.coding)
      <3>1. Handled(dev', host.coding)
        BY <1>2, <2>1, OutHandled
      <3> QED
        BY <1>3, <3>1 DEF Handled, SameSettings, StallsAgree
    <2>2. CASE dev' = dev
      BY <1>2, <1>3, <2>2 DEF SameSettings, IInv, StallsAgree
    <2> QED
      BY <1>1, <2>1, <2>2
  <1>5. CASE handshake
    <2>1. /\ host' \in HostEnd /\ host'.stage = "idle" /\ host'.setup = NoSetup
          /\ host'.settings = host.settings /\ host'.doubt = host.doubt
      BY <1>1, <1>2, <1>5, OverFields
    <2>2. Agree(dev', host'.settings, host'.doubt)
      BY <1>3, <1>4, <2>1, AgreeFrame
    <2> QED
      BY <1>4, <2>1, <2>2, IdleInv
  <1>6. CASE ~handshake
    <2>1. /\ host' \in HostEnd /\ host'.stage = "status_out" /\ host'.setup = host.setup
          /\ host'.settings = host.settings /\ host'.doubt = host.doubt
          /\ host'.intact = host.intact /\ host'.got = host.got
      BY <1>1, <1>2, <1>6 DEF HostEnd
    <2>2. /\ Agree(dev', host'.settings, host'.doubt)
          /\ Agree(dev', host'.settings, host'.doubt \cup Doubtful(host'.setup))
      BY <1>3, <1>4, <2>1, AgreeFrame
    <2>3. AnswerRight'
      BY <1>1, <1>4, <2>1 DEF IInv, AnswerRight, Says
    <2> QED
      BY <1>4, <2>1, <2>2, <2>3
         DEF IInv, TypeOK, Answering, Agreement, Confirming, Taking
  <1> QED
    BY <1>5, <1>6

LEMMA UnchangedInv ==
    ASSUME IInv, UNCHANGED vars
    PROVE  IInv'
  <1>1. dev' = dev /\ host' = host
    BY DEF vars
  <1>2. TypeOK' /\ Fits(dev') /\ StallsAgree' /\ AnswerRight'
    BY <1>1 DEF IInv, TypeOK, StallsAgree, AnswerRight, Says
  <1>3. Answering' /\ Agreement' /\ Confirming' /\ Taking'
    BY <1>1 DEF IInv, Answering, Agreement, Confirming, Taking, Expected, Says
  <1> QED
    BY <1>1, <1>2, <1>3 DEF IInv

LEMMA StepInv == IInv /\ [Next]_vars => IInv'
  <1> SUFFICES ASSUME IInv, [Next]_vars
               PROVE  IInv'
    OBVIOUS
  <1>1. CASE UNCHANGED vars
    BY <1>1, UnchangedInv
  <1>2. CASE \E s \in Setups, coding \in Codings : Setup(s, coding)
    BY <1>2, SetupInv
  <1>3. CASE Rejected
    BY <1>3, RejectedInv
  <1>4. CASE \E handshake \in BOOLEAN : DataIn(handshake) \/ StatusIn(handshake)
    BY <1>4, DataInInv, StatusInInv
  <1>5. CASE \E n \in {0, LINE_CODING_SIZE}, handshake \in BOOLEAN : DataOut(n, handshake)
    BY <1>5, DataOutInv
  <1>6. CASE \E handshake \in BOOLEAN : StatusOut(handshake)
    BY <1>6, StatusOutInv
  <1>7. CASE GiveUp
    BY <1>7, GiveUpInv
  <1>8. CASE BusReset
    BY <1>8, BusResetInv
  <1> QED
    BY <1>1, <1>2, <1>3, <1>4, <1>5, <1>6, <1>7, <1>8 DEF Next

(* The inductive invariant holds always, whatever requests, losses, aborts  *)
(* and resets come in whatever order (handle_setup, handle_endpoint0_in,   *)
(* handle_endpoint0_out and reset_usb_state in usb_cdc.c).                 *)
THEOREM ControlInvariant == Spec => []IInv
  BY InitInv, StepInv, PTL DEF Spec

(* The state of endpoint 0 stays in its type: no answer, of whatever        *)
(* length, is read past its end by endpoint0_queue_next.                   *)
THEOREM TypeCorrect == Spec => []TypeOK
  <1>1. IInv => TypeOK
    BY DEF IInv
  <1> QED
    BY <1>1, ControlInvariant, PTL

(* Between transfers the device is set as the host has been told, with      *)
(* handshakes lost in every stage and transfers given up in every stage.   *)
THEOREM SettingsAgreeAlways == Spec => []SettingsAgree
  <1>1. IInv => SettingsAgree
    BY DEF IInv, Agreement, Agree, SettingsAgree
  <1> QED
    BY <1>1, ControlInvariant, PTL

(* An answer the host takes for complete is whole, in order, of the length  *)
(* it asked for and true (endpoint0_start_in, endpoint0_queue_next), of    *)
(* whatever length, and with the handshake of any of its packets lost.     *)
THEOREM AnswerRightAlways == Spec => []AnswerRight
  <1>1. IInv => AnswerRight
    BY DEF IInv
  <1> QED
    BY <1>1, ControlInvariant, PTL

(* The address changes with the handshake of the status stage of the        *)
(* request for it (handle_endpoint0_in), or by a reset, and never else.    *)
THEOREM AddressAfterStatusAlways == Spec => AddressAfterStatus
  <1> DEFINE Asked == /\ host.stage = "status_in" /\ host.setup.request = "SET_ADDRESS"
                      /\ dev'.USB_DEV_AD = host.setup.value
             Moves == dev'.USB_DEV_AD # dev.USB_DEV_AD => BusReset \/ Asked
  <1>1. ASSUME IInv, Next
        PROVE  Moves
    <2>0. dev \in Device /\ Fits(dev) /\ host \in HostEnd /\ host.coding \in Codings
      BY <1>1 DEF IInv, TypeOK, HostEnd
    <2>1. ASSUME NEW s \in Setups, NEW coding \in Codings, Setup(s, coding)
          PROVE  dev'.USB_DEV_AD = dev.USB_DEV_AD
      <3>1. Outcome(dev, s, dev')
        BY <2>0, <2>1, SetupOutcome DEF Setup
      <3> QED
        BY <3>1 DEF Outcome, Rejects, Ignores, Replies, Confirms, Takes, SameSettings
    <2>2. ASSUME NEW handshake \in BOOLEAN, DataIn(handshake)
          PROVE  dev'.USB_DEV_AD = dev.USB_DEV_AD
      <3>1. /\ dev' = IF handshake THEN handle_endpoint0_in ELSE dev
            /\ Offer(dev, Expected, host.setup.length)
        BY <1>1, <2>2 DEF DataIn, IInv, Answering
      <3>2. CASE handshake
        <4>1. dev' = endpoint0_queue_next([dev EXCEPT !.UEP0_CTRL.t_tog = ~@])
          BY <3>1, <3>2 DEF handle_endpoint0_in, Offer
        <4>2. /\ Expected \in Nat /\ host.setup.length \in Nat
          BY <2>0, SetupFields, WholeLengths DEF HostEnd, NoSetup, Expected, SendLength
        <4>3. SameSettings(dev, dev')
          BY <2>0, <3>1, <4>1, <4>2, NextOffer
        <4> QED
          BY <4>3 DEF SameSettings
      <3> QED
        BY <3>1, <3>2
    <2>3. ASSUME NEW handshake \in BOOLEAN, StatusIn(handshake)
          PROVE  Moves
      <3>1. /\ host.stage = "status_in" /\ dev.UEP0_CTRL.t = "ACK"
            /\ dev' = IF handshake THEN handle_endpoint0_in ELSE dev
        BY <2>3 DEF StatusIn
      <3>2. /\ dev.control_state = "STATUS_IN" /\ dev.UEP0_CTRL.r = "ACK"
            /\ dev.address_pending <=> host.setup.request = "SET_ADDRESS"
            /\ dev.address_pending => dev.pending_address = host.setup.value
        BY <1>1, <3>1 DEF IInv, Confirming
      <3>3. handshake => dev'.USB_DEV_AD = IF dev.address_pending THEN dev.pending_address
                                           ELSE dev.USB_DEV_AD
        BY <2>0, <3>1, <3>2, StatusHandled
      <3> QED
        BY <3>1, <3>2, <3>3
    <2>4. ASSUME NEW n, NEW handshake \in BOOLEAN,
                 DataOut(n, handshake) \/ StatusOut(handshake)
          PROVE  dev'.USB_DEV_AD = dev.USB_DEV_AD
      <3>1. \/ dev' = dev \/ dev' = handle_endpoint0_out(n, host.coding)
            \/ dev' = handle_endpoint0_out(0, host.coding)
        BY <2>4 DEF DataOut, StatusOut, Out
      <3>2. dev' = dev \/ Handled(dev', host.coding)
        BY <2>0, <3>1, OutHandled
      <3> QED
        BY <3>2 DEF Handled
    <2>5. CASE Rejected \/ GiveUp
      BY <2>5 DEF Rejected, GiveUp
    <2> QED
      BY <1>1, <2>1, <2>2, <2>3, <2>4, <2>5 DEF Next
  <1>2. IInv /\ [Next]_vars => [Moves]_vars
    BY <1>1
  <1> QED
    BY <1>2, ControlInvariant, PTL DEF Spec, AddressAfterStatus
=============================================================================
