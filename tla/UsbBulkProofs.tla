---------------------------- MODULE UsbBulkProofs ----------------------------
(***************************************************************************)
(* Proofs about UsbBulk, for packets and counts of every size, and every   *)
(* number of requests.                                                     *)
(*                                                                         *)
(* What holds whatever the races (Bounds, Hears) is proved first.  The     *)
(* rest holds as long as the state is Undisturbed, and rests on what is    *)
(* true of the shared variables at each place of the main loop: of the     *)
(* packet that waits to be read (OutBuffer, Index, Order), and of the one  *)
(* that waits to be fetched (InBuffer).                                    *)
(***************************************************************************)
EXTENDS UsbBulk, TLAPS

(* An index is in the buffer when the main loop uses it, a poll is left     *)
(* when it polls, a packet is armed only for a piece of the line, and the  *)
(* packet the host repeats has been counted.                               *)
Bounds ==
    /\ At("read_length") => dev.ep2_out_index \leq cpu.acc
    /\ At("load_index") => dev.ep2_out_index < MaxPacket
    /\ cpu.pc \in {"store_index", "read_byte"} => cpu.acc < MaxPacket
    /\ cpu.pc \in {"wait", "wait_configuration", "wait_halt"} => cpu.spins # 0
    /\ cpu.pc \in {"write", "write_halt", "copy", "arm_busy", "arm_length", "arm"}
         => cpu.piece # "flush"
    /\ host.retry => log.sent \geq host.size

RearmPlaces == {"rearm_load", "rearm_configuration", "rearm_halt", "rearm_store"}

(* Only while the main loop is about to say so does UEP2_CTRL not say that  *)
(* the endpoint is ready.                                                  *)
Hears ==
    /\ cpu.pc \notin RearmPlaces /\ "stale_store" \notin log.upsets
    /\ dev.current_configuration # 0 /\ ~dev.halt_out /\ dev.ep2_out_length = 0
    => dev.UEP2_CTRL.r = "ACK"

-----------------------------------------------------------------------------
(* usb_cdc_read before and after it has stored the new index.              *)
Finding == {"read", "read_index", "read_length", "load_index", "store_index"}
Comparing == {"read_byte", "compare_length", "compare_index", "clear_index"}
Reading == Finding \cup Comparing \cup {"clear_length"} \cup RearmPlaces

(* What the endpoint says of the next packet, and how packets are numbered. *)
OutBuffer ==
    /\ host.retry <=> host.out # dev.UEP2_CTRL.r_tog
    /\ dev.UEP2_CTRL.r = "ACK" => dev.ep2_out_length = 0 /\ cpu.pc \notin RearmPlaces
    /\ dev.halt_out => dev.UEP2_CTRL.r = "STALL"
    /\ dev.ep2_out_length # 0 => log.sent = dev.rx_base + dev.ep2_out_length
    /\ dev.current_configuration = 0
         => /\ dev.ep2_out_length = 0 /\ cpu.pc \notin Reading
            /\ dev.UEP2_CTRL.r = "ACK" => host.requests # 0

(* How far the packet is read, and what the main loop has loaded of it.    *)
Index ==
    /\ cpu.pc \in Finding => dev.ep2_out_index < dev.ep2_out_length
    /\ cpu.pc \in Comparing => dev.ep2_out_index \in 1 .. dev.ep2_out_length
    /\ At("clear_index") => dev.ep2_out_index = dev.ep2_out_length
    /\ At("clear_length") => dev.ep2_out_index = 0 /\ dev.ep2_out_length # 0
    /\ cpu.pc \in RearmPlaces => dev.ep2_out_length = 0
    /\ cpu.pc \notin Comparing \cup {"clear_length"} /\ dev.ep2_out_index # 0
         => dev.ep2_out_index < dev.ep2_out_length
    /\ At("available_index")
         => cpu.acc = dev.ep2_out_length \/ (cpu.acc = 0 /\ dev.ep2_out_index = 0)
    /\ cpu.pc \in {"read_length", "store_index"} => cpu.acc = dev.ep2_out_index
    /\ At("read_byte") => dev.ep2_out_index = cpu.acc + 1
    /\ At("compare_index") => cpu.acc = dev.ep2_out_length

(* The number of the last byte read that the index stands for; without a   *)
(* request, bytes are missing neither before the packet nor after it.      *)
Position ==
    IF At("read_byte") THEN dev.rx_base + cpu.acc
    ELSE IF At("clear_length") \/ dev.ep2_out_length = 0 THEN log.sent
    ELSE dev.rx_base + dev.ep2_out_index

Order ==
    /\ log.read \leq Position
    /\ host.requests = 0 => log.read = Position

-----------------------------------------------------------------------------
(* The piece before the one to be written, and what the host has received  *)
(* when it has fetched all before that, and when it has fetched that too.  *)
Last(piece) == IF piece = "text" THEN "none" ELSE IF piece = "crlf" THEN "text" ELSE "crlf"
Before(piece) == IF piece = "flush" THEN {"text"} ELSE {}
Done(piece) == IF piece = "text" THEN {} ELSE IF piece = "crlf" THEN {"text"} ELSE Pieces

Quiet == dev.UEP2_CTRL.t # "ACK" /\ host.in = dev.UEP2_CTRL.t_tog
Fetched == Quiet /\ log.delivered = Done(cpu.piece)

(* The packet of the last piece is armed: the host may have it already, if *)
(* its handshake was lost.                                                 *)
Waiting ==
    /\ dev.UEP2_CTRL.t = "ACK" /\ cpu.piece # "text"
    /\ dev.UEP2_T_LEN = Last(cpu.piece) /\ dev.tx_piece = Last(cpu.piece)
    /\ log.delivered = IF host.in = dev.UEP2_CTRL.t_tog
                       THEN Before(cpu.piece) ELSE Done(cpu.piece)

(* What is in the endpoint at each place of transport_send_line.           *)
InBuffer ==
    /\ dev.halt_in => dev.UEP2_CTRL.t = "STALL"
    /\ cpu.pc \notin SendPlaces => Quiet /\ ~dev.ep2_tx_busy
    /\ cpu.pc \in {"write", "write_halt", "wait", "wait_configuration", "wait_halt",
                   "cancel_busy"}
         => (Fetched /\ ~dev.ep2_tx_busy) \/ (Waiting /\ dev.ep2_tx_busy)
    /\ At("cancel_length") => Fetched \/ Waiting
    /\ cpu.pc \in {"cancel_load", "cancel_halt", "cancel_store"}
         => Quiet \/ (dev.UEP2_CTRL.t = "ACK" /\ dev.UEP2_T_LEN = "none")
    /\ cpu.pc \in {"cancel_length", "cancel_load", "cancel_halt", "cancel_store"}
         => ~dev.ep2_tx_busy
    /\ cpu.pc \in {"copy", "arm_busy", "arm_length", "arm"}
         => Fetched /\ (dev.ep2_tx_busy <=> cpu.pc \in {"arm_length", "arm"})
    /\ cpu.pc \in {"arm_busy", "arm_length", "arm"} => dev.tx_piece = cpu.piece
    /\ At("arm") => dev.UEP2_T_LEN = cpu.piece
    /\ (At("write") /\ cpu.piece # "text") \/ cpu.pc \in SendPlaces \ {"write"}
         => dev.current_configuration # 0
    /\ \/ cpu.pc \in {"write", "write_halt"} /\ cpu.piece # "text"
       \/ cpu.pc \in SendPlaces \ {"write", "write_halt"}
         => ~dev.halt_in

(* ... and then the main loop is fed nothing but bytes of the host, and the *)
(* host receives nothing but pieces of answers.                            *)
Calm ==
    Undisturbed => /\ OutBuffer /\ Index /\ Order /\ InBuffer
                   /\ At("feed") => cpu.value = "byte"
                   /\ log.got # "mixed"

IInv == TypeOK /\ Bounds /\ Hears /\ Calm

-----------------------------------------------------------------------------
(* Type correctness.                                                       *)
LEMMA FreshType ==
    ASSUME NEW configuration \in {0, 1}
    PROVE  Fresh(configuration) \in Device
  BY BulkAssumption DEF Fresh, Device, OutResponse, Control, Responses, Byte

LEMMA ReturnedType == Returned \in Processor
  <1>1. Fresh(0).UEP2_CTRL \in Control
    <2>1. Fresh(0) \in Device
      BY FreshType
    <2> QED
      BY <2>1 DEF Device
  <1> QED
    BY <1>1, BulkAssumption DEF Returned, Processor, ReadPlaces, Responses

LEMMA InitType == Init => TypeOK /\ Bounds
  BY BulkAssumption, FreshType, ReturnedType
     DEF Init, TypeOK, Bounds, HostEnd, Log, Returned, Byte, Offers, At

-----------------------------------------------------------------------------
(* What the steps of the main loop do to what it has loaded.               *)
Places == ReadPlaces \cup SendPlaces

LEMMA GoFields ==
    ASSUME NEW place \in Places, cpu \in Processor, Go(place)
    PROVE  /\ cpu' \in Processor /\ cpu'.pc = place
           /\ cpu'.acc = cpu.acc /\ cpu'.ctrl = cpu.ctrl /\ cpu'.res = cpu.res
           /\ cpu'.value = cpu.value /\ cpu'.piece = cpu.piece /\ cpu'.spins = cpu.spins
  BY DEF Go, Processor, Places

LEMMA LoadFields ==
    ASSUME NEW place \in Places, NEW n \in 0 .. MaxPacket, cpu \in Processor, Load(place, n)
    PROVE  /\ cpu' \in Processor /\ cpu'.pc = place /\ cpu'.acc = n
           /\ cpu'.piece = cpu.piece /\ cpu'.spins = cpu.spins
  BY DEF Load, Processor, Places

LEMMA LoadControlFields ==
    ASSUME NEW place \in Places, dev \in Device, cpu \in Processor, LoadControl(place)
    PROVE  /\ cpu' \in Processor /\ cpu'.pc = place /\ cpu'.piece = cpu.piece
           /\ cpu'.acc = cpu.acc /\ cpu'.spins = cpu.spins
  BY DEF LoadControl, Processor, Places, Device

LEMMA ResponseFields ==
    ASSUME NEW place \in Places, NEW r \in Responses, cpu \in Processor, Response(place, r)
    PROVE  /\ cpu' \in Processor /\ cpu'.pc = place /\ cpu'.piece = cpu.piece
           /\ cpu'.acc = cpu.acc /\ cpu'.spins = cpu.spins
  BY DEF Response, Processor, Places

LEMMA FeedFields ==
    ASSUME NEW byte \in {"nul", "byte"}, Feed(byte)
    PROVE  /\ cpu' \in Processor /\ cpu'.pc = "feed" /\ cpu'.value = byte
           /\ cpu'.piece = "flush"
  <1>1. /\ cpu'.pc = "feed" /\ cpu'.value = byte /\ cpu'.piece = "flush"
    BY DEF Feed, Returned
  <1>2. cpu' \in Processor
    BY ReturnedType DEF Feed, Processor, ReadPlaces
  <1> QED
    BY <1>1, <1>2

LEMMA ReturnFields ==
    ASSUME Return
    PROVE  cpu' \in Processor /\ cpu'.pc = "available" /\ cpu'.piece = "flush"
  BY ReturnedType DEF Return, Returned

LEMMA ReadFields ==
    ASSUME cpu' = [Returned EXCEPT !.pc = "read"]
    PROVE  cpu' \in Processor /\ cpu'.pc = "read" /\ cpu'.piece = "flush"
  <1>1. cpu'.pc = "read" /\ cpu'.piece = "flush"
    BY DEF Returned
  <1>2. cpu' \in Processor
    BY ReturnedType DEF Processor, ReadPlaces
  <1> QED
    BY <1>1, <1>2

LEMMA SpinLimit ==
    /\ USB_CDC_TX_SPIN_LIMIT \in 0 .. USB_CDC_TX_SPIN_LIMIT
    /\ USB_CDC_TX_SPIN_LIMIT # 0
  BY BulkAssumption DEF BulkAssumption

LEMMA StartPolls ==
    ASSUME cpu \in Processor,
           cpu' = [cpu EXCEPT !.pc = "wait", !.spins = USB_CDC_TX_SPIN_LIMIT]
    PROVE  /\ cpu' \in Processor /\ cpu'.pc = "wait" /\ cpu'.piece = cpu.piece
           /\ cpu'.spins # 0
  BY SpinLimit DEF Processor, SendPlaces

LEMMA PollAgainFields ==
    ASSUME cpu \in Processor, cpu.spins # 0, PollAgain
    PROVE  /\ cpu' \in Processor /\ cpu'.piece = cpu.piece
           /\ cpu'.pc = "cancel_busy" \/ (cpu'.pc = "wait" /\ cpu'.spins # 0)
  <1>1. CASE cpu.spins = 1
    <2>1. Go("cancel_busy")
      BY <1>1 DEF PollAgain, GiveUp
    <2> QED
      BY <2>1, GoFields DEF Places, SendPlaces
  <1>2. CASE cpu.spins # 1
    <2> DEFINE left == cpu.spins - 1
    <2>1. left \in 0 .. USB_CDC_TX_SPIN_LIMIT /\ left # 0
      BY <1>2, SpinLimit, BulkAssumption DEF Processor
    <2>2. cpu' = [cpu EXCEPT !.pc = "wait", !.spins = left]
      BY <1>2 DEF PollAgain
    <2> HIDE DEF left
    <2> QED
      BY <2>1, <2>2 DEF Processor, SendPlaces
  <1> QED
    BY <1>1, <1>2

LEMMA ArmedFields ==
    ASSUME cpu \in Processor, cpu.piece # "flush", cpu' = Armed
    PROVE  /\ cpu' \in Processor /\ cpu.piece = Last(cpu'.piece)
           /\ \/ cpu'.pc = "write" /\ cpu'.piece = "crlf"
              \/ cpu'.pc = "wait" /\ cpu'.piece = "flush" /\ cpu'.spins # 0
  <1>1. CASE cpu.piece = "text"
    BY <1>1 DEF Armed, Last, Processor, SendPlaces, Pieces
  <1>2. CASE cpu.piece # "text"
    <2>1. cpu.piece = "crlf"
      BY <1>2 DEF Processor, Pieces
    <2>2. cpu' = [cpu EXCEPT !.pc = "wait", !.piece = "flush",
                             !.spins = USB_CDC_TX_SPIN_LIMIT]
      BY <2>1 DEF Armed, Flush
    <2> QED
      BY <2>1, <2>2, SpinLimit DEF Last, Processor, SendPlaces
  <1> QED
    BY <1>1, <1>2

-----------------------------------------------------------------------------
(* What the steps that write do to the two directions of the endpoint.     *)
KeepsOut ==
    /\ dev'.current_configuration = dev.current_configuration
    /\ dev'.ep2_out_length = dev.ep2_out_length /\ dev'.ep2_out_index = dev.ep2_out_index
    /\ dev'.halt_out = dev.halt_out /\ dev'.rx_base = dev.rx_base
    /\ dev'.UEP2_CTRL.r = dev.UEP2_CTRL.r /\ dev'.UEP2_CTRL.r_tog = dev.UEP2_CTRL.r_tog

KeepsIn ==
    /\ dev'.current_configuration = dev.current_configuration
    /\ dev'.ep2_tx_busy = dev.ep2_tx_busy /\ dev'.halt_in = dev.halt_in
    /\ dev'.UEP2_T_LEN = dev.UEP2_T_LEN /\ dev'.tx_piece = dev.tx_piece
    /\ dev'.UEP2_CTRL.t = dev.UEP2_CTRL.t /\ dev'.UEP2_CTRL.t_tog = dev.UEP2_CTRL.t_tog

(* The history keeps its type, and knows of no new upset unless there is one. *)
LEMMA UpsetFields ==
    ASSUME NEW kind \in AllUpsets, NEW condition \in BOOLEAN, log \in Log,
           Upset(kind, condition)
    PROVE  /\ log' \in Log
           /\ log'.sent = log.sent /\ log'.read = log.read
           /\ log'.got = log.got /\ log'.delivered = log.delivered
           /\ log.upsets \subseteq log'.upsets
           /\ kind \notin log'.upsets => ~condition
  BY DEF Upset, Log

LEMMA StoreIndexFields ==
    ASSUME TypeOK, Bounds, StoreIndex
    PROVE  /\ dev' \in Device /\ cpu' \in Processor /\ log' \in Log /\ host' = host
           /\ cpu'.pc = "read_byte" /\ cpu'.acc = cpu.acc
           /\ dev'.ep2_out_index = cpu.acc + 1
           /\ KeepsIn /\ dev' = [dev EXCEPT !.ep2_out_index = cpu.acc + 1]
           /\ log'.sent = log.sent /\ log'.read = log.read
           /\ log'.got = log.got /\ log'.delivered = log.delivered
           /\ log.upsets \subseteq log'.upsets
           /\ "stale_store" \notin log'.upsets => cpu.acc = dev.ep2_out_index
  <1> DEFINE next == cpu.acc + 1
  <1>1. next \in 0 .. MaxPacket
    BY BulkAssumption DEF TypeOK, Bounds, Processor, StoreIndex, At
  <1>2. dev' = [dev EXCEPT !.ep2_out_index = next]
    BY DEF StoreIndex
  <1>3. Upset("stale_store", cpu.acc # dev.ep2_out_index) /\ host' = host
    BY DEF StoreIndex
  <1>4. cpu' \in Processor /\ cpu'.pc = "read_byte" /\ cpu'.acc = cpu.acc
    BY GoFields DEF StoreIndex, TypeOK, Places, ReadPlaces
  <1> HIDE DEF next
  <1>5. dev' \in Device /\ dev'.ep2_out_index = next /\ KeepsIn
    BY <1>1, <1>2 DEF TypeOK, Device, KeepsIn
  <1> QED
    BY <1>2, <1>3, <1>4, <1>5, UpsetFields DEF TypeOK, AllUpsets, next

LEMMA ClearIndexFields ==
    ASSUME TypeOK, ClearIndex
    PROVE  /\ dev' \in Device /\ cpu' \in Processor /\ log' = log /\ host' = host
           /\ cpu'.pc = "clear_length"
           /\ KeepsIn /\ dev' = [dev EXCEPT !.ep2_out_index = 0]
  <1>1. cpu' \in Processor /\ cpu'.pc = "clear_length"
    BY GoFields DEF ClearIndex, Store, TypeOK, Places, ReadPlaces
  <1> QED
    BY <1>1, BulkAssumption DEF ClearIndex, Store, TypeOK, Device, KeepsIn

LEMMA ClearLengthFields ==
    ASSUME TypeOK, ClearLength
    PROVE  /\ dev' \in Device /\ cpu' \in Processor /\ log' = log /\ host' = host
           /\ cpu'.pc = "rearm_load"
           /\ KeepsIn /\ dev' = [dev EXCEPT !.ep2_out_length = 0]
  <1>1. cpu' \in Processor /\ cpu'.pc = "rearm_load"
    BY GoFields DEF ClearLength, Store, TypeOK, Places, ReadPlaces
  <1> QED
    BY <1>1, BulkAssumption DEF ClearLength, Store, TypeOK, Device, KeepsIn

LEMMA RearmStoreFields ==
    ASSUME TypeOK, RearmStore
    PROVE  /\ dev' \in Device /\ cpu' \in Processor /\ log' \in Log /\ host' = host
           /\ cpu'.pc = "feed" /\ cpu'.value = "byte"
           /\ log'.sent = log.sent /\ log'.read = log.read
           /\ log'.got = log.got /\ log'.delivered = log.delivered
           /\ log.upsets \subseteq log'.upsets
           /\ "stale_store" \notin log'.upsets
                => KeepsIn /\ dev' = [dev EXCEPT !.UEP2_CTRL.r = RearmResponse]
  <1> DEFINE stored == [cpu.ctrl EXCEPT !.r = cpu.res]
             fresh == [dev.UEP2_CTRL EXCEPT !.r = RearmResponse]
  <1>1. stored \in Control
    BY DEF TypeOK, Processor, Control
  <1>2. /\ dev' = [dev EXCEPT !.UEP2_CTRL = stored]
        /\ Upset("stale_store", stored # fresh) /\ host' = host /\ Feed("byte")
    BY DEF RearmStore
  <1>3. dev.UEP2_CTRL \in Control
    BY DEF TypeOK, Device
  <1>4. fresh.t = dev.UEP2_CTRL.t /\ fresh.t_tog = dev.UEP2_CTRL.t_tog
    BY <1>3 DEF Control
  <1>5. dev' = [dev EXCEPT !.UEP2_CTRL.r = RearmResponse] <=> dev' = [dev EXCEPT !.UEP2_CTRL = fresh]
    BY DEF TypeOK, Device
  <1> HIDE DEF stored, fresh
  <1>6. dev' \in Device /\ dev'.UEP2_CTRL = stored
    BY <1>1, <1>2 DEF TypeOK, Device
  <1>7. stored = fresh => KeepsIn
    BY <1>1, <1>2, <1>4 DEF TypeOK, Device, KeepsIn
  <1> QED
    BY <1>2, <1>5, <1>6, <1>7, UpsetFields, FeedFields DEF TypeOK, AllUpsets

LEMMA ReadByteFields ==
    ASSUME TypeOK, Bounds, ReadByte
    PROVE  /\ dev' = dev /\ host' = host /\ cpu' \in Processor /\ log' \in Log
           /\ cpu'.pc = "compare_length"
           /\ log'.sent = log.sent /\ log'.read = dev.rx_base + cpu.acc + 1
           /\ log'.got = log.got /\ log'.delivered = log.delivered
           /\ log'.upsets = log.upsets
  <1> DEFINE number == dev.rx_base + cpu.acc + 1
  <1>1. number \in 0 .. MaxBytes + MaxPacket
    <2>1. At("read_byte") /\ cpu.acc \in Nat /\ cpu.acc < MaxPacket
      BY BulkAssumption DEF TypeOK, Bounds, Processor, ReadByte, At
    <2>2. dev.rx_base \in Nat /\ dev.rx_base \leq MaxBytes
      BY BulkAssumption DEF TypeOK, Device, Byte
    <2> QED
      BY <2>1, <2>2, BulkAssumption
  <1>2. log' = [log EXCEPT !.read = number] /\ UNCHANGED <<dev, host>>
    BY DEF ReadByte
  <1>3. cpu' \in Processor /\ cpu'.pc = "compare_length"
    BY GoFields DEF ReadByte, TypeOK, Places, ReadPlaces
  <1> HIDE DEF number
  <1>4. /\ log' \in Log /\ log'.read = number
        /\ log'.sent = log.sent /\ log'.got = log.got
        /\ log'.delivered = log.delivered /\ log'.upsets = log.upsets
    BY <1>1, <1>2 DEF TypeOK, Log
  <1> QED
    BY <1>2, <1>3, <1>4 DEF number

LEMMA TransportSendLineFields ==
    ASSUME TypeOK, TransportSendLine
    PROVE  /\ dev' = dev /\ host' = host /\ cpu' \in Processor /\ log' \in Log
           /\ cpu'.pc = "write" /\ cpu'.piece = "text"
           /\ log'.sent = log.sent /\ log'.read = log.read
           /\ log'.got = log.got /\ log'.delivered = {}
           /\ log'.upsets = log.upsets
  BY DEF TransportSendLine, TypeOK, Processor, SendPlaces, Pieces, Log

LEMMA CancelBusyFields ==
    ASSUME TypeOK, CancelBusy
    PROVE  /\ dev' \in Device /\ cpu' \in Processor /\ log' = log /\ host' = host
           /\ cpu'.pc = "cancel_length" /\ cpu'.piece = cpu.piece
           /\ KeepsOut /\ dev' = [dev EXCEPT !.ep2_tx_busy = FALSE]
  <1>1. cpu' \in Processor /\ cpu'.pc = "cancel_length" /\ cpu'.piece = cpu.piece
    BY GoFields DEF CancelBusy, Store, TypeOK, Places, SendPlaces
  <1> QED
    BY <1>1 DEF CancelBusy, Store, TypeOK, Device, KeepsOut

LEMMA CancelLengthFields ==
    ASSUME TypeOK, CancelLength
    PROVE  /\ dev' \in Device /\ cpu' \in Processor /\ log' = log /\ host' = host
           /\ cpu'.pc = "cancel_load" /\ cpu'.piece = cpu.piece
           /\ KeepsOut /\ dev' = [dev EXCEPT !.UEP2_T_LEN = "none"]
  <1>1. cpu' \in Processor /\ cpu'.pc = "cancel_load" /\ cpu'.piece = cpu.piece
    BY GoFields DEF CancelLength, Store, TypeOK, Places, SendPlaces
  <1> QED
    BY <1>1 DEF CancelLength, Store, TypeOK, Device, KeepsOut

LEMMA CancelStoreFields ==
    ASSUME TypeOK, CancelStore
    PROVE  /\ dev' \in Device /\ cpu' \in Processor /\ log' \in Log /\ host' = host
           /\ cpu'.pc = "available"
           /\ log'.sent = log.sent /\ log'.read = log.read
           /\ log'.got = log.got /\ log'.delivered = log.delivered
           /\ log.upsets \subseteq log'.upsets
           /\ "stale_store" \notin log'.upsets
                => KeepsOut /\ dev' = [dev EXCEPT !.UEP2_CTRL.t = InResponse(dev.halt_in)]
           /\ "taken_back" \notin log'.upsets => host.in = dev'.UEP2_CTRL.t_tog
  <1> DEFINE stored == [cpu.ctrl EXCEPT !.t = cpu.res]
             fresh == [dev.UEP2_CTRL EXCEPT !.t = InResponse(dev.halt_in)]
             stale == IF stored # fresh THEN {"stale_store"} ELSE {}
             taken == IF host.in # stored.t_tog THEN {"taken_back"} ELSE {}
  <1>1. stored \in Control
    BY DEF TypeOK, Processor, Control
  <1>2. /\ dev' = [dev EXCEPT !.UEP2_CTRL = stored]
        /\ log' = [log EXCEPT !.upsets = @ \cup stale \cup taken]
        /\ host' = host /\ Return
    BY DEF CancelStore
  <1>3. dev.UEP2_CTRL \in Control
    BY DEF TypeOK, Device
  <1>4. fresh.r = dev.UEP2_CTRL.r /\ fresh.r_tog = dev.UEP2_CTRL.r_tog
    BY <1>3 DEF Control
  <1>5. dev' = [dev EXCEPT !.UEP2_CTRL.t = InResponse(dev.halt_in)] <=> dev' = [dev EXCEPT !.UEP2_CTRL = fresh]
    BY DEF TypeOK, Device
  <1>6. /\ stale \subseteq {"stale_store"} /\ taken \subseteq {"taken_back"}
        /\ "stale_store" \notin stale => stored = fresh
        /\ "taken_back" \notin taken => host.in = stored.t_tog
    OBVIOUS
  <1> HIDE DEF stored, fresh, stale, taken
  <1>7. dev' \in Device /\ dev'.UEP2_CTRL = stored
    BY <1>1, <1>2 DEF TypeOK, Device
  <1>8. stored = fresh => KeepsOut
    BY <1>1, <1>2, <1>4 DEF TypeOK, Device, KeepsOut
  <1>9. /\ log' \in Log /\ log'.upsets = log.upsets \cup stale \cup taken
        /\ log'.sent = log.sent /\ log'.read = log.read
        /\ log'.got = log.got /\ log'.delivered = log.delivered
    BY <1>2, <1>6 DEF TypeOK, Log, AllUpsets
  <1> QED
    BY <1>2, <1>5, <1>6, <1>7, <1>8, <1>9, ReturnFields

LEMMA CopyFields ==
    ASSUME TypeOK, Bounds, Copy
    PROVE  /\ dev' \in Device /\ cpu' \in Processor /\ log' = log /\ host' = host
           /\ cpu'.pc = "arm_busy" /\ cpu'.piece = cpu.piece
           /\ KeepsOut /\ dev' = [dev EXCEPT !.tx_piece = cpu.piece]
  <1>1. cpu' \in Processor /\ cpu'.pc = "arm_busy" /\ cpu'.piece = cpu.piece
    BY GoFields DEF Copy, Store, TypeOK, Places, SendPlaces
  <1>2. cpu.piece \in Pieces
    BY DEF Copy, Store, At, Bounds, TypeOK, Processor
  <1> QED
    BY <1>1, <1>2 DEF Copy, Store, TypeOK, Device, KeepsOut

LEMMA ArmBusyFields ==
    ASSUME TypeOK, ArmBusy
    PROVE  /\ dev' \in Device /\ cpu' \in Processor /\ log' = log /\ host' = host
           /\ cpu'.pc = "arm_length" /\ cpu'.piece = cpu.piece
           /\ KeepsOut /\ dev' = [dev EXCEPT !.ep2_tx_busy = TRUE]
  <1>1. cpu' \in Processor /\ cpu'.pc = "arm_length" /\ cpu'.piece = cpu.piece
    BY GoFields DEF ArmBusy, Store, TypeOK, Places, SendPlaces
  <1> QED
    BY <1>1 DEF ArmBusy, Store, TypeOK, Device, KeepsOut

LEMMA ArmLengthFields ==
    ASSUME TypeOK, Bounds, ArmLength
    PROVE  /\ dev' \in Device /\ cpu' \in Processor /\ log' = log /\ host' = host
           /\ cpu'.pc = "arm" /\ cpu'.piece = cpu.piece
           /\ KeepsOut /\ dev' = [dev EXCEPT !.UEP2_T_LEN = cpu.piece]
  <1>1. cpu' \in Processor /\ cpu'.pc = "arm" /\ cpu'.piece = cpu.piece
    BY GoFields DEF ArmLength, Store, TypeOK, Places, SendPlaces
  <1>2. cpu.piece \in Pieces
    BY DEF ArmLength, Store, At, Bounds, TypeOK, Processor
  <1> QED
    BY <1>1, <1>2 DEF ArmLength, Store, TypeOK, Device, KeepsOut

LEMMA ArmFields ==
    ASSUME TypeOK, Bounds, Arm
    PROVE  /\ dev' \in Device /\ cpu' \in Processor /\ log' = log /\ host' = host
           /\ cpu.piece = Last(cpu'.piece)
           /\ \/ cpu'.pc = "write" /\ cpu'.piece = "crlf"
              \/ cpu'.pc = "wait" /\ cpu'.piece = "flush" /\ cpu'.spins # 0
           /\ KeepsOut /\ dev' = [dev EXCEPT !.UEP2_CTRL.t = "ACK"]
  <1>1. /\ cpu' \in Processor /\ cpu.piece = Last(cpu'.piece)
        /\ \/ cpu'.pc = "write" /\ cpu'.piece = "crlf"
           \/ cpu'.pc = "wait" /\ cpu'.piece = "flush" /\ cpu'.spins # 0
    BY ArmedFields DEF Arm, At, Bounds, TypeOK
  <1> QED
    BY <1>1 DEF Arm, TypeOK, Device, Control, Responses, KeepsOut

-----------------------------------------------------------------------------
(* What the bus does.                                                      *)
Base(n) == IF host.retry THEN log.sent - n ELSE log.sent

LEMMA OutPacketFields ==
    ASSUME TypeOK, Bounds, NEW n \in 0 .. MaxPacket, NEW handshake \in BOOLEAN,
           OutPacket(n, handshake)
    PROVE  /\ dev' \in Device /\ cpu' = cpu /\ host' \in HostEnd /\ log' \in Log
           /\ KeepsIn /\ dev'.halt_out = dev.halt_out
           /\ dev'.UEP2_CTRL.r_tog = ~host.out
           /\ \/ /\ dev.current_configuration = 0
                 /\ dev'.ep2_out_length = 0 /\ dev'.ep2_out_index = 0
                 /\ dev'.UEP2_CTRL.r = "NAK" /\ dev'.rx_base = dev.rx_base
              \/ /\ dev.current_configuration # 0 /\ host.out # dev.UEP2_CTRL.r_tog
                 /\ dev'.ep2_out_length = dev.ep2_out_length
                 /\ dev'.ep2_out_index = dev.ep2_out_index
                 /\ dev'.UEP2_CTRL.r = dev.UEP2_CTRL.r /\ dev'.rx_base = dev.rx_base
              \/ /\ dev.current_configuration # 0 /\ host.out = dev.UEP2_CTRL.r_tog
                 /\ dev'.ep2_out_length = n /\ dev'.ep2_out_index = 0
                 /\ dev'.UEP2_CTRL.r = PacketResponse(n) /\ dev'.rx_base = Base(n)
           /\ host'.retry <=> ~handshake
           /\ host'.out = IF handshake THEN ~host.out ELSE host.out
           /\ host'.in = host.in /\ host'.requests = host.requests
           /\ host'.retry => host'.size = n
           /\ log'.sent = Base(n) + n
           /\ log'.read = log.read /\ log'.got = log.got
           /\ log'.delivered = log.delivered /\ log'.upsets = log.upsets
  <1> DEFINE base == Base(n)
  <1>1. base \in Byte /\ base + n \in Byte
    BY BulkAssumption DEF OutPacket, Base, TypeOK, Bounds, HostEnd, Log, Byte
  <1>2. /\ dev' = [OutHandled(n, base) EXCEPT
                     !.UEP2_CTRL.r_tog = IF host.out = @ THEN ~@ ELSE @]
        /\ host' = [host EXCEPT !.retry = ~handshake,
                                !.size = IF handshake THEN 0 ELSE n,
                                !.out = IF handshake THEN ~@ ELSE @]
        /\ log' = [log EXCEPT !.sent = base + n]
        /\ cpu' = cpu
    BY DEF OutPacket, Base
  <1>3. PacketResponse(n) \in Responses
    BY DEF PacketResponse, Responses
  <1> HIDE DEF base
  <1>4. /\ host' \in HostEnd /\ (host'.retry <=> ~handshake)
        /\ host'.out = IF handshake THEN ~host.out ELSE host.out
        /\ host'.in = host.in /\ host'.requests = host.requests
        /\ host'.retry => host'.size = n
    <2>1. CASE handshake
      <3>1. host' = [host EXCEPT !.retry = FALSE, !.size = 0, !.out = ~@]
        BY <1>2, <2>1
      <3>2. host.out \in BOOLEAN /\ 0 \in 0 .. MaxPacket
        BY BulkAssumption DEF TypeOK, HostEnd
      <3> QED
        BY <2>1, <3>1, <3>2 DEF TypeOK, HostEnd
    <2>2. CASE ~handshake
      <3>1. host' = [host EXCEPT !.retry = TRUE, !.size = n, !.out = host.out]
        BY <1>2, <2>2
      <3> QED
        BY <2>2, <3>1 DEF TypeOK, HostEnd
    <2> QED
      BY <2>1, <2>2
  <1>5. /\ log' \in Log /\ log'.sent = base + n
        /\ log'.read = log.read /\ log'.got = log.got
        /\ log'.delivered = log.delivered /\ log'.upsets = log.upsets
    BY <1>1, <1>2 DEF TypeOK, Log
  <1>6. ASSUME NEW d \in Device, d.UEP2_CTRL.r_tog = dev.UEP2_CTRL.r_tog,
               dev' = [d EXCEPT !.UEP2_CTRL.r_tog = IF host.out = @ THEN ~@ ELSE @]
        PROVE  /\ dev' \in Device /\ dev'.UEP2_CTRL.r_tog = ~host.out
               /\ dev'.current_configuration = d.current_configuration
               /\ dev'.ep2_out_length = d.ep2_out_length
               /\ dev'.ep2_out_index = d.ep2_out_index
               /\ dev'.halt_out = d.halt_out /\ dev'.rx_base = d.rx_base
               /\ dev'.UEP2_CTRL.r = d.UEP2_CTRL.r
               /\ dev'.ep2_tx_busy = d.ep2_tx_busy /\ dev'.halt_in = d.halt_in
               /\ dev'.UEP2_T_LEN = d.UEP2_T_LEN /\ dev'.tx_piece = d.tx_piece
               /\ dev'.UEP2_CTRL.t = d.UEP2_CTRL.t
               /\ dev'.UEP2_CTRL.t_tog = d.UEP2_CTRL.t_tog
    <2> DEFINE control == [d.UEP2_CTRL EXCEPT !.r_tog = ~host.out]
    <2>1. host.out \in BOOLEAN /\ d.UEP2_CTRL \in Control
      BY DEF TypeOK, HostEnd, Device
    <2>2. /\ control \in Control /\ control.r_tog = ~host.out
          /\ control.r = d.UEP2_CTRL.r /\ control.t = d.UEP2_CTRL.t
          /\ control.t_tog = d.UEP2_CTRL.t_tog
      BY <2>1 DEF Control
    <2>3. dev' = [d EXCEPT !.UEP2_CTRL = control]
      <3>1. (IF host.out = d.UEP2_CTRL.r_tog THEN ~d.UEP2_CTRL.r_tog ELSE d.UEP2_CTRL.r_tog)
              = ~host.out
        BY <2>1 DEF Control
      <3> QED
        BY <1>6, <3>1
    <2> HIDE DEF control
    <2> QED
      BY <2>2, <2>3 DEF Device
  <1> DEFINE Same(d) ==
        /\ d.current_configuration = dev.current_configuration
        /\ d.ep2_tx_busy = dev.ep2_tx_busy /\ d.halt_in = dev.halt_in
        /\ d.UEP2_T_LEN = dev.UEP2_T_LEN /\ d.tx_piece = dev.tx_piece
        /\ d.UEP2_CTRL.t = dev.UEP2_CTRL.t
        /\ d.UEP2_CTRL.t_tog = dev.UEP2_CTRL.t_tog
  <1> DEFINE Filled(length, first, r) ==
        [dev EXCEPT !.ep2_out_length = length, !.ep2_out_index = 0,
                    !.rx_base = first, !.UEP2_CTRL.r = r]
  <1>7. ASSUME NEW length \in 0 .. MaxPacket, NEW first \in Byte, NEW r \in Responses
        PROVE  LET d == Filled(length, first, r) IN
               /\ d \in Device /\ d.UEP2_CTRL.r_tog = dev.UEP2_CTRL.r_tog
               /\ d.UEP2_CTRL.r = r /\ d.ep2_out_length = length
               /\ d.ep2_out_index = 0 /\ d.rx_base = first
               /\ d.halt_out = dev.halt_out /\ Same(d)
    <2> DEFINE d == Filled(length, first, r)
    <2> DEFINE control == [dev.UEP2_CTRL EXCEPT !.r = r]
    <2>1. /\ control \in Control /\ control.r = r
          /\ control.r_tog = dev.UEP2_CTRL.r_tog /\ control.t = dev.UEP2_CTRL.t
          /\ control.t_tog = dev.UEP2_CTRL.t_tog
      BY DEF TypeOK, Device, Control
    <2>2. d = [dev EXCEPT !.ep2_out_length = length, !.ep2_out_index = 0,
                          !.rx_base = first, !.UEP2_CTRL = control]
      OBVIOUS
    <2>3. 0 \in 0 .. MaxPacket
      BY BulkAssumption
    <2> HIDE DEF control, Filled
    <2> QED
      BY <2>1, <2>2, <2>3 DEF TypeOK, Device
  <1>8. CASE dev.current_configuration = 0
    <2> DEFINE d == Filled(0, dev.rx_base, "NAK")
    <2>1. d = Discarded
      BY DEF Discarded, TypeOK, Device
    <2>2. 0 \in 0 .. MaxPacket /\ dev.rx_base \in Byte /\ "NAK" \in Responses
      BY BulkAssumption DEF TypeOK, Device, Responses
    <2>3. dev' = [d EXCEPT !.UEP2_CTRL.r_tog = IF host.out = @ THEN ~@ ELSE @]
      BY <1>2, <1>8, <2>1 DEF OutHandled
    <2> HIDE DEF Filled
    <2>4. /\ d \in Device /\ d.UEP2_CTRL.r_tog = dev.UEP2_CTRL.r_tog
          /\ d.UEP2_CTRL.r = "NAK" /\ d.ep2_out_length = 0
          /\ d.ep2_out_index = 0 /\ d.rx_base = dev.rx_base
          /\ d.halt_out = dev.halt_out /\ Same(d)
      BY <1>7, <2>2
    <2> QED
      BY <1>2, <1>4, <1>5, <1>6, <1>8, <2>3, <2>4 DEF KeepsIn, base
  <1>9. CASE dev.current_configuration # 0 /\ host.out # dev.UEP2_CTRL.r_tog
    <2>1. dev' = [dev EXCEPT !.UEP2_CTRL.r_tog = IF host.out = @ THEN ~@ ELSE @]
      BY <1>2, <1>9 DEF OutHandled
    <2> QED
      BY <1>2, <1>4, <1>5, <1>6, <1>9, <2>1 DEF KeepsIn, TypeOK, base
  <1>10. CASE dev.current_configuration # 0 /\ host.out = dev.UEP2_CTRL.r_tog
    <2> DEFINE d == Filled(n, base, PacketResponse(n))
    <2>1. dev' = [d EXCEPT !.UEP2_CTRL.r_tog = IF host.out = @ THEN ~@ ELSE @]
      BY <1>2, <1>10 DEF OutHandled, Taken
    <2> HIDE DEF Filled
    <2>2. /\ d \in Device /\ d.UEP2_CTRL.r_tog = dev.UEP2_CTRL.r_tog
          /\ d.UEP2_CTRL.r = PacketResponse(n) /\ d.ep2_out_length = n
          /\ d.ep2_out_index = 0 /\ d.rx_base = base
          /\ d.halt_out = dev.halt_out /\ Same(d)
      BY <1>1, <1>3, <1>7
    <2> QED
      BY <1>2, <1>4, <1>5, <1>6, <1>10, <2>1, <2>2 DEF KeepsIn, base
  <1> QED
    BY <1>8, <1>9, <1>10

LEMMA InPacketFields ==
    ASSUME TypeOK, NEW handshake \in BOOLEAN, InPacket(handshake)
    PROVE  /\ dev' \in Device /\ cpu' = cpu /\ host' \in HostEnd /\ log' \in Log
           /\ dev.UEP2_CTRL.t = "ACK" /\ KeepsOut
           /\ dev'.tx_piece = dev.tx_piece /\ dev'.halt_in = dev.halt_in
           /\ handshake => /\ dev'.UEP2_T_LEN = "none" /\ ~dev'.ep2_tx_busy
                           /\ dev'.UEP2_CTRL.t = InResponse(dev.halt_in)
                           /\ dev'.UEP2_CTRL.t_tog = ~dev.UEP2_CTRL.t_tog
           /\ ~handshake => dev' = dev
           /\ host'.in = ~dev.UEP2_CTRL.t_tog
           /\ host'.out = host.out /\ host'.retry = host.retry
           /\ host'.size = host.size /\ host'.requests = host.requests
           /\ log'.sent = log.sent /\ log'.read = log.read /\ log'.upsets = log.upsets
           /\ IF host.in = dev.UEP2_CTRL.t_tog /\ Offered # "none"
              THEN log'.got = Offered /\ log'.delivered = log.delivered \cup {Offered}
              ELSE log'.got = log.got /\ log'.delivered = log.delivered
  <1> DEFINE control == [dev.UEP2_CTRL EXCEPT !.t_tog = ~@, !.t = InResponse(dev.halt_in)]
  <1>1. /\ dev.UEP2_CTRL.t = "ACK" /\ cpu' = cpu
        /\ dev' = IF handshake THEN InHandled ELSE dev
        /\ host' = [host EXCEPT !.in = IF host.in = dev.UEP2_CTRL.t_tog THEN ~@ ELSE @]
    BY DEF InPacket
  <1>2. /\ control \in Control /\ control.t = InResponse(dev.halt_in)
        /\ control.t_tog = ~dev.UEP2_CTRL.t_tog
        /\ control.r = dev.UEP2_CTRL.r /\ control.r_tog = dev.UEP2_CTRL.r_tog
    <2>1. InResponse(dev.halt_in) \in Responses
      BY DEF InResponse, Responses
    <2>2. dev.UEP2_CTRL \in Control /\ dev.UEP2_CTRL.t_tog \in BOOLEAN
      BY DEF TypeOK, Device, Control
    <2>3. control = [dev.UEP2_CTRL EXCEPT !.t_tog = ~dev.UEP2_CTRL.t_tog,
                                          !.t = InResponse(dev.halt_in)]
      OBVIOUS
    <2> HIDE DEF control
    <2> QED
      BY <2>1, <2>2, <2>3 DEF Control
  <1>3. InHandled = [dev EXCEPT !.UEP2_T_LEN = "none", !.ep2_tx_busy = FALSE,
                                !.UEP2_CTRL = control]
    BY DEF InHandled
  <1> HIDE DEF control
  <1>4. /\ dev' \in Device /\ KeepsOut
        /\ dev'.tx_piece = dev.tx_piece /\ dev'.halt_in = dev.halt_in
        /\ handshake => /\ dev'.UEP2_T_LEN = "none" /\ ~dev'.ep2_tx_busy
                        /\ dev'.UEP2_CTRL.t = InResponse(dev.halt_in)
                        /\ dev'.UEP2_CTRL.t_tog = ~dev.UEP2_CTRL.t_tog
        /\ ~handshake => dev' = dev
    <2>1. CASE handshake
      BY <1>1, <1>2, <1>3, <2>1 DEF TypeOK, Device, KeepsOut
    <2>2. CASE ~handshake
      BY <1>1, <2>2 DEF TypeOK, KeepsOut
    <2> QED
      BY <2>1, <2>2
  <1>5. /\ host' \in HostEnd /\ host'.in = ~dev.UEP2_CTRL.t_tog
        /\ host'.out = host.out /\ host'.retry = host.retry
        /\ host'.size = host.size /\ host'.requests = host.requests
    <2>1. dev.UEP2_CTRL.t_tog \in BOOLEAN /\ host.in \in BOOLEAN
      BY DEF TypeOK, HostEnd, Device, Control
    <2>2. host' = [host EXCEPT !.in = ~dev.UEP2_CTRL.t_tog]
      <3>1. (IF host.in = dev.UEP2_CTRL.t_tog THEN ~host.in ELSE host.in)
              = ~dev.UEP2_CTRL.t_tog
        BY <2>1
      <3> QED
        BY <1>1, <3>1
    <2> QED
      BY <2>1, <2>2 DEF TypeOK, HostEnd
  <1>6. /\ log' \in Log
        /\ log'.sent = log.sent /\ log'.read = log.read /\ log'.upsets = log.upsets
        /\ IF host.in = dev.UEP2_CTRL.t_tog /\ Offered # "none"
           THEN log'.got = Offered /\ log'.delivered = log.delivered \cup {Offered}
           ELSE log'.got = log.got /\ log'.delivered = log.delivered
    <2>1. Offered \in Offers
      BY DEF Offered, Offers, TypeOK, Device
    <2>2. log' = IF host.in = dev.UEP2_CTRL.t_tog /\ Offered # "none"
                 THEN [log EXCEPT !.got = Offered, !.delivered = @ \cup {Offered}]
                 ELSE log
      BY DEF InPacket
    <2>3. CASE host.in = dev.UEP2_CTRL.t_tog /\ Offered # "none"
      BY <2>1, <2>2, <2>3 DEF TypeOK, Log
    <2>4. CASE ~(host.in = dev.UEP2_CTRL.t_tog /\ Offered # "none")
      BY <2>2, <2>4 DEF TypeOK
    <2> QED
      BY <2>3, <2>4
  <1> QED
    BY <1>1, <1>4, <1>5, <1>6

(* What a request leaves behind in the two directions.                     *)
ResetTo(configuration) ==
    /\ dev'.current_configuration = configuration
    /\ dev'.ep2_out_length = 0 /\ dev'.ep2_out_index = 0 /\ ~dev'.halt_out
    /\ dev'.UEP2_CTRL.r = OutResponse(configuration) /\ dev'.UEP2_CTRL.r_tog = FALSE
    /\ ~dev'.ep2_tx_busy /\ ~dev'.halt_in
    /\ dev'.UEP2_CTRL.t = "NAK" /\ dev'.UEP2_CTRL.t_tog = FALSE
    /\ host'.out = FALSE /\ host'.retry = FALSE /\ host'.in = FALSE

KeepsHostOut == host'.out = host.out /\ host'.retry = host.retry /\ host'.size = host.size

RequestEffect(request) ==
    \/ request \in {"configure", "deconfigure", "bus_reset"}
         /\ \E configuration \in {0, 1} : ResetTo(configuration)
    \/ /\ request \in {"suspend", "halt_in", "clear_in"} /\ KeepsOut /\ KeepsHostOut
       /\ ~dev'.ep2_tx_busy
       /\ \/ dev'.halt_in = dev.halt_in /\ dev'.UEP2_CTRL.t = InResponse(dev.halt_in)
            /\ host'.in = host.in /\ dev'.UEP2_CTRL.t_tog = dev.UEP2_CTRL.t_tog
          \/ dev'.halt_in /\ dev'.UEP2_CTRL.t = "STALL"
            /\ host'.in = host.in /\ dev'.UEP2_CTRL.t_tog = dev.UEP2_CTRL.t_tog
          \/ ~dev'.halt_in /\ dev'.UEP2_CTRL.t = "NAK"
            /\ host'.in = FALSE /\ dev'.UEP2_CTRL.t_tog = FALSE
    \/ /\ request = "halt_out" /\ KeepsIn /\ KeepsHostOut /\ host'.in = host.in
       /\ dev'.halt_out /\ dev'.UEP2_CTRL.r = "STALL"
       /\ dev'.UEP2_CTRL.r_tog = dev.UEP2_CTRL.r_tog
       /\ dev'.ep2_out_length = dev.ep2_out_length
       /\ dev'.ep2_out_index = dev.ep2_out_index
    \/ /\ request = "clear_out" /\ KeepsIn /\ host'.in = host.in
       /\ ~dev'.halt_out /\ dev'.UEP2_CTRL.r = "ACK" /\ dev'.UEP2_CTRL.r_tog = FALSE
       /\ dev'.ep2_out_length = 0 /\ dev'.ep2_out_index = 0
       /\ host'.out = FALSE /\ host'.retry = FALSE

LEMMA RequestFields ==
    ASSUME TypeOK, NEW request \in AllRequests, Request(request)
    PROVE  /\ dev' \in Device /\ cpu' = cpu /\ host' \in HostEnd /\ log' \in Log
           /\ dev'.rx_base = dev.rx_base /\ RequestEffect(request)
           /\ host'.requests = host.requests + 1
           /\ log'.sent = log.sent /\ log'.read = log.read
           /\ log'.got = log.got /\ log'.delivered = log.delivered
           /\ log.upsets \subseteq log'.upsets
           /\ "request" \notin log'.upsets => cpu.pc \in Between
  <1> DEFINE After == [Handled(request) EXCEPT !.rx_base = dev.rx_base,
                                                !.tx_piece = dev.tx_piece]
  <1>1. /\ dev' = After /\ cpu' = cpu
        /\ Upset("request", cpu.pc \notin Between)
    BY DEF Request
  <1>2. host.requests + 1 \in 0 .. MaxRequests /\ 0 \in 0 .. MaxPacket
    BY BulkAssumption DEF Request, TypeOK, HostEnd
  <1>3. /\ host' \in HostEnd /\ host'.requests = host.requests + 1
        /\ request \in {"configure", "deconfigure", "bus_reset"}
             => host'.out = FALSE /\ host'.retry = FALSE /\ host'.in = FALSE
        /\ request \in {"suspend", "halt_in", "halt_out"}
             => KeepsHostOut /\ host'.in = host.in
        /\ request = "clear_in" => KeepsHostOut /\ host'.in = FALSE
        /\ request = "clear_out" => host'.out = FALSE /\ host'.retry = FALSE /\ host'.in = host.in
    <2> DEFINE count == host.requests + 1
               out == request \in {"configure", "deconfigure", "bus_reset", "clear_out"}
               in == request \in {"configure", "deconfigure", "bus_reset", "clear_in"}
    <2>1. host' = [host EXCEPT !.requests = count,
                               !.out = IF out THEN FALSE ELSE @,
                               !.retry = IF out THEN FALSE ELSE @,
                               !.size = IF out THEN 0 ELSE @,
                               !.in = IF in THEN FALSE ELSE @]
      BY DEF Request
    <2>2. /\ request \in {"configure", "deconfigure", "bus_reset"} => out /\ in
          /\ request \in {"suspend", "halt_in", "halt_out"} => ~out /\ ~in
          /\ request = "clear_in" => ~out /\ in
          /\ request = "clear_out" => out /\ ~in
      OBVIOUS
    <2> HIDE DEF count, out, in
    <2>3. /\ host' \in HostEnd /\ host'.requests = count
          /\ out => host'.out = FALSE /\ host'.retry = FALSE
          /\ ~out => KeepsHostOut
          /\ in => host'.in = FALSE
          /\ ~in => host'.in = host.in
      BY <1>2, <2>1 DEF TypeOK, HostEnd, KeepsHostOut, count
    <2> QED
      BY <2>2, <2>3 DEF count
  <1>4. /\ log' \in Log /\ log'.sent = log.sent /\ log'.read = log.read
        /\ log'.got = log.got /\ log'.delivered = log.delivered
        /\ log.upsets \subseteq log'.upsets
        /\ "request" \notin log'.upsets => cpu.pc \in Between
    BY <1>1, UpsetFields DEF TypeOK, AllUpsets
  <1>5. dev' \in Device /\ dev'.rx_base = dev.rx_base /\ RequestEffect(request)
    <2>1. CASE request \in {"configure", "deconfigure", "bus_reset"}
      <3>1. PICK configuration \in {0, 1} : Handled(request) = Fresh(configuration)
        BY <2>1 DEF Handled
      <3>2. dev' \in Device /\ dev'.rx_base = dev.rx_base
        BY <1>1, <3>1, FreshType DEF TypeOK, Device
      <3>3. ResetTo(configuration)
        BY <1>1, <1>3, <2>1, <3>1 DEF Fresh, ResetTo
      <3> QED
        BY <2>1, <3>2, <3>3 DEF RequestEffect
    <2>2. CASE request = "suspend"
      <3> DEFINE control == [dev.UEP2_CTRL EXCEPT !.t = InResponse(dev.halt_in)]
      <3>1. dev' = [dev EXCEPT !.ep2_tx_busy = FALSE, !.UEP2_T_LEN = "none",
                               !.UEP2_CTRL = control,
                               !.rx_base = dev.rx_base, !.tx_piece = dev.tx_piece]
        BY <1>1, <2>2 DEF Handled
      <3>2. /\ control \in Control /\ control.t = InResponse(dev.halt_in)
            /\ control.t_tog = dev.UEP2_CTRL.t_tog
            /\ control.r = dev.UEP2_CTRL.r /\ control.r_tog = dev.UEP2_CTRL.r_tog
        <4>1. InResponse(dev.halt_in) \in Responses
          BY DEF InResponse, Responses
        <4> QED
          BY <4>1 DEF TypeOK, Device, Control
      <3> HIDE DEF control
      <3>3. /\ dev' \in Device /\ dev'.rx_base = dev.rx_base /\ KeepsOut
            /\ ~dev'.ep2_tx_busy /\ dev'.halt_in = dev.halt_in
            /\ dev'.UEP2_CTRL = control
        BY <3>1, <3>2 DEF TypeOK, Device, KeepsOut
      <3> QED
        BY <1>3, <2>2, <3>2, <3>3 DEF RequestEffect
    <2>3. CASE request = "halt_out"
      <3> DEFINE control == [dev.UEP2_CTRL EXCEPT !.r = "STALL"]
      <3>1. dev' = [dev EXCEPT !.halt_out = TRUE, !.UEP2_CTRL = control,
                               !.rx_base = dev.rx_base, !.tx_piece = dev.tx_piece]
        BY <1>1, <2>3 DEF Handled
      <3>2. /\ control \in Control /\ control.r = "STALL"
            /\ control.r_tog = dev.UEP2_CTRL.r_tog
            /\ control.t = dev.UEP2_CTRL.t /\ control.t_tog = dev.UEP2_CTRL.t_tog
        BY DEF TypeOK, Device, Control, Responses
      <3> HIDE DEF control
      <3>3. /\ dev' \in Device /\ dev'.rx_base = dev.rx_base /\ KeepsIn
            /\ dev'.halt_out /\ dev'.UEP2_CTRL = control
            /\ dev'.ep2_out_length = dev.ep2_out_length
            /\ dev'.ep2_out_index = dev.ep2_out_index
        BY <3>1, <3>2 DEF TypeOK, Device, KeepsIn
      <3> QED
        BY <1>3, <2>3, <3>2, <3>3 DEF RequestEffect
    <2>4. CASE request = "halt_in"
      <3> DEFINE control == [dev.UEP2_CTRL EXCEPT !.t = "STALL"]
      <3>1. dev' = [dev EXCEPT !.halt_in = TRUE, !.ep2_tx_busy = FALSE,
                               !.UEP2_T_LEN = "none", !.UEP2_CTRL = control,
                               !.rx_base = dev.rx_base, !.tx_piece = dev.tx_piece]
        BY <1>1, <2>4 DEF Handled
      <3>2. /\ control \in Control /\ control.t = "STALL"
            /\ control.t_tog = dev.UEP2_CTRL.t_tog
            /\ control.r = dev.UEP2_CTRL.r /\ control.r_tog = dev.UEP2_CTRL.r_tog
        BY DEF TypeOK, Device, Control, Responses
      <3> HIDE DEF control
      <3>3. /\ dev' \in Device /\ dev'.rx_base = dev.rx_base /\ KeepsOut
            /\ ~dev'.ep2_tx_busy /\ dev'.halt_in /\ dev'.UEP2_CTRL = control
        BY <3>1, <3>2 DEF TypeOK, Device, KeepsOut
      <3> QED
        BY <1>3, <2>4, <3>2, <3>3 DEF RequestEffect
    <2>5. CASE request = "clear_out"
      <3> DEFINE control == [dev.UEP2_CTRL EXCEPT !.r_tog = FALSE, !.r = "ACK"]
      <3>1. dev' = [dev EXCEPT !.halt_out = FALSE, !.ep2_out_length = 0,
                               !.ep2_out_index = 0, !.UEP2_CTRL = control,
                               !.rx_base = dev.rx_base, !.tx_piece = dev.tx_piece]
        BY <1>1, <2>5 DEF Handled
      <3>2. /\ control \in Control /\ control.r = "ACK" /\ control.r_tog = FALSE
            /\ control.t = dev.UEP2_CTRL.t /\ control.t_tog = dev.UEP2_CTRL.t_tog
        BY DEF TypeOK, Device, Control, Responses
      <3> HIDE DEF control
      <3>3. /\ dev' \in Device /\ dev'.rx_base = dev.rx_base /\ KeepsIn
            /\ ~dev'.halt_out /\ dev'.UEP2_CTRL = control
            /\ dev'.ep2_out_length = 0 /\ dev'.ep2_out_index = 0
        BY <1>2, <3>1, <3>2 DEF TypeOK, Device, KeepsIn
      <3> QED
        BY <1>3, <2>5, <3>2, <3>3 DEF RequestEffect
    <2>6. CASE request = "clear_in"
      <3> DEFINE control == [dev.UEP2_CTRL EXCEPT !.t_tog = FALSE, !.t = "NAK"]
      <3>1. dev' = [dev EXCEPT !.halt_in = FALSE, !.ep2_tx_busy = FALSE,
                               !.UEP2_T_LEN = "none", !.UEP2_CTRL = control,
                               !.rx_base = dev.rx_base, !.tx_piece = dev.tx_piece]
        BY <1>1, <2>6 DEF Handled
      <3>2. /\ control \in Control /\ control.t = "NAK" /\ control.t_tog = FALSE
            /\ control.r = dev.UEP2_CTRL.r /\ control.r_tog = dev.UEP2_CTRL.r_tog
        BY DEF TypeOK, Device, Control, Responses
      <3> HIDE DEF control
      <3>3. /\ dev' \in Device /\ dev'.rx_base = dev.rx_base /\ KeepsOut
            /\ ~dev'.ep2_tx_busy /\ ~dev'.halt_in /\ dev'.UEP2_CTRL = control
        BY <3>1, <3>2 DEF TypeOK, Device, KeepsOut
      <3> QED
        BY <1>3, <2>6, <3>2, <3>3 DEF RequestEffect
    <2> QED
      BY <2>1, <2>2, <2>3, <2>4, <2>5, <2>6 DEF AllRequests
  <1> QED
    BY <1>1, <1>3, <1>4, <1>5

-----------------------------------------------------------------------------
(* Type correctness and bounds.                                            *)
LEMMA LooksType ==
    ASSUME TypeOK, Bounds, Looks, UNCHANGED <<dev, host, log>>
    PROVE  TypeOK' /\ Bounds'
  <1> SUFFICES cpu' \in Processor /\ Bounds'
    BY DEF TypeOK
  <1>0. cpu \in Processor
    BY DEF TypeOK
  <1>b. /\ dev.ep2_out_length \in 0 .. MaxPacket /\ dev.ep2_out_index \in 0 .. MaxPacket
        /\ cpu.acc \in 0 .. MaxPacket /\ dev' = dev /\ host' = host /\ log' = log
    BY DEF TypeOK, Device, Processor
  <1> USE <1>0, <1>b, GoFields, ReturnFields DEF Bounds, At, Places, ReadPlaces, SendPlaces
  <1>1. CASE Available
    BY <1>1, LoadFields, ReadFields DEF Available
  <1>2. CASE Read
    <2>1. CASE At("read") \/ At("read_index") \/ At("read_length")
      BY <1>2, <2>1, LoadFields, FeedFields, BulkAssumption DEF Read
    <2>2. CASE ~(At("read") \/ At("read_index") \/ At("read_length"))
      BY <1>2, <2>2, LoadFields, FeedFields DEF Read
    <2> QED
      BY <2>1, <2>2
  <1>3. CASE Rearm
    <2>1. HaltResponse \in Responses /\ "NAK" \in Responses
      BY DEF HaltResponse, Responses
    <2> QED
      BY <1>3, <2>1, LoadControlFields, ResponseFields DEF Rearm, TypeOK
  <1>4. CASE FeedByte
    BY <1>4 DEF FeedByte
  <1>5. CASE Write
    BY <1>5, StartPolls DEF Write
  <1>6. CASE Wait
    BY <1>6, PollAgainFields DEF Wait, GiveUp
  <1>7. CASE Cancel
    <2>1. InResponse(dev.halt_in) \in Responses
      BY DEF InResponse, Responses
    <2> QED
      BY <1>7, <2>1, LoadControlFields, ResponseFields DEF Cancel, TypeOK
  <1> QED
    BY <1>1, <1>2, <1>3, <1>4, <1>5, <1>6, <1>7 DEF Looks

LEMMA MainType ==
    ASSUME TypeOK, Bounds, Main
    PROVE  TypeOK' /\ Bounds'
  <1>1. CASE Looks /\ UNCHANGED <<dev, host, log>>
    BY <1>1, LooksType
  <1>2. CASE StoreIndex
    BY <1>2, StoreIndexFields DEF TypeOK, Bounds, StoreIndex, At
  <1>3. CASE ReadByte
    BY <1>3, ReadByteFields DEF TypeOK, Bounds, At
  <1>4. CASE ClearIndex
    BY <1>4, ClearIndexFields DEF TypeOK, Bounds, At
  <1>5. CASE ClearLength
    BY <1>5, ClearLengthFields DEF TypeOK, Bounds, At
  <1>6. CASE RearmStore
    BY <1>6, RearmStoreFields DEF TypeOK, Bounds, At
  <1>7. CASE TransportSendLine
    BY <1>7, TransportSendLineFields DEF TypeOK, Bounds, At
  <1>8. CASE CancelBusy
    BY <1>8, CancelBusyFields DEF TypeOK, Bounds, At
  <1>9. CASE CancelLength
    BY <1>9, CancelLengthFields DEF TypeOK, Bounds, At
  <1>10. CASE CancelStore
    BY <1>10, CancelStoreFields DEF TypeOK, Bounds, At
  <1>11. CASE Copy
    BY <1>11, CopyFields DEF TypeOK, Bounds, At, Copy, Store
  <1>12. CASE ArmBusy
    BY <1>12, ArmBusyFields DEF TypeOK, Bounds, At, ArmBusy, Store
  <1>13. CASE ArmLength
    BY <1>13, ArmLengthFields DEF TypeOK, Bounds, At, ArmLength, Store
  <1>14. CASE Arm
    BY <1>14, ArmFields DEF TypeOK, Bounds, At
  <1> QED
    BY <1>1, <1>2, <1>3, <1>4, <1>5, <1>6, <1>7, <1>8, <1>9, <1>10, <1>11, <1>12,
       <1>13, <1>14 DEF Main

LEMMA BusType ==
    ASSUME TypeOK, Bounds, Bus
    PROVE  TypeOK' /\ Bounds'
  <1>1. ASSUME NEW n \in 0 .. MaxPacket, NEW handshake \in BOOLEAN, OutPacket(n, handshake)
        PROVE  TypeOK' /\ Bounds'
    <2>1. /\ dev' \in Device /\ cpu' = cpu /\ host' \in HostEnd /\ log' \in Log
          /\ dev'.ep2_out_index \in {0, dev.ep2_out_index}
          /\ host'.retry => host'.size = n
          /\ log'.sent = Base(n) + n
      BY <1>1, OutPacketFields
    <2>2. Base(n) \in Int /\ Base(n) \geq 0
      BY <1>1, BulkAssumption DEF Base, OutPacket, TypeOK, Bounds, HostEnd, Log, Byte
    <2>3. log'.sent \geq n
      BY <2>1, <2>2
    <2> QED
      BY <2>1, <2>3, BulkAssumption DEF TypeOK, Bounds, At, Device, Processor
  <1>2. ASSUME NEW handshake \in BOOLEAN, InPacket(handshake)
        PROVE  TypeOK' /\ Bounds'
    BY <1>2, InPacketFields DEF TypeOK, Bounds, At, KeepsOut
  <1>3. ASSUME NEW request \in Requests, Request(request)
        PROVE  TypeOK' /\ Bounds'
    <2>1. /\ dev' \in Device /\ cpu' = cpu /\ host' \in HostEnd /\ log' \in Log
          /\ RequestEffect(request) /\ log'.sent = log.sent
      BY <1>3, RequestFields, BulkAssumption
    <2>2. dev'.ep2_out_index \in {0, dev.ep2_out_index}
      BY <2>1 DEF RequestEffect, ResetTo, KeepsOut
    <2>3. host'.retry => host.retry /\ host'.size = host.size
      BY <2>1 DEF RequestEffect, ResetTo, KeepsHostOut
    <2> QED
      BY <2>1, <2>2, <2>3, BulkAssumption DEF TypeOK, Bounds, At, Device, Processor
  <1> QED
    BY <1>1, <1>2, <1>3 DEF Bus

LEMMA StepType == TypeOK /\ Bounds /\ [Next]_vars => TypeOK' /\ Bounds'
  <1>1. CASE UNCHANGED vars
    BY <1>1 DEF vars, TypeOK, Bounds, At
  <1> QED
    BY <1>1, MainType, BusType DEF Next

(* The type invariant, for packets and counts of every size: the index     *)
(* never passes the end of the buffer, whatever requests come and whatever *)
(* accesses race, and the polls of wait_for_tx_ready never wrap around.    *)
THEOREM TypeCorrect == Spec => []TypeOK
  <1>1. TypeOK /\ Bounds => TypeOK
    OBVIOUS
  <1> QED
    BY <1>1, InitType, StepType, PTL DEF Spec

-----------------------------------------------------------------------------
(* Hearing: only ClearLength ends it, and RearmStore restores it.          *)
LEMMA LooksHear ==
    ASSUME TypeOK, Bounds, Looks, cpu.pc \in RearmPlaces
    PROVE  cpu'.pc \in RearmPlaces
  <1> USE GoFields, LoadControlFields, ResponseFields
          DEF At, TypeOK, RearmPlaces, Places, ReadPlaces
  <1>1. Rearm
    BY DEF Looks, Available, Read, FeedByte, Write, Wait, Cancel
  <1>2. HaltResponse \in Responses /\ "NAK" \in Responses
    BY DEF HaltResponse, Responses
  <1> QED
    BY <1>1, <1>2 DEF Rearm

LEMMA StepHears == TypeOK /\ Bounds /\ Hears /\ [Next]_vars => Hears'
  <1> SUFFICES ASSUME TypeOK, Bounds, Hears, [Next]_vars
               PROVE  Hears'
    OBVIOUS
  <1>0. dev.UEP2_CTRL.r \in Responses
    BY DEF TypeOK, Device, Control
  <1> USE DEF Hears, RearmPlaces
  <1>1. CASE Looks /\ UNCHANGED <<dev, host, log>>
    BY <1>1, LooksHear
  <1>2. CASE StoreIndex
    <2>1. dev'.UEP2_CTRL = dev.UEP2_CTRL /\ dev'.halt_out = dev.halt_out
          /\ dev'.ep2_out_length = dev.ep2_out_length
          /\ dev'.current_configuration = dev.current_configuration
      BY <1>2, StoreIndexFields DEF TypeOK, Device
    <2> QED
      BY <1>2, <2>1, StoreIndexFields DEF StoreIndex, At
  <1>3. CASE ReadByte
    BY <1>3, ReadByteFields DEF ReadByte, At
  <1>4. CASE ClearIndex
    BY <1>4, ClearIndexFields DEF ClearIndex, Store, At, TypeOK, Device
  <1>5. CASE ClearLength
    BY <1>5, ClearLengthFields
  <1>6. CASE RearmStore
    <2> SUFFICES ASSUME "stale_store" \notin log'.upsets,
                        dev'.current_configuration # 0, ~dev'.halt_out
                 PROVE  dev'.UEP2_CTRL.r = "ACK"
      OBVIOUS
    <2>1. dev' = [dev EXCEPT !.UEP2_CTRL.r = RearmResponse]
      BY <1>6, RearmStoreFields
    <2>2. /\ dev'.UEP2_CTRL.r = RearmResponse /\ dev'.halt_out = dev.halt_out
          /\ dev'.current_configuration = dev.current_configuration
      BY <2>1 DEF TypeOK, Device, Control
    <2> QED
      BY <2>2 DEF RearmResponse, HaltResponse
  <1>7. CASE TransportSendLine
    BY <1>7, TransportSendLineFields DEF TransportSendLine, At
  <1>8. CASE CancelBusy \/ CancelLength \/ Copy \/ ArmBusy \/ ArmLength \/ Arm
    <2>1. KeepsOut /\ log' = log
      BY <1>8, CancelBusyFields, CancelLengthFields, CopyFields, ArmBusyFields,
         ArmLengthFields, ArmFields
    <2>2. cpu.pc \notin RearmPlaces
      BY <1>8 DEF CancelBusy, CancelLength, Copy, ArmBusy, ArmLength, Arm, Store, At
    <2> QED
      BY <2>1, <2>2 DEF KeepsOut
  <1>9. CASE CancelStore
    <2>1. "stale_store" \notin log'.upsets => KeepsOut /\ "stale_store" \notin log.upsets
      BY <1>9, CancelStoreFields
    <2>2. cpu.pc \notin RearmPlaces
      BY <1>9 DEF CancelStore, At
    <2> QED
      BY <2>1, <2>2 DEF KeepsOut
  <1>10. ASSUME NEW n \in 0 .. MaxPacket, NEW handshake \in BOOLEAN, OutPacket(n, handshake)
         PROVE  Hears'
    <2>1. KeepsIn /\ cpu' = cpu /\ log'.upsets = log.upsets /\ dev'.halt_out = dev.halt_out
      BY <1>10, OutPacketFields
    <2>2. dev.UEP2_CTRL.r = "ACK"
      BY <1>10 DEF OutPacket
    <2>3. \/ dev.current_configuration = 0
          \/ dev'.UEP2_CTRL.r = dev.UEP2_CTRL.r
          \/ dev'.UEP2_CTRL.r = PacketResponse(n) /\ dev'.ep2_out_length = n
      BY <1>10, OutPacketFields
    <2> QED
      BY <2>1, <2>2, <2>3 DEF KeepsIn, PacketResponse
  <1>11. ASSUME NEW handshake \in BOOLEAN, InPacket(handshake)
         PROVE  Hears'
    BY <1>11, InPacketFields DEF KeepsOut
  <1>12. ASSUME NEW request \in Requests, Request(request)
         PROVE  Hears'
    <2>1. RequestEffect(request) /\ cpu' = cpu /\ log.upsets \subseteq log'.upsets
      BY <1>12, RequestFields, BulkAssumption
    <2> QED
      BY <2>1 DEF RequestEffect, ResetTo, OutResponse, KeepsOut
  <1>13. CASE UNCHANGED vars
    BY <1>13 DEF vars
  <1> QED
    BY <1>1, <1>2, <1>3, <1>4, <1>5, <1>6, <1>7, <1>8, <1>9, <1>10, <1>11, <1>12,
       <1>13 DEF Next, Main, Bus

-----------------------------------------------------------------------------
(* The packet that waits to be read.                                       *)
Out == OutBuffer /\ Index /\ Order
Elsewhere == SendPlaces \cup {"available", "available_length", "feed"}

LEMMA Numbers ==
    ASSUME TypeOK
    PROVE  /\ dev.ep2_out_length \in Nat /\ dev.ep2_out_index \in Nat /\ cpu.acc \in Nat
           /\ dev.rx_base \in Nat /\ log.sent \in Nat /\ log.read \in Nat
           /\ host.requests \in Nat
  BY BulkAssumption DEF TypeOK, Device, Processor, HostEnd, Log, Byte

LEMMA ElsewherePlaces ==
    /\ Elsewhere \cap (Reading \cup {"available_index"}) = {}
    /\ Elsewhere \subseteq Places
  BY DEF Elsewhere, Reading, Finding, Comparing, RearmPlaces, SendPlaces, Places, ReadPlaces

(* A step that leaves this direction alone, in a place that knows nothing  *)
(* of it, or without moving the main loop.                                 *)
LEMMA OutFrame ==
    ASSUME Out, KeepsOut,
           host'.out = host.out, host'.retry = host.retry, host'.requests = host.requests,
           log'.sent = log.sent, log'.read = log.read,
           cpu' = cpu \/ (cpu.pc \in Elsewhere /\ cpu'.pc \in Elsewhere)
    PROVE  Out'
  <1> USE DEF Out, OutBuffer, Index, Order, Position, KeepsOut, At
  <1>1. CASE cpu' = cpu
    BY <1>1
  <1>2. CASE cpu.pc \in Elsewhere /\ cpu'.pc \in Elsewhere
    BY <1>2 DEF Elsewhere, SendPlaces, Reading, Finding, Comparing, RearmPlaces
  <1> QED
    BY <1>1, <1>2

LEMMA KeepsAll ==
    ASSUME dev' = dev
    PROVE  KeepsOut /\ KeepsIn
  BY DEF KeepsOut, KeepsIn

LEMMA LooksOut ==
    ASSUME TypeOK, Bounds, Out, Looks, UNCHANGED <<dev, host, log>>
    PROVE  Out'
  <1>0. cpu \in Processor /\ dev' = dev /\ host' = host /\ log' = log
    BY DEF TypeOK
  <1>b. /\ dev.ep2_out_length \in 0 .. MaxPacket /\ dev.ep2_out_index \in 0 .. MaxPacket
    BY DEF TypeOK, Device
  <1>1. CASE FeedByte \/ Write \/ Wait \/ Cancel
    <2> USE <1>0 DEF At, Places, Elsewhere, SendPlaces
    <2>1. CASE FeedByte \/ Write
      <3>1. cpu.pc \in Elsewhere /\ cpu'.pc \in Elsewhere
        BY <2>1, GoFields, ReturnFields, StartPolls DEF FeedByte, Write
      <3> QED
        BY <3>1, KeepsAll, OutFrame
    <2>2. CASE Wait
      <3>1. cpu.pc \in Elsewhere /\ cpu'.pc \in Elsewhere
        BY <2>2, GoFields, ReturnFields, PollAgainFields DEF Wait, GiveUp, Bounds
      <3> QED
        BY <3>1, KeepsAll, OutFrame
    <2>3. CASE Cancel
      <3>1. InResponse(dev.halt_in) \in Responses
        BY DEF InResponse, Responses
      <3>2. cpu.pc \in Elsewhere /\ cpu'.pc \in Elsewhere
        BY <2>3, <3>1, LoadControlFields, ResponseFields DEF Cancel, TypeOK
      <3> QED
        BY <3>2, KeepsAll, OutFrame
    <2> QED
      BY <1>1, <2>1, <2>2, <2>3
  <1> USE <1>0, Numbers DEF At, Places, ReadPlaces,
          Out, OutBuffer, Index, Order, Position, Reading, Finding, Comparing, RearmPlaces
  <1>2. CASE Available
    BY <1>2, <1>b, LoadFields, ReadFields, GoFields, ReturnFields DEF Available
  <1>3. CASE Read /\ (At("read") \/ At("read_index"))
    BY <1>3, <1>b, LoadFields, FeedFields, GoFields DEF Read
  <1>4. CASE Read /\ (At("read_length") \/ At("load_index"))
    BY <1>4, <1>b, LoadFields, FeedFields, GoFields DEF Read
  <1>5. CASE Read /\ (At("compare_length") \/ At("compare_index"))
    BY <1>5, <1>b, LoadFields, FeedFields, GoFields DEF Read
  <1>6. CASE Rearm
    <2>1. HaltResponse \in Responses /\ "NAK" \in Responses
      BY DEF HaltResponse, Responses
    <2> QED
      BY <1>6, <2>1, LoadControlFields, ResponseFields, GoFields DEF Rearm, TypeOK
  <1> QED
    BY <1>1, <1>2, <1>3, <1>4, <1>5, <1>6 DEF Looks, Read

LEMMA UndisturbedBefore ==
    ASSUME log.upsets \subseteq log'.upsets, Undisturbed'
    PROVE  Undisturbed
  BY DEF Undisturbed

LEMMA MainOut ==
    ASSUME TypeOK, Bounds, Out, Main, Undisturbed'
    PROVE  Out'
  <1>1. CASE Looks /\ UNCHANGED <<dev, host, log>>
    BY <1>1, LooksOut
  <1>2. CASE CancelBusy \/ CancelLength \/ Copy \/ ArmBusy \/ ArmLength \/ Arm
    <2>1. KeepsOut /\ log' = log /\ host' = host /\ cpu'.pc \in Elsewhere
      BY <1>2, CancelBusyFields, CancelLengthFields, CopyFields, ArmBusyFields,
         ArmLengthFields, ArmFields DEF Elsewhere, SendPlaces
    <2>2. cpu.pc \in Elsewhere
      BY <1>2 DEF CancelBusy, CancelLength, Copy, ArmBusy, ArmLength, Arm, Store, At,
                  Elsewhere, SendPlaces
    <2> QED
      BY <2>1, <2>2, OutFrame
  <1>3. CASE CancelStore
    <2>1. "stale_store" \notin log'.upsets
      BY DEF Undisturbed
    <2>2. /\ KeepsOut /\ host' = host /\ log'.sent = log.sent /\ log'.read = log.read
          /\ cpu'.pc = "available"
      BY <1>3, <2>1, CancelStoreFields
    <2> QED
      BY <1>3, <2>2, OutFrame DEF CancelStore, At, Elsewhere, SendPlaces
  <1>4. CASE TransportSendLine
    BY <1>4, TransportSendLineFields, KeepsAll, OutFrame
       DEF TransportSendLine, At, Elsewhere, SendPlaces
  <1> USE Numbers
      DEF At, Out, OutBuffer, Index, Order, Position, Reading, Finding, Comparing, RearmPlaces
  <1>5. CASE StoreIndex
    <2>1. /\ host' = host /\ cpu'.pc = "read_byte" /\ cpu'.acc = cpu.acc
          /\ dev'.ep2_out_index = cpu.acc + 1
          /\ log'.sent = log.sent /\ log'.read = log.read
          /\ dev' = [dev EXCEPT !.ep2_out_index = cpu.acc + 1]
      BY <1>5, StoreIndexFields
    <2>2. /\ dev'.current_configuration = dev.current_configuration
          /\ dev'.ep2_out_length = dev.ep2_out_length /\ dev'.halt_out = dev.halt_out
          /\ dev'.rx_base = dev.rx_base /\ dev'.UEP2_CTRL = dev.UEP2_CTRL
      BY <2>1 DEF TypeOK, Device
    <2> QED
      BY <1>5, <2>1, <2>2 DEF StoreIndex
  <1>6. CASE ReadByte
    BY <1>6, ReadByteFields DEF ReadByte
  <1>7. CASE ClearIndex
    <2>1. /\ host' = host /\ log' = log /\ cpu'.pc = "clear_length"
          /\ dev' = [dev EXCEPT !.ep2_out_index = 0]
      BY <1>7, ClearIndexFields
    <2>2. /\ dev'.current_configuration = dev.current_configuration
          /\ dev'.ep2_out_length = dev.ep2_out_length /\ dev'.halt_out = dev.halt_out
          /\ dev'.rx_base = dev.rx_base /\ dev'.UEP2_CTRL = dev.UEP2_CTRL
          /\ dev'.ep2_out_index = 0
      BY <2>1 DEF TypeOK, Device
    <2> QED
      BY <1>7, <2>1, <2>2 DEF ClearIndex, Store
  <1>8. CASE ClearLength
    <2>1. /\ host' = host /\ log' = log /\ cpu'.pc = "rearm_load"
          /\ dev' = [dev EXCEPT !.ep2_out_length = 0]
      BY <1>8, ClearLengthFields
    <2>2. /\ dev'.current_configuration = dev.current_configuration
          /\ dev'.ep2_out_length = 0 /\ dev'.halt_out = dev.halt_out
          /\ dev'.rx_base = dev.rx_base /\ dev'.UEP2_CTRL = dev.UEP2_CTRL
          /\ dev'.ep2_out_index = dev.ep2_out_index
      BY <2>1 DEF TypeOK, Device
    <2> QED
      BY <1>8, <2>1, <2>2 DEF ClearLength, Store
  <1>9. CASE RearmStore
    <2>1. "stale_store" \notin log'.upsets
      BY DEF Undisturbed
    <2>2. /\ host' = host /\ log'.sent = log.sent /\ log'.read = log.read
          /\ cpu'.pc = "feed" /\ dev' = [dev EXCEPT !.UEP2_CTRL.r = RearmResponse]
      BY <1>9, <2>1, RearmStoreFields
    <2>3. /\ dev'.current_configuration = dev.current_configuration
          /\ dev'.ep2_out_length = dev.ep2_out_length /\ dev'.halt_out = dev.halt_out
          /\ dev'.rx_base = dev.rx_base /\ dev'.UEP2_CTRL.r = RearmResponse
          /\ dev'.UEP2_CTRL.r_tog = dev.UEP2_CTRL.r_tog
          /\ dev'.ep2_out_index = dev.ep2_out_index
      BY <2>2 DEF TypeOK, Device, Control
    <2> QED
      BY <1>9, <2>2, <2>3 DEF RearmStore, RearmResponse, HaltResponse
  <1> QED
    BY <1>1, <1>2, <1>3, <1>4, <1>5, <1>6, <1>7, <1>8, <1>9 DEF Main

LEMMA OutPacketOut ==
    ASSUME TypeOK, Bounds, Out, NEW n \in 0 .. MaxPacket, NEW handshake \in BOOLEAN,
           OutPacket(n, handshake)
    PROVE  Out'
  <1>1. /\ cpu' = cpu /\ KeepsIn /\ dev'.halt_out = dev.halt_out
        /\ host'.requests = host.requests /\ log'.read = log.read
        /\ log'.sent = Base(n) + n /\ dev'.UEP2_CTRL.r_tog = ~host.out
    BY OutPacketFields
  <1>2. /\ dev.UEP2_CTRL.r = "ACK" /\ dev.ep2_out_length = 0 /\ dev.ep2_out_index = 0
        /\ ~dev.halt_out /\ cpu.pc \notin Reading
    <2>1. /\ dev.UEP2_CTRL.r = "ACK" /\ dev.ep2_out_length = 0 /\ ~dev.halt_out
          /\ cpu.pc \notin RearmPlaces
      BY DEF OutPacket, Out, OutBuffer
    <2>2. cpu.pc \notin Finding \cup Comparing \cup {"clear_length"}
      BY <2>1, Numbers DEF Out, Index, At
    <2>3. dev.ep2_out_index = 0
      BY <2>1, <2>2, Numbers DEF Out, Index
    <2> QED
      BY <2>1, <2>2, <2>3 DEF Reading
  <1>3. host.retry => n = host.size /\ Base(n) + n = log.sent
    BY Numbers, BulkAssumption DEF OutPacket, Base
  <1>4. ~host.retry => Base(n) = log.sent
    BY DEF Base
  <1>5. host'.retry <=> host'.out # dev'.UEP2_CTRL.r_tog
    <2>1. /\ host'.retry <=> ~handshake
          /\ host'.out = IF handshake THEN ~host.out ELSE host.out
      BY OutPacketFields
    <2>2. host.out \in BOOLEAN
      BY DEF TypeOK, HostEnd
    <2> QED
      BY <1>1, <2>1, <2>2
  <1>6. log.read \leq log.sent /\ (host.requests = 0 => log.read = log.sent)
    BY <1>2 DEF Out, Order, Position, At, Reading, Finding, Comparing
  <1>7. n \in Nat /\ log.sent \in Nat /\ log.read \in Nat
    BY Numbers, BulkAssumption
  <1> USE <1>1, <1>2, <1>5, <1>6, <1>7
      DEF Out, OutBuffer, Index, Order, Position, Reading, Finding, Comparing, RearmPlaces,
          At, KeepsIn
  <1>8. CASE dev.current_configuration = 0
    <2>1. /\ dev'.ep2_out_length = 0 /\ dev'.ep2_out_index = 0 /\ dev'.UEP2_CTRL.r # "ACK"
      BY <1>8, OutPacketFields
    <2>2. host.requests # 0
      BY <1>8
    <2>3. log.read \leq log'.sent
      BY <1>3, <1>4, Numbers, BulkAssumption
    <2> QED
      BY <1>8, <2>1, <2>2, <2>3
  <1>9. CASE dev.current_configuration # 0 /\ host.out # dev.UEP2_CTRL.r_tog
    <2>1. /\ dev'.ep2_out_length = 0 /\ dev'.ep2_out_index = 0
          /\ dev'.UEP2_CTRL.r = "ACK" /\ log'.sent = log.sent
      BY <1>3, <1>9, OutPacketFields
    <2> QED
      BY <1>9, <2>1
  <1>10. CASE dev.current_configuration # 0 /\ host.out = dev.UEP2_CTRL.r_tog
    <2>1. /\ dev'.ep2_out_length = n /\ dev'.ep2_out_index = 0
          /\ dev'.UEP2_CTRL.r = PacketResponse(n) /\ dev'.rx_base = log.sent
          /\ log'.sent = log.sent + n
      BY <1>4, <1>10, OutPacketFields
    <2> QED
      BY <1>10, <2>1 DEF PacketResponse
  <1> QED
    BY <1>8, <1>9, <1>10

LEMMA RequestOut ==
    ASSUME TypeOK, Bounds, Out, NEW request \in Requests, Request(request), Undisturbed'
    PROVE  Out'
  <1>1. /\ cpu' = cpu /\ dev'.rx_base = dev.rx_base /\ RequestEffect(request)
        /\ host'.requests = host.requests + 1 /\ cpu.pc \in Between
        /\ log'.sent = log.sent /\ log'.read = log.read
    BY RequestFields, BulkAssumption DEF Undisturbed
  <1>2. log.read \leq log.sent
    BY <1>1, Numbers DEF Out, OutBuffer, Index, Order, Position, Between, At, Comparing
  <1>3. host'.requests # 0
    BY <1>1, Numbers
  <1> USE <1>1, <1>2, <1>3, Numbers
      DEF Out, OutBuffer, Index, Order, Position, Reading, Finding, Comparing, RearmPlaces,
          At, Between, OutResponse, RequestEffect
  <1>4. CASE request \in {"configure", "deconfigure", "bus_reset"}
    BY <1>4 DEF ResetTo
  <1>5. CASE request \in {"suspend", "halt_in", "clear_in"}
    BY <1>5 DEF KeepsOut, KeepsHostOut
  <1>6. CASE request = "halt_out"
    BY <1>6 DEF KeepsIn, KeepsHostOut
  <1>7. CASE request = "clear_out"
    BY <1>7 DEF KeepsIn
  <1> QED
    BY <1>4, <1>5, <1>6, <1>7, BulkAssumption DEF AllRequests

LEMMA BusOut ==
    ASSUME TypeOK, Bounds, Out, Bus, Undisturbed'
    PROVE  Out'
  <1>1. ASSUME NEW handshake \in BOOLEAN, InPacket(handshake)
        PROVE  Out'
    BY <1>1, InPacketFields, OutFrame
  <1> QED
    BY <1>1, OutPacketOut, RequestOut DEF Bus

-----------------------------------------------------------------------------
(* The packet that waits to be fetched.                                    *)
LEMMA InFrame ==
    ASSUME InBuffer, KeepsIn, host'.in = host.in,
           \/ cpu' = cpu /\ log'.delivered = log.delivered
           \/ cpu.pc \notin SendPlaces /\ cpu'.pc \notin SendPlaces
    PROVE  InBuffer'
  <1> USE DEF InBuffer, KeepsIn, Quiet, At
  <1>1. CASE cpu' = cpu /\ log'.delivered = log.delivered
    BY <1>1 DEF Fetched, Waiting
  <1>2. CASE cpu.pc \notin SendPlaces /\ cpu'.pc \notin SendPlaces
    BY <1>2 DEF SendPlaces
  <1> QED
    BY <1>1, <1>2

LEMMA LooksIn ==
    ASSUME TypeOK, Bounds, InBuffer, Looks, UNCHANGED <<dev, host, log>>
    PROVE  InBuffer'
  <1>0. cpu \in Processor /\ dev' = dev /\ host' = host /\ log' = log
    BY DEF TypeOK
  <1>1. CASE Available \/ Read \/ Rearm \/ FeedByte
    <2> USE <1>0, GoFields DEF At, Places, ReadPlaces, SendPlaces
    <2>1. CASE Available \/ FeedByte
      <3>1. cpu.pc \notin SendPlaces /\ cpu'.pc \notin SendPlaces
        BY <2>1, ReturnFields, LoadFields, ReadFields DEF Available, FeedByte, TypeOK, Device
      <3> QED
        BY <3>1, KeepsAll, InFrame
    <2>2. CASE Read
      <3>1. cpu.pc \notin SendPlaces /\ cpu'.pc \notin SendPlaces
        BY <2>2, LoadFields, FeedFields DEF Read, TypeOK, Device
      <3> QED
        BY <3>1, KeepsAll, InFrame
    <2>3. CASE Rearm
      <3>1. HaltResponse \in Responses /\ "NAK" \in Responses
        BY DEF HaltResponse, Responses
      <3>2. cpu.pc \notin SendPlaces /\ cpu'.pc \notin SendPlaces
        BY <2>3, <3>1, LoadControlFields, ResponseFields DEF Rearm, TypeOK
      <3> QED
        BY <3>2, KeepsAll, InFrame
    <2> QED
      BY <1>1, <2>1, <2>2, <2>3
  <1> USE <1>0 DEF At, InBuffer, Fetched, Waiting, Quiet, Places, SendPlaces
  <1>2. CASE Write
    BY <1>2, GoFields, ReturnFields, StartPolls DEF Write
  <1>3. CASE Wait
    BY <1>3, GoFields, ReturnFields, PollAgainFields DEF Wait, GiveUp, Bounds
  <1>4. CASE Cancel
    <2>1. InResponse(dev.halt_in) \in Responses
      BY DEF InResponse, Responses
    <2> QED
      BY <1>4, <2>1, LoadControlFields, ResponseFields DEF Cancel, TypeOK
  <1> QED
    BY <1>1, <1>2, <1>3, <1>4 DEF Looks

LEMMA MainIn ==
    ASSUME TypeOK, Bounds, InBuffer, Main, Undisturbed'
    PROVE  InBuffer'
  <1>1. CASE Looks /\ UNCHANGED <<dev, host, log>>
    BY <1>1, LooksIn
  <1>2. CASE StoreIndex \/ ClearIndex \/ ClearLength \/ RearmStore \/ ReadByte
    <2>1. "stale_store" \notin log'.upsets
      BY DEF Undisturbed
    <2>2. KeepsIn /\ host' = host /\ cpu'.pc \notin SendPlaces
      BY <1>2, <2>1, StoreIndexFields, ClearIndexFields, ClearLengthFields,
         RearmStoreFields, ReadByteFields, KeepsAll DEF SendPlaces
    <2>3. cpu.pc \notin SendPlaces
      BY <1>2 DEF StoreIndex, ClearIndex, ClearLength, RearmStore, ReadByte, Store, At,
                  SendPlaces
    <2> QED
      BY <2>2, <2>3, InFrame
  <1> USE DEF At, InBuffer, Fetched, Waiting, Quiet, SendPlaces, TypeOK
  <1>3. CASE TransportSendLine
    BY <1>3, TransportSendLineFields DEF TransportSendLine, Done
  <1>4. CASE CancelBusy
    BY <1>4, CancelBusyFields DEF CancelBusy, Store, Device
  <1>5. CASE CancelLength
    BY <1>5, CancelLengthFields DEF CancelLength, Store, Device
  <1>6. CASE CancelStore
    <2>1. "stale_store" \notin log'.upsets /\ "taken_back" \notin log'.upsets
      BY DEF Undisturbed
    <2>2. /\ host' = host /\ cpu'.pc = "available"
          /\ dev' = [dev EXCEPT !.UEP2_CTRL.t = InResponse(dev.halt_in)]
          /\ host.in = dev'.UEP2_CTRL.t_tog
      BY <1>6, <2>1, CancelStoreFields
    <2>3. /\ dev'.UEP2_CTRL.t = InResponse(dev.halt_in)
          /\ dev'.halt_in = dev.halt_in /\ dev'.ep2_tx_busy = dev.ep2_tx_busy
      BY <2>2 DEF Device, Control
    <2> QED
      BY <1>6, <2>2, <2>3 DEF CancelStore, InResponse
  <1>7. CASE Copy
    BY <1>7, CopyFields DEF Copy, Store, Device
  <1>8. CASE ArmBusy
    BY <1>8, ArmBusyFields DEF ArmBusy, Store, Device
  <1>9. CASE ArmLength
    BY <1>9, ArmLengthFields DEF ArmLength, Store, Device
  <1>10. CASE Arm
    <2>1. /\ host' = host /\ log' = log /\ cpu.piece = Last(cpu'.piece)
          /\ \/ cpu'.pc = "write" /\ cpu'.piece = "crlf"
             \/ cpu'.pc = "wait" /\ cpu'.piece = "flush"
          /\ dev' = [dev EXCEPT !.UEP2_CTRL.t = "ACK"]
      BY <1>10, ArmFields
    <2>2. /\ dev'.UEP2_CTRL.t = "ACK" /\ dev'.UEP2_CTRL.t_tog = dev.UEP2_CTRL.t_tog
          /\ dev'.halt_in = dev.halt_in /\ dev'.ep2_tx_busy = dev.ep2_tx_busy
          /\ dev'.UEP2_T_LEN = dev.UEP2_T_LEN /\ dev'.tx_piece = dev.tx_piece
          /\ dev'.current_configuration = dev.current_configuration
      BY <2>1 DEF Device, Control
    <2>3. Done(cpu.piece) = Before(cpu'.piece)
      BY <2>1 DEF Done, Before, Last
    <2> QED
      BY <1>10, <2>1, <2>2, <2>3 DEF Arm
  <1> QED
    BY <1>1, <1>2, <1>3, <1>4, <1>5, <1>6, <1>7, <1>8, <1>9, <1>10 DEF Main

LEMMA NextPiece ==
    ASSUME NEW piece \in Pieces \cup {"flush"}, piece # "text"
    PROVE  /\ Last(piece) \in Pieces /\ Last(piece) \notin {"none", "mixed"}
           /\ Before(piece) \cup {Last(piece)} = Done(piece)
  BY DEF Pieces, Last, Before, Done

(* The only places where a packet can be fetched, and what it is.          *)
LEMMA ArmedWhere ==
    ASSUME TypeOK, InBuffer, dev.UEP2_CTRL.t = "ACK"
    PROVE  /\ cpu.pc \in SendPlaces /\ ~dev.halt_in
           /\ \/ /\ cpu.pc \in {"write", "write_halt", "wait", "wait_configuration",
                               "wait_halt", "cancel_busy", "cancel_length"}
                 /\ Waiting /\ Offered = Last(cpu.piece)
              \/ /\ cpu.pc \in {"cancel_load", "cancel_halt", "cancel_store"}
                 /\ Offered = "none"
  <1>1. cpu.pc \in SendPlaces /\ ~dev.halt_in
    BY DEF InBuffer, Quiet
  <1>2. Waiting => Offered = Last(cpu.piece)
    BY DEF Waiting, Offered
  <1>3. cpu.pc \notin {"copy", "arm_busy", "arm_length", "arm"}
    BY DEF InBuffer, Fetched, Quiet
  <1>4. CASE cpu.pc \in {"cancel_load", "cancel_halt", "cancel_store"}
    BY <1>1, <1>4 DEF InBuffer, Quiet, Offered
  <1>5. CASE cpu.pc \in {"write", "write_halt", "wait", "wait_configuration",
                         "wait_halt", "cancel_busy", "cancel_length"}
    BY <1>1, <1>2, <1>5 DEF InBuffer, Fetched, Quiet, At
  <1> QED
    BY <1>1, <1>3, <1>4, <1>5 DEF SendPlaces

LEMMA InPacketIn ==
    ASSUME TypeOK, InBuffer, NEW handshake \in BOOLEAN, InPacket(handshake)
    PROVE  InBuffer'
  <1>1. /\ cpu' = cpu /\ KeepsOut
        /\ dev'.tx_piece = dev.tx_piece /\ dev'.halt_in = dev.halt_in
        /\ handshake => /\ dev'.UEP2_T_LEN = "none" /\ ~dev'.ep2_tx_busy
                        /\ dev'.UEP2_CTRL.t = InResponse(dev.halt_in)
                        /\ dev'.UEP2_CTRL.t_tog = ~dev.UEP2_CTRL.t_tog
        /\ ~handshake => dev' = dev
        /\ host'.in = ~dev.UEP2_CTRL.t_tog
    BY InPacketFields
  <1>2. dev.UEP2_CTRL.t = "ACK"
    BY DEF InPacket
  <1>3. dev.UEP2_CTRL.t_tog \in BOOLEAN /\ host.in \in BOOLEAN
    BY DEF TypeOK, Device, Control, HostEnd
  <1>4. handshake => Quiet' /\ dev'.UEP2_CTRL.t # "STALL"
    BY <1>1, <1>2, ArmedWhere DEF Quiet, InResponse
  <1>5. CASE cpu.pc \in {"cancel_load", "cancel_halt", "cancel_store"}
    <2>1. dev.UEP2_T_LEN = "none" /\ ~dev.ep2_tx_busy /\ ~dev.halt_in
          /\ dev.current_configuration # 0
      BY <1>2, <1>5 DEF InBuffer, Quiet, SendPlaces
    <2> QED
      BY <1>1, <1>2, <1>4, <1>5, <2>1 DEF InBuffer, At, KeepsOut, SendPlaces
  <1>6. CASE cpu.pc \in {"write", "write_halt", "wait", "wait_configuration",
                         "wait_halt", "cancel_busy", "cancel_length"}
    <2>1. Waiting /\ Offered = Last(cpu.piece) /\ ~dev.halt_in
      BY <1>2, <1>6, ArmedWhere
    <2>2. Last(cpu.piece) # "none"
          /\ Before(cpu.piece) \cup {Last(cpu.piece)} = Done(cpu.piece)
      BY <2>1, NextPiece DEF Waiting, TypeOK, Processor
    <2>3. log'.delivered = Done(cpu.piece)
      BY <2>1, <2>2, InPacketFields DEF Waiting
    <2>4. handshake => Fetched'
      BY <1>1, <1>4, <2>3 DEF Fetched
    <2>5. ~handshake => Waiting' /\ dev'.ep2_tx_busy = dev.ep2_tx_busy
      BY <1>1, <1>3, <2>1, <2>3 DEF Waiting
    <2> QED
      BY <1>1, <1>2, <1>6, <2>1, <2>4, <2>5 DEF InBuffer, At, KeepsOut, SendPlaces, Fetched, Quiet
  <1> QED
    BY <1>2, <1>5, <1>6, ArmedWhere

LEMMA RequestIn ==
    ASSUME TypeOK, Bounds, InBuffer, NEW request \in Requests, Request(request),
           Undisturbed'
    PROVE  InBuffer'
  <1>1. /\ cpu' = cpu /\ RequestEffect(request) /\ cpu.pc \in Between
        /\ log'.delivered = log.delivered
    BY RequestFields, BulkAssumption DEF Undisturbed
  <1>2. cpu.pc \notin SendPlaces
    BY <1>1 DEF Between, SendPlaces
  <1>3. Quiet /\ ~dev.ep2_tx_busy /\ (dev.halt_in => dev.UEP2_CTRL.t = "STALL")
    BY <1>2 DEF InBuffer
  <1>4. Quiet' /\ ~dev'.ep2_tx_busy /\ (dev'.halt_in => dev'.UEP2_CTRL.t = "STALL")
    BY <1>1, <1>3 DEF RequestEffect, ResetTo, KeepsIn, Quiet, InResponse
  <1> QED
    BY <1>1, <1>2, <1>4 DEF InBuffer, At, SendPlaces

LEMMA BusIn ==
    ASSUME TypeOK, Bounds, InBuffer, Bus, Undisturbed'
    PROVE  InBuffer'
  <1>1. ASSUME NEW n \in 0 .. MaxPacket, NEW handshake \in BOOLEAN, OutPacket(n, handshake)
        PROVE  InBuffer'
    BY <1>1, OutPacketFields, InFrame
  <1> QED
    BY <1>1, InPacketIn, RequestIn DEF Bus

-----------------------------------------------------------------------------
(* The byte fed, and the last piece the host received.                     *)
LEMMA StepHostBytes ==
    ASSUME TypeOK, Bounds, Out, cpu.pc = "feed" => cpu.value = "byte",
           Main, Undisturbed', cpu'.pc = "feed"
    PROVE  cpu'.value = "byte"
  <1>0. cpu \in Processor
    BY DEF TypeOK
  <1> USE <1>0, GoFields DEF At, Places, ReadPlaces, SendPlaces
  <1>1. CASE RearmStore
    BY <1>1, RearmStoreFields
  <1>2. CASE Read
    <2>1. dev.ep2_out_length \in 0 .. MaxPacket /\ dev.ep2_out_index \in 0 .. MaxPacket
      BY DEF TypeOK, Device
    <2>2. cpu.pc \in Finding
            => dev.current_configuration # 0 /\ dev.ep2_out_index < dev.ep2_out_length
      BY DEF Out, OutBuffer, Index, Reading
    <2>3. cpu.pc = "read_length" => cpu.acc = dev.ep2_out_index
      BY DEF Out, Index
    <2> QED
      BY <1>2, <2>1, <2>2, <2>3, LoadFields, FeedFields, Numbers DEF Read, Finding
  <1>3. CASE Available \/ FeedByte
    BY <1>3, LoadFields, ReadFields, ReturnFields DEF Available, FeedByte, TypeOK, Device
  <1>4. CASE Rearm
    <2>1. HaltResponse \in Responses /\ "NAK" \in Responses
      BY DEF HaltResponse, Responses
    <2> QED
      BY <1>4, <2>1, LoadControlFields, ResponseFields DEF Rearm, TypeOK
  <1>5. CASE Write \/ Wait
    BY <1>5, ReturnFields, StartPolls, PollAgainFields DEF Write, Wait, GiveUp, Bounds
  <1>6. CASE Cancel
    <2>1. InResponse(dev.halt_in) \in Responses
      BY DEF InResponse, Responses
    <2> QED
      BY <1>6, <2>1, LoadControlFields, ResponseFields DEF Cancel, TypeOK
  <1>7. CASE StoreIndex \/ ReadByte \/ ClearIndex \/ ClearLength
    BY <1>7, StoreIndexFields, ReadByteFields, ClearIndexFields, ClearLengthFields
  <1>8. CASE TransportSendLine \/ CancelBusy \/ CancelLength \/ CancelStore
    BY <1>8, TransportSendLineFields, CancelBusyFields, CancelLengthFields, CancelStoreFields
  <1>9. CASE Copy \/ ArmBusy \/ ArmLength \/ Arm
    BY <1>9, CopyFields, ArmBusyFields, ArmLengthFields, ArmFields
  <1> QED
    BY <1>1, <1>2, <1>3, <1>4, <1>5, <1>6, <1>7, <1>8, <1>9 DEF Main, Looks

LEMMA StepUpsets ==
    ASSUME TypeOK, Bounds, [Next]_vars
    PROVE  log.upsets \subseteq log'.upsets
  <1>1. CASE Looks /\ UNCHANGED <<dev, host, log>>
    BY <1>1
  <1>2. CASE StoreIndex \/ ReadByte \/ ClearIndex \/ ClearLength \/ RearmStore
    BY <1>2, StoreIndexFields, ReadByteFields, ClearIndexFields, ClearLengthFields,
       RearmStoreFields
  <1>3. CASE TransportSendLine \/ CancelBusy \/ CancelLength \/ CancelStore
    BY <1>3, TransportSendLineFields, CancelBusyFields, CancelLengthFields, CancelStoreFields
  <1>4. CASE Copy \/ ArmBusy \/ ArmLength \/ Arm
    BY <1>4, CopyFields, ArmBusyFields, ArmLengthFields, ArmFields
  <1>5. CASE Bus
    BY <1>5, OutPacketFields, InPacketFields, RequestFields, BulkAssumption DEF Bus
  <1>6. CASE UNCHANGED vars
    BY <1>6 DEF vars
  <1> QED
    BY <1>1, <1>2, <1>3, <1>4, <1>5, <1>6 DEF Next, Main

(* Only InPacket shows the host anything.                                  *)
LEMMA WhatIsGot ==
    ASSUME TypeOK, Bounds, [Next]_vars, log'.got # log.got
    PROVE  \E handshake \in BOOLEAN : InPacket(handshake)
  <1>1. ~(Looks /\ UNCHANGED <<dev, host, log>>) /\ ~UNCHANGED vars
    BY DEF vars
  <1>2. ~(StoreIndex \/ ReadByte \/ ClearIndex \/ ClearLength \/ RearmStore)
    BY StoreIndexFields, ReadByteFields, ClearIndexFields, ClearLengthFields,
       RearmStoreFields
  <1>3. ~(TransportSendLine \/ CancelBusy \/ CancelLength \/ CancelStore)
    BY TransportSendLineFields, CancelBusyFields, CancelLengthFields, CancelStoreFields
  <1>4. ~(Copy \/ ArmBusy \/ ArmLength \/ Arm)
    BY CopyFields, ArmBusyFields, ArmLengthFields, ArmFields
  <1> QED
    BY <1>1, <1>2, <1>3, <1>4, OutPacketFields, RequestFields, BulkAssumption
       DEF Next, Main, Bus

LEMMA GotIntact ==
    ASSUME TypeOK, Bounds, InBuffer, [Next]_vars, log.got # "mixed"
    PROVE  log'.got # "mixed"
  <1> SUFFICES ASSUME log'.got # log.got
               PROVE  log'.got # "mixed"
    OBVIOUS
  <1>1. PICK handshake \in BOOLEAN : InPacket(handshake)
    BY WhatIsGot
  <1>2. dev.UEP2_CTRL.t = "ACK" /\ log'.got = Offered
    BY <1>1, InPacketFields
  <1>3. CASE Waiting /\ Offered = Last(cpu.piece)
    BY <1>2, <1>3, NextPiece DEF Waiting, TypeOK, Processor
  <1>4. CASE Offered = "none"
    BY <1>2, <1>4
  <1> QED
    BY <1>2, <1>3, <1>4, ArmedWhere

-----------------------------------------------------------------------------
(* The inductive invariant.                                                *)
LEMMA InitInductive == Init => IInv
  <1> SUFFICES ASSUME Init
               PROVE  IInv
    OBVIOUS
  <1>1. PICK configuration \in {0, 1} : dev = Fresh(configuration)
    BY DEF Init
  <1>2. /\ dev.current_configuration = configuration /\ dev.ep2_out_length = 0
        /\ dev.ep2_out_index = 0 /\ ~dev.ep2_tx_busy /\ ~dev.halt_out /\ ~dev.halt_in
        /\ dev.UEP2_CTRL.r_tog = FALSE /\ dev.UEP2_CTRL.t_tog = FALSE
        /\ dev.UEP2_CTRL.r = OutResponse(configuration) /\ dev.UEP2_CTRL.t = "NAK"
    BY <1>1 DEF Fresh
  <1>3. /\ cpu.pc = "available" /\ host.out = FALSE /\ host.in = FALSE
        /\ host.retry = FALSE /\ host.requests = 0
        /\ log.sent = 0 /\ log.read = 0 /\ log.got = "none" /\ log.upsets = {}
    BY DEF Init, Returned
  <1>4. Hears
    BY <1>2 DEF Hears, OutResponse
  <1>5. cpu.pc \notin Reading
    BY <1>3 DEF Reading, Finding, Comparing, RearmPlaces
  <1>6. OutBuffer
    BY <1>2, <1>3, <1>5 DEF OutBuffer, OutResponse, Reading
  <1>7. Index
    BY <1>2, <1>3, <1>5 DEF Index, Reading, At
  <1>8. Order
    BY <1>2, <1>3 DEF Order, Position, At
  <1>9. InBuffer
    BY <1>2, <1>3 DEF InBuffer, Quiet, At, SendPlaces
  <1> QED
    BY <1>3, <1>4, <1>6, <1>7, <1>8, <1>9, InitType DEF IInv, Calm, At

LEMMA StepInductive == IInv /\ [Next]_vars => IInv'
  <1> SUFFICES ASSUME IInv, [Next]_vars
               PROVE  IInv'
    OBVIOUS
  <1>1. TypeOK' /\ Bounds' /\ Hears'
    BY StepType, StepHears DEF IInv
  <1>2. ASSUME Undisturbed'
        PROVE  /\ Out' /\ InBuffer' /\ log'.got # "mixed"
               /\ cpu'.pc = "feed" => cpu'.value = "byte"
    <2>1. /\ TypeOK /\ Bounds /\ Out /\ InBuffer /\ log.got # "mixed"
          /\ cpu.pc = "feed" => cpu.value = "byte"
      BY <1>2, StepUpsets, UndisturbedBefore DEF IInv, Calm, Out, At
    <2>2. log'.got # "mixed"
      BY <2>1, GotIntact
    <2>3. CASE UNCHANGED vars
      <3>1. cpu' = cpu /\ KeepsOut /\ KeepsIn /\ host' = host /\ log' = log
        BY <2>3, KeepsAll DEF vars
      <3> QED
        BY <2>1, <2>2, <3>1, OutFrame, InFrame
    <2>4. CASE Main
      BY <1>2, <2>1, <2>2, <2>4, MainOut, MainIn, StepHostBytes
    <2>5. CASE Bus
      <3>1. cpu' = cpu
        BY <2>1, <2>5, OutPacketFields, InPacketFields, RequestFields, BulkAssumption DEF Bus
      <3> QED
        BY <1>2, <2>1, <2>2, <2>5, <3>1, BusOut, BusIn
    <2> QED
      BY <2>3, <2>4, <2>5 DEF Next
  <1> QED
    BY <1>1, <1>2 DEF IInv, Calm, Out, At

-----------------------------------------------------------------------------
(* What the main loop and the handler do between them, whatever the order  *)
(* of their steps, keeps the endpoint and what the main loop has loaded of *)
(* it in agreement: the inductive invariant holds in every state.          *)
THEOREM EndpointInvariant == Spec => []IInv
  BY InitInductive, StepInductive, PTL DEF Spec

(* Undisturbed, usb_cdc_isr never overwrites a packet the main loop has not *)
(* read to its end: while it waits the endpoint does not say ACK.          *)
THEOREM PacketKeptAlways == Spec => []PacketKept
  <1>1. IInv => PacketKept
    BY DEF IInv, Calm, OutBuffer, PacketKept
  <1> QED
    BY <1>1, EndpointInvariant, PTL

(* Undisturbed, usb_cdc_read finds the byte usb_cdc_available has counted:  *)
(* the parser is fed no zero in its stead.                                 *)
THEOREM OnlyHostBytesAlways == Spec => []OnlyHostBytes
  <1>1. IInv => OnlyHostBytes
    BY DEF IInv, Calm, OnlyHostBytes
  <1> QED
    BY <1>1, EndpointInvariant, PTL

(* Undisturbed, when usb_cdc_flush finds the endpoint free the host has     *)
(* received the text and the end of the line.                              *)
THEOREM FlushMeansDeliveredAlways == Spec => []FlushMeansDelivered
  <1>1. IInv => FlushMeansDelivered
    <2>1. Done("flush") = Pieces
      BY DEF Done
    <2> QED
      BY <2>1 DEF IInv, Calm, InBuffer, Fetched, FlushMeansDelivered, At
  <1> QED
    BY <1>1, EndpointInvariant, PTL

(* Undisturbed, usb_cdc_write never touches the buffer of an armed endpoint. *)
THEOREM AnswersIntactAlways == Spec => []AnswersIntact
  <1>1. IInv => AnswersIntact
    BY DEF IInv, Calm, AnswersIntact
  <1> QED
    BY <1>1, EndpointInvariant, PTL

(* Undisturbed, a halted endpoint answers STALL.                           *)
THEOREM HaltsHoldAlways == Spec => []HaltsHold
  <1>1. IInv => HaltsHold
    BY DEF IInv, Calm, OutBuffer, InBuffer, HaltsHold
  <1> QED
    BY <1>1, EndpointInvariant, PTL

(* Unless a store of the main loop undid a change by the handler, an        *)
(* endpoint that is ready for a packet accepts it.                         *)
THEOREM NeverDeafAlways == Spec => []NeverDeaf
  <1>1. IInv => NeverDeaf
    BY DEF IInv, Hears, NeverDeaf, At, RearmPlaces
  <1> QED
    BY <1>1, EndpointInvariant, PTL

-----------------------------------------------------------------------------
(***************************************************************************)
(* Endpoint 2, as the main loop and the interrupt handler share it, keeps   *)
(* the promise of DataChannel: every step of UsbBulk that does not break    *)
(* the promise is a step of the channel, or leaves the channel as it is.    *)
(*                                                                          *)
(* The proof rests on the inductive invariant above: on Order, which says   *)
(* what number the byte at the index has, for the bytes; and on Waiting,    *)
(* which says what the armed packet holds, for the answers.                 *)
(***************************************************************************)
(* The values the channel's variables have in a state of the endpoint.     *)
Sending == cpu.pc \in SendPlaces
Level == IF ~Undisturbed THEN "broken"
         ELSE IF host.requests = 0 THEN "whole" ELSE "lossy"

LEMMA SameChannel ==
    ASSUME log'.sent = log.sent, log'.read = log.read, Sending' <=> Sending,
           log'.delivered = log.delivered, Level' = Level
    PROVE  UNCHANGED Channel!vars
  BY DEF Channel!vars, Sending, Level

LEMMA LevelKept ==
    ASSUME Undisturbed, Undisturbed', host'.requests = host.requests
    PROVE  Level' = Level
  BY DEF Level

-----------------------------------------------------------------------------
(* The main loop.                                                          *)

(* The byte read is the next one; after a request it is at least a later   *)
(* one, and one that was accepted.                                         *)
LEMMA ReadByteImplements ==
    ASSUME TypeOK, Bounds, Out, ReadByte, Undisturbed, Undisturbed'
    PROVE  Channel!ReadByte
  <1>1. /\ host' = host /\ log'.sent = log.sent /\ log'.delivered = log.delivered
        /\ log'.read = dev.rx_base + cpu.acc + 1 /\ cpu'.pc = "compare_length"
    BY ReadByteFields
  <1>2. cpu.pc = "read_byte"
    BY DEF ReadByte, At
  <1>3. ~Sending /\ ~Sending'
    BY <1>1, <1>2 DEF Sending, SendPlaces
  <1>4. /\ dev.ep2_out_index = cpu.acc + 1
        /\ dev.ep2_out_index \leq dev.ep2_out_length
        /\ dev.ep2_out_length # 0
    BY <1>2, Numbers DEF Out, Index, Comparing, At
  <1>5. log.sent = dev.rx_base + dev.ep2_out_length
    BY <1>4 DEF Out, OutBuffer
  <1>6. /\ log.read \leq dev.rx_base + cpu.acc
        /\ host.requests = 0 => log.read = dev.rx_base + cpu.acc
    BY <1>2 DEF Out, Order, Position, At
  <1>7. log'.read \leq log.sent /\ log'.read \geq log.read + 1
    BY <1>1, <1>4, <1>5, <1>6, Numbers
  <1>8. Level = "whole" => log'.read = log.read + 1
    BY <1>1, <1>6, Numbers DEF Level
  <1>9. log'.read \in log.read + 1 .. (IF Level = "whole" THEN log.read + 1 ELSE log.sent)
    BY <1>1, <1>7, <1>8, Numbers
  <1> QED
    BY <1>1, <1>3, <1>7, <1>9, LevelKept, Numbers DEF Channel!ReadByte, Sending, Level

(* Only transport_send_line enters its places, and what leaves them is its *)
(* return.                                                                 *)
LEMMA LooksImplement ==
    ASSUME TypeOK, Bounds, Looks, UNCHANGED <<dev, host, log>>, Undisturbed
    PROVE  Channel!Return \/ UNCHANGED Channel!vars
  <1>1. Sending' => Sending
    <2> USE GoFields DEF At, Places, ReadPlaces, SendPlaces, Sending, TypeOK
    <2>1. CASE Available \/ Read \/ FeedByte
      BY <2>1, LoadFields, ReadFields, FeedFields, ReturnFields
         DEF Available, Read, FeedByte, Device
    <2>2. CASE Rearm
      <3>1. HaltResponse \in Responses /\ "NAK" \in Responses
        BY DEF HaltResponse, Responses
      <3> QED
        BY <2>2, <3>1, LoadControlFields, ResponseFields DEF Rearm
    <2>3. CASE Write \/ Wait \/ Cancel
      BY <2>3 DEF Write, Wait, Cancel
    <2> QED
      BY <2>1, <2>2, <2>3 DEF Looks
  <1>2. log' = log /\ Level' = Level
    BY DEF Level, Undisturbed
  <1>3. CASE Sending /\ ~Sending'
    BY <1>2, <1>3 DEF Channel!Return, Sending, Level
  <1>4. CASE Sending' <=> Sending
    BY <1>2, <1>4, SameChannel
  <1> QED
    BY <1>1, <1>3, <1>4

LEMMA MainImplements ==
    ASSUME TypeOK, Bounds, Out, Main, Undisturbed, Undisturbed'
    PROVE  Channel!Next \/ UNCHANGED Channel!vars
  <1>1. CASE Looks /\ UNCHANGED <<dev, host, log>>
    BY <1>1, LooksImplement DEF Channel!Next
  <1>2. CASE StoreIndex \/ ClearIndex \/ ClearLength \/ RearmStore
    <2>1. /\ host' = host /\ log'.sent = log.sent /\ log'.read = log.read
          /\ log'.delivered = log.delivered
          /\ cpu'.pc \in {"read_byte", "clear_length", "rearm_load", "feed"}
      BY <1>2, StoreIndexFields, ClearIndexFields, ClearLengthFields, RearmStoreFields
    <2>2. cpu.pc \in {"store_index", "clear_index", "clear_length", "rearm_store"}
      BY <1>2 DEF StoreIndex, ClearIndex, ClearLength, RearmStore, Store, At
    <2>3. ~Sending /\ ~Sending'
      BY <2>1, <2>2 DEF Sending, SendPlaces
    <2> QED
      BY <2>1, <2>3, LevelKept, SameChannel
  <1>3. CASE ReadByte
    BY <1>3, ReadByteImplements DEF Channel!Next
  <1>4. CASE TransportSendLine
    <2>1. /\ host' = host /\ log'.sent = log.sent /\ log'.read = log.read
          /\ log'.delivered = {} /\ cpu'.pc = "write" /\ cpu.pc = "feed"
      BY <1>4, TransportSendLineFields DEF TransportSendLine, At
    <2>2. ~Sending /\ Sending'
      BY <2>1 DEF Sending, SendPlaces
    <2>3. Channel!Send
      BY <2>1, <2>2, LevelKept DEF Channel!Send, Sending, Level
    <2> QED
      BY <2>3 DEF Channel!Next
  <1>5. CASE CancelStore
    <2>1. /\ host' = host /\ log'.sent = log.sent /\ log'.read = log.read
          /\ log'.delivered = log.delivered
          /\ cpu'.pc = "available" /\ cpu.pc = "cancel_store"
      BY <1>5, CancelStoreFields DEF CancelStore, At
    <2>2. Sending /\ ~Sending'
      BY <2>1 DEF Sending, SendPlaces
    <2>3. Channel!Return
      BY <2>1, <2>2, LevelKept DEF Channel!Return, Sending, Level
    <2> QED
      BY <2>3 DEF Channel!Next
  <1>6. CASE CancelBusy \/ CancelLength \/ Copy \/ ArmBusy \/ ArmLength \/ Arm
    <2>1. host' = host /\ log' = log /\ Sending'
      BY <1>6, CancelBusyFields, CancelLengthFields, CopyFields, ArmBusyFields,
         ArmLengthFields, ArmFields DEF Sending, SendPlaces
    <2>2. Sending
      BY <1>6 DEF CancelBusy, CancelLength, Copy, ArmBusy, ArmLength, Arm, Store, At,
                  Sending, SendPlaces
    <2> QED
      BY <2>1, <2>2, LevelKept, SameChannel
  <1> QED
    BY <1>1, <1>2, <1>3, <1>4, <1>5, <1>6 DEF Main

-----------------------------------------------------------------------------
(* The bus.                                                                *)

(* A packet is accepted when all before it is read; a repeated one has been *)
(* counted.                                                                *)
LEMMA OutPacketImplements ==
    ASSUME TypeOK, Bounds, Out, NEW n \in 0 .. MaxPacket, NEW handshake \in BOOLEAN,
           OutPacket(n, handshake), Undisturbed, Undisturbed'
    PROVE  Channel!Accept \/ UNCHANGED Channel!vars
  <1>1. /\ cpu' = cpu /\ host'.requests = host.requests
        /\ log'.sent = Base(n) + n /\ log'.read = log.read
        /\ log'.delivered = log.delivered
    BY OutPacketFields
  <1>2. (Sending' <=> Sending) /\ Level' = Level /\ n \in Nat
    BY <1>1, LevelKept, BulkAssumption DEF Sending
  <1>3. CASE host.retry \/ n = 0
    <2>1. log'.sent = log.sent
      BY <1>1, <1>2, <1>3, Numbers DEF Base
    <2> QED
      BY <1>1, <1>2, <2>1, SameChannel
  <1>4. CASE ~host.retry /\ n # 0
    <2>1. n \in 1 .. MaxPacket /\ log'.sent = log.sent + n
      BY <1>1, <1>2, <1>4, BulkAssumption DEF Base
    <2>2. dev.UEP2_CTRL.r = "ACK" /\ dev.ep2_out_length = 0 /\ cpu.pc # "read_byte"
      <3>1. dev.UEP2_CTRL.r = "ACK" /\ dev.ep2_out_length = 0
        BY DEF OutPacket, Out, OutBuffer
      <3> QED
        BY <3>1, Numbers DEF Out, Index, Comparing
    <2>3. Level = "whole" => log.read = log.sent
      BY <2>2 DEF Out, Order, Position, Level, At
    <2>4. Channel!Accept
      BY <1>1, <1>2, <2>1, <2>3 DEF Channel!Accept, Sending, Level
    <2> QED
      BY <2>4
  <1> QED
    BY <1>3, <1>4

(* What is fetched is the text, and then the end; a packet the host knows   *)
(* is dropped.                                                             *)
LEMMA InPacketImplements ==
    ASSUME TypeOK, InBuffer, NEW handshake \in BOOLEAN, InPacket(handshake),
           Undisturbed, Undisturbed'
    PROVE  Channel!Fetch \/ UNCHANGED Channel!vars
  <1>1. /\ dev.UEP2_CTRL.t = "ACK" /\ cpu' = cpu /\ host'.requests = host.requests
        /\ log'.sent = log.sent /\ log'.read = log.read
        /\ IF host.in = dev.UEP2_CTRL.t_tog /\ Offered # "none"
           THEN log'.delivered = log.delivered \cup {Offered}
           ELSE log'.delivered = log.delivered
    BY InPacketFields
  <1>2. Sending /\ Sending' /\ Level' = Level
    BY <1>1, ArmedWhere, LevelKept DEF Sending
  <1>3. CASE host.in = dev.UEP2_CTRL.t_tog /\ Offered # "none"
    <2>1. Waiting /\ Offered = Last(cpu.piece) /\ cpu.piece \in {"crlf", "flush"}
      BY <1>1, <1>3, ArmedWhere DEF Waiting, TypeOK, Processor, Pieces
    <2>2. log.delivered = Before(cpu.piece)
          /\ log'.delivered = log.delivered \cup {Last(cpu.piece)}
      BY <1>1, <1>3, <2>1 DEF Waiting
    <2>3. \/ log.delivered = {} /\ log'.delivered = {"text"}
          \/ log.delivered = {"text"} /\ log'.delivered = {"text", "crlf"}
      BY <2>1, <2>2 DEF Before, Last
    <2>4. Channel!Fetch
      BY <1>1, <1>2, <2>3 DEF Channel!Fetch, Sending, Level
    <2> QED
      BY <2>4
  <1>4. CASE ~(host.in = dev.UEP2_CTRL.t_tog /\ Offered # "none")
    BY <1>1, <1>2, <1>4, SameChannel
  <1> QED
    BY <1>3, <1>4

LEMMA RequestImplements ==
    ASSUME TypeOK, NEW request \in AllRequests, Request(request), Undisturbed, Undisturbed'
    PROVE  Channel!Lose \/ UNCHANGED Channel!vars
  <1>1. /\ cpu' = cpu /\ host'.requests = host.requests + 1
        /\ log'.sent = log.sent /\ log'.read = log.read
        /\ log'.delivered = log.delivered
    BY RequestFields
  <1>2. (Sending' <=> Sending) /\ Level' = "lossy"
    BY <1>1, Numbers DEF Sending, Level
  <1>3. CASE Level = "whole"
    BY <1>1, <1>2, <1>3 DEF Channel!Lose, Sending, Level
  <1>4. CASE Level = "lossy"
    BY <1>1, <1>2, <1>4, SameChannel
  <1> QED
    BY <1>3, <1>4 DEF Level

-----------------------------------------------------------------------------
LEMMA StepImplements == IInv /\ [Next]_vars => [Channel!Next]_Channel!vars
  <1> SUFFICES ASSUME IInv, [Next]_vars
               PROVE  Channel!Next \/ UNCHANGED Channel!vars
    OBVIOUS
  <1>1. TypeOK /\ Bounds
    BY DEF IInv
  <1>2. CASE ~Undisturbed'
    <2>1. Channel!Broken
      BY <1>2 DEF Channel!Broken
    <2> QED
      BY <2>1 DEF Channel!Next
  <1>3. CASE Undisturbed'
    <2>1. Undisturbed /\ Out /\ InBuffer
      BY <1>1, <1>3, StepUpsets, UndisturbedBefore DEF IInv, Calm, Out
    <2>2. CASE UNCHANGED vars
      <3>1. cpu' = cpu /\ host' = host /\ log' = log
        BY <2>2 DEF vars
      <3> QED
        BY <3>1, SameChannel DEF Sending, Level, Undisturbed
    <2>3. CASE Main
      BY <1>1, <1>3, <2>1, <2>3, MainImplements
    <2>4. CASE Bus
      BY <1>1, <1>3, <2>1, <2>4, OutPacketImplements, InPacketImplements,
         RequestImplements, BulkAssumption DEF Bus, Channel!Next
    <2> QED
      BY <2>2, <2>3, <2>4 DEF Next
  <1> QED
    BY <1>2, <1>3

(* Endpoint 2 implements DataChannel: of the bytes the endpoint has          *)
(* acknowledged none is read twice, out of order or (before any request)   *)
(* not at all, and an answer reaches the host as its text and then its end, *)
(* all within its call of transport_send_line.                             *)
THEOREM Refinement == Spec => ImplementsDataChannel
  <1>1. Init => Channel!Init
    <2> SUFFICES ASSUME Init
                 PROVE  Channel!Init
      OBVIOUS
    <2>1. /\ cpu.pc = "available" /\ host.requests = 0 /\ log.sent = 0 /\ log.read = 0
          /\ log.delivered = {} /\ log.upsets = {}
      BY DEF Init, Returned
    <2> QED
      BY <2>1 DEF Channel!Init, SendPlaces, Undisturbed
  <1> QED
    BY <1>1, StepImplements, EndpointInvariant, PTL
       DEF Spec, ImplementsDataChannel, Channel!Spec
=============================================================================
