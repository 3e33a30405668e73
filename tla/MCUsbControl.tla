---------------------------- MODULE MCUsbControl ----------------------------
(***************************************************************************)
(* UsbControl for TLC: an enumeration with the lengths hosts ask for, the   *)
(* requests of the CDC driver, and one way to get each of them wrong.       *)
(***************************************************************************)
EXTENDS UsbControl

Packet(type, request, value, index, length) ==
    [type |-> type, request |-> request, value |-> value, index |-> index,
     length |-> length]

(* 771 is string 3, the serial number: 32 bytes, four full packets.        *)
Descriptors ==
    {Packet("80", "GET_DESCRIPTOR", 256, 0, 64), Packet("80", "GET_DESCRIPTOR", 512, 0, 9),
     Packet("80", "GET_DESCRIPTOR", 771, 1033, 255), Packet("80", "GET_DESCRIPTOR", 771, 1033, 32)}

Changes ==
    {Packet("00", "SET_ADDRESS", 5, 0, 0), Packet("00", "SET_CONFIGURATION", 1, 0, 0),
     Packet("00", "SET_CONFIGURATION", 0, 0, 0), Packet("02", "SET_FEATURE", 0, 2, 0),
     Packet("02", "CLEAR_FEATURE", 0, 2, 0),
     Packet("21", "SET_LINE_CODING", 0, 0, 7)}

Questions ==
    {Packet("80", "GET_CONFIGURATION", 0, 0, 1), Packet("82", "GET_STATUS", 0, 2, 2),
     Packet("A1", "GET_LINE_CODING", 0, 0, 7), Packet("81", "GET_INTERFACE", 0, 1, 1),
     Packet("01", "SET_INTERFACE", 0, 1, 0), Packet("21", "SET_CONTROL_LINE_STATE", 3, 0, 0)}

Mistakes ==
    {Packet("80", "GET_DESCRIPTOR", 771, 0, 255), Packet("80", "GET_DESCRIPTOR", 1536, 0, 10),
     Packet("00", "SET_ADDRESS", 200, 0, 0), Packet("00", "SET_CONFIGURATION", 2, 0, 0),
     Packet("02", "SET_FEATURE", 0, 3, 0), Packet("82", "GET_STATUS", 0, 3, 2),
     Packet("21", "SET_LINE_CODING", 0, 1, 7), Packet("C0", "OTHER", 0, 0, 4)}

MCSetups == Descriptors \cup Changes \cup Questions \cup Mistakes
MCCodings == {0, 1}
AllStages == Stages \ {"idle"}
=============================================================================
