----------------------------- MODULE DataChannel -----------------------------
(***************************************************************************)
(* What usb_cdc.c promises the main loop of its data endpoint: the bytes    *)
(* the endpoint acknowledges are read one by one, in order and each once,   *)
(* while no further packet is acknowledged; an answer reaches the host as   *)
(* its text and then its end, or stops short; and nothing of it reaches the *)
(* host once transport_send_line has returned.                              *)
(*                                                                          *)
(* The promise has three levels.  It is kept whole until the first control  *)
(* request, reset or suspend; after one, bytes that were acknowledged may   *)
(* be missing; and after a race of two accesses nothing is promised.        *)
(***************************************************************************)
EXTENDS Integers

CONSTANT MaxPacket    \* the bytes of an OUT packet, at most

VARIABLES
    accepted,   \* how many bytes the endpoint has acknowledged
    read,       \* the number of the last byte read
    sending,    \* the main loop is in transport_send_line
    delivered,  \* what the host has received of this answer, or of the last
    level       \* of the promise

vars == <<accepted, read, sending, delivered, level>>

Init ==
    /\ accepted = 0 /\ read = 0 /\ level = "whole"
    /\ sending = FALSE /\ delivered = {}

Accept ==
    /\ level = "whole" => read = accepted
    /\ \E n \in 1 .. MaxPacket : accepted' = accepted + n
    /\ UNCHANGED <<read, sending, delivered, level>>

ReadByte ==
    /\ ~sending /\ read < accepted
    /\ read' \in read + 1 .. (IF level = "whole" THEN read + 1 ELSE accepted)
    /\ UNCHANGED <<accepted, sending, delivered, level>>

(* transport_send_line is called, its packets are fetched, it returns.     *)
Send ==
    /\ ~sending /\ sending' = TRUE /\ delivered' = {}
    /\ UNCHANGED <<accepted, read, level>>

Fetch ==
    /\ sending
    /\ \/ delivered = {} /\ delivered' = {"text"}
       \/ delivered = {"text"} /\ delivered' = {"text", "crlf"}
    /\ UNCHANGED <<accepted, read, sending, level>>

Return ==
    /\ sending /\ sending' = FALSE
    /\ UNCHANGED <<accepted, read, delivered, level>>

(* A request comes between two calls of the main loop.                     *)
Lose ==
    /\ level = "whole" /\ level' = "lossy"
    /\ UNCHANGED <<accepted, read, sending, delivered>>

Broken == level' = "broken"

Next == Accept \/ ReadByte \/ Send \/ Fetch \/ Return \/ Lose \/ Broken

Spec == Init /\ [][Next]_vars
=============================================================================
