----------------------------- MODULE SerialNumber -----------------------------
(***************************************************************************)
(* How a host tells dongles apart: the serial number the firmware makes of  *)
(* the chip's id (usb_build_serial_descriptor in usb_descriptors.c), and    *)
(* the choice usb_replug.py makes by it among the ports the operating       *)
(* system lists.  Characters are their codes.                               *)
(***************************************************************************)
EXTENDS Integers, Sequences

ChipId == [1 .. 5 -> 0 .. 255]

hex_digit(nibble) ==
    LET low == nibble % 16 IN IF low < 10 THEN 48 + low ELSE 65 + low - 10

USB_SERIAL_DESCRIPTOR_LENGTH == 32
USB_DESCRIPTOR_STRING == 3
prefix == <<82, 86, 67, 49, 45>>    \* RVC1-

(* The digit at a place of the ten: two of every byte, the high one first. *)
Digit(chip_id, k) ==
    LET byte == chip_id[k \div 2 + 1] IN
    IF k % 2 = 0 THEN hex_digit(byte \div 16) ELSE hex_digit(byte)

(* Two bytes of head, then every character with a byte of zero behind it.  *)
usb_build_serial_descriptor(chip_id) ==
    [i \in 1 .. USB_SERIAL_DESCRIPTOR_LENGTH |->
        CASE i = 1 -> USB_SERIAL_DESCRIPTOR_LENGTH
          [] i = 2 -> USB_DESCRIPTOR_STRING
          [] i > 2 /\ i % 2 = 0 -> 0
          [] i > 2 /\ i % 2 = 1 /\ i < 13 -> prefix[(i - 1) \div 2]
          [] i % 2 = 1 /\ i \geq 13 -> Digit(chip_id, (i - 13) \div 2)]

(* What the operating system makes of a string descriptor.                 *)
serial_number(chip_id) ==
    LET descriptor == usb_build_serial_descriptor(chip_id) IN
    [k \in 1 .. 15 |-> descriptor[2 * k + 1]]

-----------------------------------------------------------------------------
(* usb_replug.py.  A port is a record: device, its name, vid, pid, and the *)
(* serial number.  Without --serial, every number will do.                 *)
NoSubstring == <<>>
Contains(whole, part) ==
    \E at \in 0 .. Len(whole) - Len(part) :
        \A k \in 1 .. Len(part) : whole[at + k] = part[k]

port_matches(port, vid, pid, substring) ==
    /\ port.vid = vid /\ port.pid = pid
    /\ Contains(port.serial, substring)

(* The ports that may be opened: the one match; none when there are more.  *)
resolve_port(ports, vid, pid, substring) ==
    {port \in ports :
        /\ port_matches(port, vid, pid, substring)
        /\ \A other \in ports : port_matches(other, vid, pid, substring) => other = port}

(* The ports of the dongles that are attached.                             *)
Listed(dongles, vid, pid) ==
    {[device |-> d.device, vid |-> vid, pid |-> pid,
      serial |-> serial_number(d.chip_id)] : d \in dongles}
=============================================================================
