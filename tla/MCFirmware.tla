----------------------------- MODULE MCFirmware -----------------------------
(* Firmware for TLC: streams of commands, in real characters, on a buffer   *)
(* for six: the line end of a terminal, capitals, a word that is none, an  *)
(* empty line, a line too long, a control character in a line, spaces, and  *)
(* a last line that is never ended.  The only cycle is the default one.     *)
EXTENDS Firmware, TLC

MCSpelling ==
    ("on" :> <<111, 110>>) @@ ("off" :> <<111, 102, 102>>)
    @@ ("cycle" :> <<99, 121, 99, 108, 101>>) @@ ("status" :> <<115, 116, 97, 116, 117, 115>>)
    @@ ("1" :> <<49>>)

o == 111
n == 110
f == 102
CRLF == <<13, 10>>
Cycle == <<99, 121, 67, 108, 101>>

MCStreams == {
    <<o, n>> \o CRLF \o <<o, f, f, 10, o, n>>,
    <<79, 78, 10, 32, 13, 10, o, 1, n, 10>>,
    Cycle \o <<10, o, f, 70>> \o CRLF,
    Cycle \o <<115, 115, 10, o, n, 32, 49, 10>>,
    <<o, n, 10, 115, 116, 97, 116, 117, 115, 10, o, f, f, 10>> }

MCLines ==
    LET Word1(t) == [text |-> t, number |-> NotANumber]
        Of(args) == [overflow |-> FALSE, args |-> args] IN
    {Of(<<Word1(t)>>) : t \in {"on", "off", "cycle", "status", "?"}}
    \cup {Of(<<Word1("on"), [text |-> "1", number |-> 1]>>), NoLine,
          [overflow |-> TRUE, args |-> <<>>]}
=============================================================================
