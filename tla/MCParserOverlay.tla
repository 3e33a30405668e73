--------------------------- MODULE MCParserOverlay ---------------------------
(* ParserOverlay for TLC: the names, a beginning of one and a longer word,  *)
(* numbers at the bounds of a delay and of 16 bits.                         *)
EXTENDS ParserOverlay, TLC

MCSpelling ==
    ("on" :> <<111, 110>>) @@ ("off" :> <<111, 102, 102>>)
    @@ ("cycle" :> <<99, 121, 99, 108, 101>>)
    @@ ("status" :> <<115, 116, 97, 116, 117, 115>>)
    @@ ("fault" :> <<102, 97, 117, 108, 116>>)
    @@ ("version" :> <<118, 101, 114, 115, 105, 111, 110>>)
    @@ ("help" :> <<104, 101, 108, 112>>) @@ ("o" :> <<111>>)
    @@ ("one" :> <<111, 110, 101>>) @@ ("1" :> <<49>>)
    @@ ("100" :> <<49, 48, 48>>) @@ ("99" :> <<57, 57>>)
    @@ ("30000" :> <<51, 48, 48, 48, 48>>) @@ ("30001" :> <<51, 48, 48, 48, 49>>)
    @@ ("65535" :> <<54, 53, 53, 51, 53>>) @@ ("65636" :> <<54, 53, 54, 51, 54>>)
    @@ ("65538" :> <<54, 53, 53, 51, 56>>) @@ ("0250" :> <<48, 50, 53, 48>>)

Of(texts) ==
    [overflow |-> FALSE,
     args |-> [i \in DOMAIN texts |->
                 [text |-> texts[i], number |-> parse_u16(MCSpelling[texts[i]])]]]

MCLines ==
    {Of(<<name>>) : name \in DOMAIN MCSpelling \ {"30001", "65535", "65636", "65538", "0250"}}
    \cup {Of(<<name, "1">>) : name \in {"on", "off", "status", "fault", "o"}}
    \cup {Of(<<"cycle", delay>>) : delay \in {"99", "100", "0250", "30000", "30001", "65535",
                                              "65636", "65538", "on"}}
    \cup {Of(<<"cycle", port, "100">>) : port \in {"1", "100", "on"}}
    \cup {Of(<<"on", "1", "1">>), Of(<<"on", "o">>), Of(<<"on", "1", "1", "1">>), Of(<<>>),
          [Of(<<"on">>) EXCEPT !.overflow = TRUE]}
=============================================================================
