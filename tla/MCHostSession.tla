---------------------------- MODULE MCHostSession ----------------------------
(* HostSession in ticks of half a second, times rounded up to them: the      *)
(* defaults of both tools and a --timeout too short for `on`, and cycles of  *)
(* the least, the default and the greatest delay.                            *)
EXTENDS HostSession

CONSTANT LongestCycle

MCCommands ==
    {[name |-> "status", delay |-> NoDelay], [name |-> "on", delay |-> NoDelay],
     [name |-> "cycle", delay |-> NoDelay], [name |-> "cycle", delay |-> 1],
     [name |-> "cycle", delay |-> LongestCycle]}
MCNoDelay == -1
MCTimeouts == {1, 10}
BothTools == {"portpulse", "usb_replug"}
NativeTool == {"portpulse"}
=============================================================================
