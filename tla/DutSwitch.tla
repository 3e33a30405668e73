------------------------------ MODULE DutSwitch ------------------------------
(***************************************************************************)
(* What the dongle promises: one command at a time, one answer to each, and *)
(* an answer that tells the truth about the DUT's two switches.  When and   *)
(* why the switches move is left open, but for their order: D+/D- before    *)
(* VBUS, on the way up and on the way down.                                 *)
(***************************************************************************)
EXTENDS CommandSet

VARIABLES
    job,     \* the command being carried out, or NoLine
    answer,  \* the answer being sent, or NoReply
    data,    \* D+/D- connected
    power,   \* VBUS switched on
    cut      \* this command has cut the power

vars == <<job, answer, data, power, cut>>

TypeOK ==
    /\ job \in Lines \cup {NoLine}
    /\ answer \in Replies \cup {NoReply}
    /\ data \in BOOLEAN /\ power \in BOOLEAN /\ cut \in BOOLEAN

On == data /\ power
Off == ~data /\ ~power

Init == job = NoLine /\ answer = NoReply /\ Off /\ ~cut

Accept ==
    /\ job = NoLine /\ answer = NoReply
    /\ job' \in Lines /\ cut' = FALSE
    /\ UNCHANGED <<answer, data, power>>

(* Only `on` and `cycle` connect and power the DUT.                        *)
Connect ==
    /\ IsOn(job) \/ IsCycle(job)
    /\ data' = TRUE
    /\ UNCHANGED <<job, answer, power, cut>>

PowerUp ==
    /\ IsOn(job) \/ IsCycle(job)
    /\ data /\ power' = TRUE
    /\ UNCHANGED <<job, answer, data, cut>>

Disconnect ==
    /\ data' = FALSE
    /\ UNCHANGED <<job, answer, power, cut>>

CutPower ==
    /\ ~data /\ power' = FALSE
    /\ cut' \in {cut, TRUE}
    /\ UNCHANGED <<job, answer, data>>

(* The answers a command may get in the state its outputs are in.          *)
Truthful(r) ==
    \/ r = OK /\ IsOn(job) /\ On
    \/ r = OK /\ IsOff(job) /\ Off
    \/ r = OK /\ IsCycle(job) /\ On /\ cut
    \/ r = ERR_fault_active /\ IsOn(job) /\ data = power
    \/ r = ERR_fault_active /\ IsCycle(job) /\ Off
    \/ r = ERR_invalid_arg /\ IsBadArg(job)
    \/ r = ERR_invalid_command /\ IsUnknown(job)
    \/ r = Info /\ IsInfo(job)
    \/ r \in {Fault(f) : f \in BOOLEAN} /\ IsFault(job)
    \/ r \in {State(power, f) : f \in BOOLEAN} /\ IsStatus(job) /\ data = power

Respond ==
    /\ answer = NoReply
    /\ \E r \in Replies : Truthful(r) /\ answer' = r
    /\ job' = NoLine /\ cut' = FALSE
    /\ UNCHANGED <<data, power>>

Sent ==
    /\ answer # NoReply /\ answer' = NoReply
    /\ UNCHANGED <<job, data, power, cut>>

(* A reset releases both switches and forgets the command.                 *)
Restart ==
    /\ job' = NoLine /\ answer' = NoReply
    /\ data' = FALSE /\ power' = FALSE /\ cut' = FALSE

Next == \/ Accept \/ Connect \/ PowerUp \/ Disconnect \/ CutPower
        \/ Respond \/ Sent \/ Restart

Spec == Init /\ [][Next]_vars
=============================================================================
