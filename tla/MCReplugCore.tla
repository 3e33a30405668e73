---------------------------- MODULE MCReplugCore ----------------------------
(* A small instance of ReplugCore: one line of every kind process_line can *)
(* tell apart, and times of a few milliseconds.                            *)
EXTENDS ReplugCore

Text(t) == [text |-> t, number |-> NotANumber]
Number(t, n) == [text |-> t, number |-> n]
One == Number("1", 1)
Sent(args) == [overflow |-> FALSE, args |-> args]

MCLines == {
    Sent(<<Text("on")>>), Sent(<<Text("on"), One>>), Sent(<<Text("on"), Text("x")>>),
    Sent(<<Text("off")>>), Sent(<<Text("off"), One, One>>),
    Sent(<<Text("cycle")>>),                                  \* the default
    Sent(<<Text("cycle"), Number("3", 3)>>),                  \* the least
    Sent(<<Text("cycle"), One, Number("5", 5)>>),             \* the greatest
    Sent(<<Text("cycle"), Number("2", 2)>>),
    Sent(<<Text("cycle"), Number("6", 6)>>),
    Sent(<<Text("cycle"), Text("x"), Number("4", 4)>>),
    Sent(<<Text("status")>>), Sent(<<Text("status"), Text("x")>>),
    Sent(<<Text("fault")>>), Sent(<<Text("fault"), One>>),
    Sent(<<Text("version")>>), Sent(<<Text("help")>>), Sent(<<Text("x")>>),
    Sent(<<Text("on"), One, One, One>>),
    [overflow |-> TRUE, args |-> <<Text("on")>>], NoLine }
=============================================================================
