------------------------- MODULE MCResponseStream -------------------------
(***************************************************************************)
(* Small instances of ResponseStream.                                      *)
(***************************************************************************)
EXTENDS ResponseStream

CONSTANTS c1, c2, t1, t2

Ev(kind) == [kind |-> kind, call |-> NoCall, tool |-> NoTool, bytes |-> 0]
ToolEv(kind, c, t, b) == [kind |-> kind, call |-> c, tool |-> t, bytes |-> b]

\* Two overlapping tool calls, their ids reusable, next to plain events.
CallFragments ==
  {Ev(k) : k \in {"RunStarted", "RunFinished", "RunError", "Opaque", "Malformed"}}
    \cup {ToolEv("Start", c, t1, 0) : c \in {c1, c2}}
    \cup {ToolEv("Args", c, NoTool, 1) : c \in {c1, c2}}
    \cup {ToolEv("End", c, NoTool, 0) : c \in {c1, c2}}

\* The other kinds of event too, for a single call id and two tools.
KindFragments ==
  {Ev(k) : k \in {"RunStarted", "RunFinished", "Step", "Message", "Unknown", "Malformed"}}
    \cup {ToolEv("State", NoCall, NoTool, b) : b \in {1, 2}}
    \cup {ToolEv("Start", c1, t, 0) : t \in {t1, t2}}
    \cup {ToolEv("Args", c1, NoTool, b) : b \in {0, 2}}
    \cup {ToolEv(k, c1, NoTool, 0) : k \in {"End", "Result"}}

AllFragments == CallFragments \cup KindFragments
Unlimited ==
  [maxEvents |-> 0, maxBytes |-> 0, malformed |-> "Terminate", sends |-> CallFragments,
   frames |-> 6]
Budgeted ==
  [maxEvents |-> 4, maxBytes |-> 6, malformed |-> "Drop", sends |-> KindFragments,
   frames |-> 5]
BothSettings == {Unlimited, Budgeted}
OnlyUnlimited == {Unlimited}
=============================================================================
