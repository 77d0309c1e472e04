---------------------------- MODULE MCTracyEngine ---------------------------
(***************************************************************************)
(* Model-checking instance of TracyEngine: the collector's frames and the *)
(* state constraint that keeps the channel short.                         *)
(***************************************************************************)
EXTENDS TracyEngine

\* Enable and disable of every registered name, an enable naming something
\* the engine does not know, and one with a name longer than 32 bytes.
SetFrames ==
    {[kind |-> "set", on |-> b, name |-> t] : b \in BOOLEAN, t \in Tracepoints}
      \cup {[kind |-> "set", on |-> TRUE, name |-> UnknownName],
            [kind |-> "set", on |-> TRUE, name |-> LongName]}

\* Every frame kind the collector can send.
AllFrames == SetFrames \cup {[kind |-> "list"], [kind |-> "bad"], [kind |-> "short"]}

\* Well-formed requests only.
GoodFrames ==
    {[kind |-> "set", on |-> b, name |-> t] : b \in BOOLEAN, t \in Tracepoints}
      \cup {[kind |-> "list"]}

\* tracy_init's announce arguments: interval, interface and a parsed
\* address; and the same without a parsable address.
FullArgs == {[interval |-> 100, iface |-> TRUE, addr |-> TRUE]}
MainArgs == FullArgs \cup {[interval |-> 100, iface |-> TRUE, addr |-> FALSE]}
=============================================================================
