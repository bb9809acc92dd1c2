--------------------------- MODULE MCWiredInterfaces ---------------------------
(***************************************************************************)
(* WiredInterfaces for TLC: a stack of two devices, both of them Nornir    *)
(* hosts, and a switch of its own.  The middle host of the inventory is    *)
(* the switch, so that the stack is met again after another result.        *)
(***************************************************************************)
EXTENDS WiredInterfaces

CONSTANTS a1, a2, b1, stackA, switchB

MCInventory == <<a1, b1, a2>>
MCStackOf == [d \in {a1, a2, b1} |-> IF d = b1 THEN switchB ELSE stackA]
MCStacks == {stackA}

(* Missing interfaces; unrecorded transceivers beside stale VLANs, either  *)
(* of which may be left with no more than a warning.                       *)
MCDrifts == {{}, {"port"}, {"optic", "state"}}

=============================================================================
