------------------------- MODULE MCExecutionStates -------------------------
(***************************************************************************)
(* Instance of ExecutionStates for TLC.  A path that is not private shows  *)
(* it in one or two locations, so each behaviour has a guest that uses     *)
(* only a few, chosen at the start; the other locations keep their         *)
(* contents.  Guests that use little may fork more.                        *)
(***************************************************************************)
EXTENDS ExecutionStates

Pages == Shared \ {Dirty}
Guest(uses, states) == [uses |-> uses, states |-> states]
Guests == {Guest(Ram \cup {Dirty}, 2), Guest(Pages \cup {"dev"}, 2), Guest(Ram \cup {"regs"}, 2),
           Guest({"regs", "sys"}, 2), Guest(Pages \cup {"regs"}, 2), Guest({}, 3)}

VARIABLE guest

MCInit == Init /\ guest \in Guests
MCNext == NextUsing(guest.uses) /\ nextId' <= guest.states + 1 /\ UNCHANGED guest
MCSpec == MCInit /\ [][MCNext]_<<vars, guest>>
=============================================================================
