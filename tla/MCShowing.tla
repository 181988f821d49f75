----------------------------- MODULE MCShowing -----------------------------
EXTENDS Showing

Up(relays, at, drops, fails) ==
  [up |-> relays, at |-> at, left |-> [f \in Faults |-> IF f = "drop" THEN drops ELSE fails]]

\* Two relays, and changes made at one other device.  One relay, and changes
\* made apart at two others or at the device itself and another, with a
\* connection lost and a change that cannot be applied at first.
Setups == {Up({1, 2}, {2}, 0, 0), Up({1}, {2, 3}, 1, 1), Up({1}, {1, 2}, 1, 1)}

\* One relay, and two tries that fail.
FailsTwice == {Up({1}, {2, 3}, 0, 2)}
=============================================================================
