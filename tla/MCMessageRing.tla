--------------------------- MODULE MCMessageRing ----------------------------
(* A ring of two numbers, two relays and one other device.                  *)
EXTENDS MessageRing

Two == {1, 2}
One == {1}

Times(sends, these) ==
  [what \in Bounded |->
     IF what = "send" THEN sends ELSE IF what \in these THEN 1 ELSE 0]
Mixes ==
  {Times(2, {"copy", "back"}), Times(2, {"back", "late"}), Times(2, {"expire"}),
   Times(1, {"back", "expire"}), Times(1, {"back", "hand on", "restart"}),
   Times(3, {"back"})}
=============================================================================
