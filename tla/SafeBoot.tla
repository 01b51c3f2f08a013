------------------------------ MODULE SafeBoot ------------------------------
(***************************************************************************)
(* What an A/B update promises: the slot the bootloader runs always holds  *)
(* a good image.  Only the other slot is ever rewritten, and the boot slot *)
(* moves only to a slot whose image is good.                               *)
(***************************************************************************)
CONSTANT Slot

VARIABLES boot,   \* the slot the bootloader runs
          good    \* the slots that hold a complete, valid image

bootVars == <<boot, good>>

Init == boot \in good /\ good \subseteq Slot

(* The image in a slot that is not booted is rewritten, for better or worse. *)
Rewrite(s) ==
  /\ s # boot
  /\ good' \in {good \cup {s}, good \ {s}}
  /\ UNCHANGED boot

Switch(s) ==
  /\ s \in good
  /\ boot' = s
  /\ UNCHANGED good

Next == \E s \in Slot : Rewrite(s) \/ Switch(s)

Spec == Init /\ [][Next]_bootVars
============================================================================
