--------------------------- MODULE LastingMemory ---------------------------
(***************************************************************************)
(* What the processes that share a data directory promise together: what   *)
(* was said and is worth keeping is remembered some day, what is           *)
(* remembered was said and stays remembered, and only what is remembered   *)
(* is called done.  What was done may be forgotten to be done: then it is  *)
(* only looked at again.                                                   *)
(***************************************************************************)
CONSTANT Contents

VARIABLES
  said,        \* contents of logged messages
  remembered,  \* contents in the stored graph
  done         \* contents of the messages the progress index has passed

Init == said = {} /\ remembered = {} /\ done = {}

Say(c) ==
  /\ said' = said \cup {c}
  /\ UNCHANGED <<remembered, done>>
Remember ==
  /\ \E new \in SUBSET said : remembered' = remembered \cup new
  /\ UNCHANGED <<said, done>>
Settle ==
  /\ done' \in SUBSET remembered
  /\ UNCHANGED <<said, remembered>>

Next == (\E c \in Contents : Say(c)) \/ Remember \/ Settle
Spec == Init /\ [][Next]_<<said, remembered, done>>

=============================================================================
