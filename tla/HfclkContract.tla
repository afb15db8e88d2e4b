--------------------------- MODULE HfclkContract ---------------------------
(***************************************************************************)
(* What app/src/hfclk.h promises of the shared high-frequency clock, with  *)
(* no counter and no semaphore: a user is granted the clock only while it  *)
(* runs, and the clock stops only when nobody holds it.  The promise ends  *)
(* when the clock could not be started for a user that goes on without.    *)
(***************************************************************************)
CONSTANT Users

VARIABLES
  holders,  \* users whose hfclk_enable returned 0 and who did not disable yet
  running,  \* is the clock running
  void      \* has the promise ended

vars == <<holders, running, void>>

Init == holders = {} /\ running = FALSE /\ void = FALSE

Start == ~running /\ running' = TRUE /\ UNCHANGED <<holders, void>>

Grant(u) == running /\ holders' = holders \cup {u} /\ UNCHANGED <<running, void>>

Release(u) == u \in holders /\ holders' = holders \ {u} /\ UNCHANGED <<running, void>>

Stop == holders = {} /\ running' = FALSE /\ UNCHANGED <<holders, void>>

Void == void' = TRUE /\ UNCHANGED <<holders, running>>

Anything == void /\ void' = TRUE /\ holders' \in SUBSET Users /\ running' \in BOOLEAN

Next ==
  \/ Start \/ Stop \/ Void \/ Anything
  \/ \E u \in Users : Grant(u) \/ Release(u)

Spec == Init /\ [][Next]_vars
============================================================================
