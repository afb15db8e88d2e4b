------------------------------- MODULE Hfclk -------------------------------
(***************************************************************************)
(* app/src/hfclk.c: the reference count that shares the high-frequency     *)
(* clock between the main loop (main.c:134,251), the downlink callback     *)
(* (main.c:392,402), the IR LED (ir_led.c:194,261) and the SMP uplink      *)
(* thread (smp_lora.c:76,120).  Every one of them ignores what             *)
(* hfclk_enable returns and calls hfclk_disable in any case, so a user     *)
(* alternates between the two calls, each of which may fail inside.        *)
(***************************************************************************)
EXTENDS Naturals, FiniteSets

CONSTANTS
  Users,      \* the threads that use the clock
  NoUser      \* "the semaphore is available"

ASSUME UsersAssumption ==
  /\ IsFiniteSet(Users) /\ Cardinality(Users) < 255  \* hfclk_count is a uint8_t
  /\ NoUser \notin Users

VARIABLES
  sem,          \* hfclk_usage_sem: NoUser, or the thread that took it
  hfclk_count,  \* uint8_t
  clock,        \* is HFCLK running
  pc,           \* where each user is
  granted,      \* did its last hfclk_enable return 0
  failed        \* history: which of clock_control_on and _off ever failed

vars == <<sem, hfclk_count, clock, pc, granted, failed>>

\* "idle" and "using" are outside the module; the others hold the semaphore.
Outside == {"idle", "using"}
Inside == {"enabling", "counting", "disabling", "clearing"}

TypeOK ==
  /\ sem \in Users \cup {NoUser}
  /\ hfclk_count \in 0..255
  /\ clock \in BOOLEAN
  /\ pc \in [Users -> Outside \cup Inside]
  /\ granted \in [Users -> BOOLEAN]
  /\ failed \subseteq {"on", "off"}

Init ==
  /\ sem = NoUser /\ hfclk_count = 0 /\ clock = FALSE
  /\ pc = [u \in Users |-> "idle"]
  /\ granted = [u \in Users |-> FALSE]
  /\ failed = {}

MutantTakeWithoutSemaphore(u) == sem' = u

\* k_sem_take(&hfclk_usage_sem, K_FOREVER)
Take(u) == sem = NoUser /\ sem' = u

Goto(u, label) == pc' = [pc EXCEPT ![u] = label]

\* finish: k_sem_give(&hfclk_usage_sem); return rc
Return(u, label) == sem' = NoUser /\ Goto(u, label)

EnableTake(u) ==
  /\ pc[u] = "idle" /\ Take(u) /\ Goto(u, "enabling")
  /\ UNCHANGED <<hfclk_count, clock, granted, failed>>

\* if (hfclk_count == 0) clock_control_on(...)
EnableOn(u) ==
  /\ pc[u] = "enabling"
  /\ clock' = IF hfclk_count = 0 THEN TRUE ELSE clock
  /\ Goto(u, "counting")
  /\ UNCHANGED <<sem, hfclk_count, granted, failed>>

EnableFail(u) ==
  /\ pc[u] = "enabling" /\ hfclk_count = 0
  /\ granted' = [granted EXCEPT ![u] = FALSE]
  /\ failed' = failed \cup {"on"}
  /\ Return(u, "using")
  /\ UNCHANGED <<hfclk_count, clock>>

EnableCount(u) ==
  /\ pc[u] = "counting"
  /\ hfclk_count' = (hfclk_count + 1) % 256
  /\ granted' = [granted EXCEPT ![u] = TRUE]
  /\ Return(u, "using")
  /\ UNCHANGED <<clock, failed>>

DisableTake(u) ==
  /\ pc[u] = "using" /\ Take(u) /\ Goto(u, "disabling")
  /\ UNCHANGED <<hfclk_count, clock, granted, failed>>

\* "Tried to disable HFCLK when HFCLK is not running"
DisableNotRunning(u) ==
  /\ pc[u] = "disabling" /\ hfclk_count = 0
  /\ Return(u, "idle")
  /\ UNCHANGED <<hfclk_count, clock, granted, failed>>

DisableShared(u) ==
  /\ pc[u] = "disabling" /\ hfclk_count > 1
  /\ hfclk_count' = hfclk_count - 1
  /\ Return(u, "idle")
  /\ UNCHANGED <<clock, granted, failed>>

DisableOff(u) ==
  /\ pc[u] = "disabling" /\ hfclk_count = 1
  /\ clock' = FALSE
  /\ Goto(u, "clearing")
  /\ UNCHANGED <<sem, hfclk_count, granted, failed>>

MutantFailClears(u) ==
  /\ pc[u] = "disabling" /\ hfclk_count = 1
  /\ hfclk_count' = 0
  /\ failed' = failed \cup {"off"}
  /\ Return(u, "idle")
  /\ UNCHANGED <<clock, granted>>

DisableFail(u) ==
  /\ pc[u] = "disabling" /\ hfclk_count = 1
  /\ failed' = failed \cup {"off"}
  /\ Return(u, "idle")
  /\ UNCHANGED <<hfclk_count, clock, granted>>

DisableClear(u) ==
  /\ pc[u] = "clearing"
  /\ hfclk_count' = 0
  /\ Return(u, "idle")
  /\ UNCHANGED <<clock, granted, failed>>

hfclk_enable(u) == EnableTake(u) \/ EnableOn(u) \/ EnableFail(u) \/ EnableCount(u)

hfclk_disable(u) ==
  \/ DisableTake(u) \/ DisableNotRunning(u) \/ DisableShared(u)
  \/ DisableOff(u) \/ DisableFail(u) \/ DisableClear(u)

Next == \E u \in Users : hfclk_enable(u) \/ hfclk_disable(u)

Spec == Init /\ [][Next]_vars
----------------------------------------------------------------------------
\* Users whose enable was counted and whose disable did not uncount it yet.
Counted == {u \in Users : granted[u] /\ pc[u] \in {"using", "disabling", "clearing"}}

\* Whatever fails and whoever calls, the count and the hardware agree whenever
\* the semaphore is free: the clock runs exactly when hfclk_count is not 0.
ClockMatchesCount == sem = NoUser => (clock <=> hfclk_count > 0)

\* However many calls fail, the uint8_t count never exceeds the users that were
\* granted the clock by more than the one a failed clock_control_off leaves behind.
CountBounded == hfclk_count <= Cardinality(Counted) + 1

\* As long as the clock started whenever it was asked to, a user whose hfclk_enable
\* returned 0 has it until it disables it, even if stopping it ever failed.
GrantedHasClock == "on" \notin failed => \A u \in Users : pc[u] = "using" /\ granted[u] => clock

\* As long as the clock stopped whenever it was asked to, it is stopped with its count
\* back at 0 when nobody uses it, even if starting it ever failed.
IdleClockStopped ==
  "off" \notin failed /\ (\A u \in Users : pc[u] = "idle") => ~clock /\ hfclk_count = 0

\* The reference count implements the contract, which is void once the clock could
\* not be started.
Contract == INSTANCE HfclkContract WITH
  holders <- {u \in Users : granted[u] /\ pc[u] = "using"},
  running <- clock,
  void <- "on" \in failed

ContractSpec == Contract!Spec
============================================================================
