------------------------------ MODULE Watchdog ------------------------------
(***************************************************************************)
(* app/src/watchdog.c and the hardware watchdog behind it (external).      *)
(* main feeds it once per round of its loop (main.c:254); a thread that    *)
(* meets a fatal error forbids feeding, for the watchdog to reset the      *)
(* device.  watchdog_init, which would start the hardware and allow the    *)
(* feeding, is called by nothing in the application: it is translated      *)
(* here, and WatchdogNext, which has main's boot as it is, does not take   *)
(* it.                                                                     *)
(***************************************************************************)
EXTENDS Naturals

CONSTANT Window  \* WDT_MAX_WINDOW, in ticks

ASSUME WatchdogAssumption == Window \in Nat \ {0}

VARIABLES
  main,                   \* "boot", "loop", or "feeding": between test and wdt_feed
  watchdog_feed_allowed,
  wdt,                    \* is the hardware counter running (external)
  time_left,              \* ticks until it expires (external)
  fatal                   \* history: was watchdog_fatal called since the boot

counter == <<wdt, time_left>>
watchdog == <<main, watchdog_feed_allowed, counter, fatal>>

WatchdogTypeOK ==
  /\ main \in {"boot", "loop", "feeding"}
  /\ watchdog_feed_allowed \in BOOLEAN /\ wdt \in BOOLEAN /\ fatal \in BOOLEAN
  /\ time_left \in 0..Window

WatchdogInit ==
  /\ main = "boot"
  /\ watchdog_feed_allowed = FALSE /\ wdt = FALSE /\ time_left = 0 /\ fatal = FALSE

\* main up to its loop: of the watchdog, it calls nothing
Boot ==
  /\ main = "boot" /\ main' = "loop"
  /\ UNCHANGED <<watchdog_feed_allowed, counter, fatal>>

\* what a boot would call; its three errors leave all as it is
watchdog_init ==
  /\ main = "boot" /\ main' = "loop"
  /\ \/ watchdog_feed_allowed' = TRUE /\ wdt' = TRUE /\ time_left' = Window
     \/ UNCHANGED <<watchdog_feed_allowed, counter>>
  /\ UNCHANGED fatal

\* watchdog_feed: the test ...
FeedTest ==
  /\ main = "loop" /\ watchdog_feed_allowed /\ main' = "feeding"
  /\ UNCHANGED <<watchdog_feed_allowed, counter, fatal>>

\* ... and wdt_feed; a thread of higher priority may run in between
Feed ==
  /\ main = "feeding" /\ main' = "loop" /\ time_left' = Window
  /\ UNCHANGED <<watchdog_feed_allowed, wdt, fatal>>

watchdog_fatal ==
  /\ main # "boot"
  /\ watchdog_feed_allowed' = FALSE /\ fatal' = TRUE
  /\ UNCHANGED <<main, counter>>

\* the hardware counts down (external)
Tick ==
  /\ wdt /\ time_left > 0 /\ time_left' = time_left - 1
  /\ UNCHANGED <<main, watchdog_feed_allowed, wdt, fatal>>

\* a reset of the SoC: the device starts again, and its watchdog does not run
Restart ==
  /\ main' = "boot"
  /\ watchdog_feed_allowed' = FALSE /\ wdt' = FALSE /\ time_left' = 0 /\ fatal' = FALSE

\* WDT_FLAG_RESET_SOC
Expire == wdt /\ time_left = 0 /\ Restart

WatchdogNext == Boot \/ FeedTest \/ Feed \/ watchdog_fatal \/ Tick \/ Expire

\* main boots and goes on, and the hardware counts.
WatchdogSpec ==
  /\ WatchdogInit /\ [][WatchdogNext]_watchdog
  /\ WF_watchdog(Boot) /\ WF_watchdog(Feed) /\ WF_watchdog(Tick) /\ WF_watchdog(Expire)
----------------------------------------------------------------------------
\* Does not hold.  Kconfig, APP_WATCHDOG: the watchdog is set up, and reboots a device that
\* stops responding; a thread that gives up calls watchdog_fatal for that.  Nothing starts
\* the watchdog, so nothing follows a fatal error.
FatalResets == fatal ~> main = "boot"
=============================================================================
