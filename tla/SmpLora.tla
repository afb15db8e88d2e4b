------------------------------ MODULE SmpLora ------------------------------
(***************************************************************************)
(* subsys/mgmt/mcumgr/transport/src/smp_lora.c with its default options:   *)
(* the downlink callback that reassembles requests and asks for more with  *)
(* an empty uplink, the SMP work queue that hands over responses, and the  *)
(* uplink thread that takes both from one k_fifo.  The server (external)   *)
(* sends one request at a time, one packet per receive window; windows     *)
(* open behind the uplinks of this transport and behind those of main.c,   *)
(* which are sent whenever main likes (main.c:157,176,241,394).            *)
(***************************************************************************)
EXTENDS Naturals

CONSTANTS
  Empty,         \* empty_message, a static node
  Response,      \* tx_data, a node on the stack of smp_lora_uplink
  Nil,
  Sizes,         \* lengths of responses
  Payloads,      \* what lorawan_get_payload_sizes may say; 0: MAC answers fill the frame
  MaxFragments,  \* packets of the longest request
  MaxPartials    \* bound: packets that leave a request incomplete

ASSUME SmpAssumption ==
  /\ Empty # Response /\ Nil \notin {Empty, Response}
  /\ Sizes \subseteq Nat \ {0} /\ Payloads \subseteq 0..255
  /\ MaxFragments \in Nat \ {0} /\ MaxPartials \in Nat

List == INSTANCE SList WITH Nodes <- {Empty, Response}, Nil <- Nil

VARIABLES
  smp_lora_fifo,
  loop,      \* the uplink thread: "waiting" in k_fifo_get, "next", "pull", "send"
  msg,       \* what it took from the fifo
  size, pos, data_size, tries,
  clock,     \* is it between hfclk_enable and hfclk_disable
  wq,        \* the SMP work queue: "idle", "handling", "blocked" on my_sem
  my_sem,    \* the semaphore in tx_data
  length,    \* nb->len of the response
  left,      \* packets the request being reassembled still lacks (external)
  window,    \* is a receive window open (external)
  polls,     \* history: empty messages the thread has taken, up to MaxPartials + 1
  partials,  \* history: packets that left a request incomplete
  relinked   \* history: was empty_message put into the fifo while it was in it

thread == <<loop, msg, size, pos, data_size, tries, clock>>
queue == <<wq, my_sem, length>>
smpVars == <<smp_lora_fifo, thread, queue, left, window, polls, partials, relinked>>

\* Type invariant; the high-frequency clock is held exactly while a message is in hand.
SmpTypeOK ==
  /\ smp_lora_fifo \in List!Lists
  /\ loop \in {"waiting", "next", "pull", "send"} /\ msg \in {Empty, Response, Nil}
  /\ size \in Sizes \cup {0} /\ pos \in Nat /\ data_size \in 0..255 /\ tries \in 0..3
  /\ clock \in BOOLEAN /\ (clock <=> loop \in {"pull", "send"})
  /\ wq \in {"idle", "handling", "blocked"} /\ my_sem \in BOOLEAN
  /\ length \in Sizes \cup {0}
  /\ left \in 0..(MaxFragments - 1)
  /\ window \in BOOLEAN /\ polls \in 0..(MaxPartials + 1) /\ partials \in 0..MaxPartials
  /\ relinked \in BOOLEAN

SmpInit ==
  /\ smp_lora_fifo = List!EmptyList
  /\ loop = "waiting" /\ msg = Nil /\ clock = FALSE
  /\ size = 0 /\ pos = 0 /\ data_size = 0 /\ tries = 0
  /\ wq = "idle" /\ my_sem = FALSE /\ length = 0
  /\ left = 0 /\ window = FALSE /\ polls = 0 /\ partials = 0 /\ relinked = FALSE
----------------------------------------------------------------------------
\* The thread has m: its size, hfclk_enable, and into the loop.
Begin(m, len) ==
  /\ msg' = m /\ loop' = "pull" /\ clock' = TRUE
  /\ size' = (IF m = Response THEN len ELSE 0) /\ pos' = 0
  /\ polls' = IF m = Empty /\ polls <= MaxPartials THEN polls + 1 ELSE polls
  /\ UNCHANGED <<data_size, tries>>

\* k_fifo_put (external): a waiting thread is given the message, else it is queued.
HandOver(m, len) ==
  \/ loop = "waiting" /\ Begin(m, len) /\ UNCHANGED smp_lora_fifo
  \/ loop # "waiting" /\ smp_lora_fifo' = List!Put(smp_lora_fifo, m) /\ UNCHANGED <<thread, polls>>

\* main or its downlink callback sent an uplink, and its receive window opens (external)
OtherUplink ==
  /\ ~window /\ window' = TRUE
  /\ UNCHANGED <<smp_lora_fifo, thread, queue, left, polls, partials, relinked>>

\* A receive window that brings nothing closes (external).
WindowCloses ==
  /\ window /\ window' = FALSE
  /\ UNCHANGED <<smp_lora_fifo, thread, queue, left, polls, partials, relinked>>

\* What a packet may leave lacking: it belongs to the request under way, or starts the
\* next one when the last has been answered (external).
Lacking ==
  IF left > 0 THEN {left - 1} ELSE IF wq = "idle" THEN 0..(MaxFragments - 1) ELSE {}

\* smp_reassembly_collect returns what is still expected: poll for it
DownlinkPartial ==
  /\ window /\ window' = FALSE
  /\ left' \in Lacking \ {0}
  /\ partials < MaxPartials /\ partials' = partials + 1
  /\ HandOver(Empty, 0)
  /\ relinked' = (relinked \/ Empty \in List!Members(smp_lora_fifo))
  /\ UNCHANGED queue

MutantPollsAfterLast ==
  /\ window /\ window' = FALSE
  /\ 0 \in Lacking /\ left' = 0
  /\ wq' = "handling"
  /\ HandOver(Empty, 0)
  /\ UNCHANGED <<my_sem, length, partials, relinked>>

\* smp_reassembly_collect returns 0: the request goes to the SMP work queue
DownlinkComplete ==
  /\ window /\ window' = FALSE
  /\ 0 \in Lacking /\ left' = 0
  /\ wq' = "handling"
  /\ UNCHANGED <<smp_lora_fifo, thread, my_sem, length, polls, partials, relinked>>

\* an empty packet drops what was collected; one that does not fit is an error
DownlinkDropped ==
  /\ window /\ window' = FALSE
  /\ left' \in {0, left}
  /\ UNCHANGED <<smp_lora_fifo, thread, queue, polls, partials, relinked>>

smp_lora_downlink == DownlinkPartial \/ DownlinkComplete \/ DownlinkDropped

\* smp_lora_uplink up to k_sem_take, with the response to the request
Uplink ==
  /\ wq = "handling" /\ wq' = "blocked"
  /\ my_sem' = FALSE
  /\ length' \in Sizes /\ HandOver(Response, length')
  /\ UNCHANGED <<left, window, partials, relinked>>

MutantDoesNotWait ==
  /\ wq = "blocked"
  /\ wq' = "idle" /\ my_sem' = FALSE
  /\ UNCHANGED <<smp_lora_fifo, thread, length, left, window, polls, partials, relinked>>

\* k_sem_take returns: the response is freed and tx_data goes out of scope
UplinkReturns ==
  /\ wq = "blocked" /\ my_sem
  /\ wq' = "idle" /\ my_sem' = FALSE
  /\ UNCHANGED <<smp_lora_fifo, thread, length, left, window, polls, partials, relinked>>

smp_lora_uplink == Uplink \/ UplinkReturns
----------------------------------------------------------------------------
\* the thread is back at k_fifo_get and nothing is there
NextBlocks ==
  /\ loop = "next" /\ smp_lora_fifo.head = Nil
  /\ loop' = "waiting" /\ msg' = Nil
  /\ UNCHANGED <<smp_lora_fifo, size, pos, data_size, tries, clock, queue, left, window, polls,
                 partials, relinked>>

NextTakes ==
  /\ loop = "next" /\ smp_lora_fifo.head # Nil
  /\ Begin(smp_lora_fifo.head, length)
  /\ smp_lora_fifo' = List!Rest(smp_lora_fifo)
  /\ UNCHANGED <<queue, left, window, partials, relinked>>

\* top of the loop: the size of this fragment, and net_buf_pull_mem
Pull ==
  /\ loop = "pull" /\ loop' = "send"
  /\ \E payload \in Payloads : data_size' = IF payload > size THEN size ELSE payload
  /\ tries' = 3
  /\ UNCHANGED <<smp_lora_fifo, msg, size, pos, clock, queue, left, window, polls, partials, relinked>>

MutantWakesNobody == loop' = "next" /\ clock' = FALSE /\ my_sem' = (my_sem \/ size = 0)

MutantKeepsClock == loop' = "next" /\ my_sem' = (my_sem \/ size # 0) /\ UNCHANGED clock

\* out of the loop: k_sem_give unless the message was empty, hfclk_disable
Finish == loop' = "next" /\ clock' = FALSE /\ my_sem' = (my_sem \/ size # 0)

\* the fragment was sent, or given up: on to the next one
Advance ==
  /\ pos' = pos + data_size
  /\ \/ pos' < size /\ loop' = "pull" /\ UNCHANGED <<clock, my_sem>>
     \/ pos' >= size /\ Finish
  /\ UNCHANGED <<smp_lora_fifo, msg, size, data_size, wq, length, left, polls, partials, relinked>>

\* lorawan_send returns 0; a receive window follows an uplink
Sent ==
  /\ loop = "send" /\ ~window /\ window' = TRUE
  /\ Advance
  /\ UNCHANGED tries

MutantGivesUp ==
  /\ loop = "send" /\ tries' = tries - 1
  /\ \/ tries > 1 /\ UNCHANGED <<loop, clock, my_sem>>
     \/ tries = 1 /\ Finish
  /\ UNCHANGED <<smp_lora_fifo, msg, size, pos, data_size, wq, length, left, window, polls,
                 partials, relinked>>

\* lorawan_send fails: again, up to three times.  A confirmed fragment may have been sent
\* and not acknowledged; then its receive window opens as behind any uplink.
Failed ==
  /\ loop = "send" /\ tries' = tries - 1
  /\ \/ tries > 1 /\ UNCHANGED <<smp_lora_fifo, loop, msg, size, pos, data_size, clock, queue,
                                 left, polls, partials, relinked>>
     \/ tries = 1 /\ Advance
  /\ window' \in {window, TRUE}

smp_lora_uplink_thread == NextBlocks \/ NextTakes \/ Pull \/ Sent \/ Failed

SmpNext ==
  OtherUplink \/ WindowCloses \/ smp_lora_downlink \/ smp_lora_uplink \/ smp_lora_uplink_thread

\* The threads run, lorawan_send returns whether or not it could send, and the MAC
\* answers that fill a frame are flushed in the end.
SmpFairness ==
  /\ WF_smpVars(smp_lora_uplink_thread) /\ WF_smpVars(smp_lora_uplink)
  /\ SF_smpVars(Pull /\ data_size' > 0)

SmpSpec == SmpInit /\ [][SmpNext]_smpVars /\ SmpFairness
----------------------------------------------------------------------------
\* tx_data is on a stack: while the fifo is a list, it and the thread hold tx_data only while
\* smp_lora_uplink waits for it, whoever else sends meanwhile.  Once empty_message was linked to
\* itself the list comes back to a tx_data that is gone.
BufferOwned ==
  ~relinked =>
    ((Response \in List!Members(smp_lora_fifo) \/ (msg = Response /\ loop \in {"pull", "send"}))
       => wq = "blocked" /\ ~my_sem)

\* Kconfig.lora:46-53, POLL_FOR_DATA: "Will send an empty packet if a partial (fragmented)
\* message has been recieved".  No more empty uplinks than packets left a request incomplete.
PollsMatchPartials == polls <= partials

\* The same as far as the code keeps it: until a packet that comes in the receive window of
\* another uplink puts empty_message into the fifo a second time.
PollsOnlyAskedFor == ~relinked => PollsMatchPartials

\* smp_lora_uplink is released by the thread that works on its response, and once all of that
\* was given to lorawan_send, whether or not that failed on some of it.
ReleasedWhole ==
  [][~relinked /\ ~my_sem /\ my_sem'
       => wq = "blocked" /\ msg = Response /\ pos' >= length]_smpVars

\* The SMP work queue, which other transports share, gets back from smp_lora_uplink as long as
\* the fifo is a list.
ResponseReturns == wq = "blocked" ~> wq = "idle" \/ relinked
============================================================================
