------------------------------ MODULE Settings ------------------------------
(***************************************************************************)
(* app/src/settings.c and its users: every setting is a variable in RAM    *)
(* and an entry in flash.  One handler copies a value to RAM and saves RAM *)
(* to flash; the settings library (external) calls it for a set and, with  *)
(* its lock held, for each entry of a load.  The lock does not cover the   *)
(* copy.  Main loads at boot, the shell and LoRa downlinks set.            *)
(*                                                                         *)
(* A value is a pair, its first and its last byte: memcpy can be           *)
(* interrupted between them.  Byte 0 stands for memory that is all zero.   *)
(***************************************************************************)
EXTENDS Naturals

CONSTANTS
  LoraKeys, AppKeys,  \* the settings of the two subtrees
  Name,               \* bluetooth_name, the one of variable length
  ShellKeys,          \* what shell.c can set
  DownlinkKeys,       \* enum lora_setting_index
  Bytes,              \* what a set may write, the name excepted
  NameSize,           \* BLUETOOTH_DEVICE_NAME_SIZE; a name is modelled by its length
  None,
  MaxSets             \* bound: calls of settings_runtime_set

Keys == LoraKeys \cup AppKeys
Threads == {"main", "shell", "lora"}

ASSUME SettingsAssumption ==
  /\ Bytes \subseteq Nat /\ NameSize \in Nat \ {0, 1} /\ MaxSets \in Nat
  /\ Name \in AppKeys /\ Name \notin ShellKeys /\ Name \notin LoraKeys
  /\ ShellKeys \subseteq Keys /\ DownlinkKeys \subseteq Keys
  /\ None \notin Nat /\ None \notin Keys \cup Threads /\ None \notin Nat \X Nat
  /\ "lora_keys" \notin Keys

VARIABLES
  ram, flash,
  jobs,      \* what each thread does in a handler
  lock,      \* the settings lock, a recursive mutex: its holder (external)
  boot,      \* main: the load it is at, or "up"
  todo,      \* the entries the load has still to hand to the handlers
  joined,    \* did lora_setup find all keys; downlinks come from then on
  sets,      \* history: calls of settings_runtime_set
  failed,    \* history: the last load or save of the key did not go through
  promised,  \* history: the value the last set of the key reported as stored
  cleared    \* history: lora_keys_clear ran, and no key was set since

vars == <<ram, flash, jobs, lock, boot, todo, joined, sets, failed, promised, cleared>>

Zero == <<0, 0>>
\* What RAM holds before anything is loaded: zeros, and a name that is not empty.
Default(k) == IF k = Name THEN <<1, 1>> ELSE Zero
Whole(v) == <<v, v>>

Values == Bytes \cup 0..NameSize
Idle == [key |-> None, at |-> "idle", value |-> Zero, half |-> 0, alone |-> FALSE]

Job == [key : Keys \cup {None}, at : {"idle", "zero", "first", "last", "save", "write"},
        value : Values \X Values, half : Values, alone : BOOLEAN]

\* Type invariant; a load holds the lock, and no name is without its terminator.
TypeOK ==
  /\ ram \in [Keys -> Values \X Values] /\ flash \in [Keys -> (Values \X Values) \cup {None}]
  /\ jobs \in [Threads -> Job]
  /\ lock \in Threads \cup {None} /\ joined \in BOOLEAN
  /\ boot \in {"lora_keys", "app", "all", "up"} /\ todo \subseteq Keys
  /\ jobs["main"].at # "idle" \/ todo # {} => lock = "main"
  /\ sets \in 0..MaxSets /\ cleared \in BOOLEAN
  /\ failed \in [Keys -> BOOLEAN] /\ promised \in [Keys -> (Values \X Values) \cup {None}]

Init ==
  /\ ram = [k \in Keys |-> Default(k)] /\ flash = [k \in Keys |-> None]
  /\ jobs = [t \in Threads |-> Idle] /\ lock = None
  /\ boot = "lora_keys" /\ todo = {} /\ joined = FALSE
  /\ sets = 0 /\ cleared = FALSE
  /\ failed = [k \in Keys |-> FALSE] /\ promised = [k \in Keys |-> None]
----------------------------------------------------------------------------
Busy(k) == \E t \in Threads : jobs[t].key = k

Become(t, job) == jobs' = [jobs EXCEPT ![t] = job]

\* The handler is entered for k with a value of the right size; the name is zeroed first.
\* Whoever else is in it for k is from now on not alone.
Enter(t, k, v) ==
  LET job == [key |-> k, at |-> IF k = Name THEN "zero" ELSE "first",
              value |-> v, half |-> 0, alone |-> ~Busy(k)]
  IN jobs' = [u \in Threads |-> IF u = t THEN job
                                ELSE [jobs[u] EXCEPT !.alone = @ /\ jobs[u].key # k]]

\* The handler refuses a name that leaves no room for the terminator, and any name when
\* the byte it finds behind len in the caller's structure, which is no data of its own, is 0.
MutantNameFits(v) == v <= NameSize
NameFits(v) == v # 0 /\ v < NameSize

\* memset of the name
Clear(t) ==
  /\ jobs[t].at = "zero"
  /\ ram' = [ram EXCEPT ![jobs[t].key] = Zero]
  /\ Become(t, [jobs[t] EXCEPT !.at = "first"])
  /\ UNCHANGED <<flash, lock, boot, todo, joined, sets, failed, promised, cleared>>

\* read_cb copies to RAM ...
CopyFirst(t) ==
  /\ jobs[t].at = "first"
  /\ ram' = [ram EXCEPT ![jobs[t].key][1] = jobs[t].value[1]]
  /\ Become(t, [jobs[t] EXCEPT !.at = "last"])
  /\ UNCHANGED <<flash, lock, boot, todo, joined, sets, failed, promised, cleared>>

CopyLast(t) ==
  /\ jobs[t].at = "last"
  /\ ram' = [ram EXCEPT ![jobs[t].key][2] = jobs[t].value[2]]
  /\ Become(t, [jobs[t] EXCEPT !.at = "save"])
  /\ UNCHANGED <<flash, lock, boot, todo, joined, sets, failed, promised, cleared>>

\* ... or, for an entry in flash, fails at any byte.
ReadFails ==
  /\ jobs["main"].at \in {"first", "last"}
  /\ failed' = [failed EXCEPT ![jobs["main"].key] = TRUE]
  /\ Become("main", Idle)
  /\ UNCHANGED <<ram, flash, lock, boot, todo, joined, sets, promised, cleared>>

\* settings_save_one takes the lock and writes what is then in RAM, byte by byte.
MutantLockedTwice(t) == lock = None
MayLock(t) == lock \in {None, t}

Release(t) == lock' = IF t = "main" THEN lock ELSE None

MutantSaveArgument(t) ==
  /\ jobs[t].at = "save" /\ MayLock(t)
  /\ lock' = t
  /\ Become(t, [jobs[t] EXCEPT !.at = "write", !.half = jobs[t].value[1]])
  /\ UNCHANGED <<ram, flash, boot, todo, joined, sets, failed, promised, cleared>>
Save(t) ==
  /\ jobs[t].at = "save" /\ MayLock(t)
  /\ lock' = t
  /\ Become(t, [jobs[t] EXCEPT !.at = "write", !.half = ram[jobs[t].key][1]])
  /\ UNCHANGED <<ram, flash, boot, todo, joined, sets, failed, promised, cleared>>

\* The entry is replaced as one, and the handler returns 0.
Written(t) ==
  LET k == jobs[t].key IN
  /\ jobs[t].at = "write"
  /\ flash' = [flash EXCEPT ![k] = <<jobs[t].half, ram[k][2]>>]
  /\ failed' = [failed EXCEPT ![k] = FALSE]
  /\ promised' = IF t # "main" /\ jobs[t].alone
                 THEN [promised EXCEPT ![k] = jobs[t].value] ELSE promised
  /\ Become(t, Idle) /\ Release(t)
  /\ UNCHANGED <<ram, boot, todo, joined, sets, cleared>>

\* The flash is full or fails: the handler returns the error, RAM keeps the value.
MutantWriteErrorHidden(t) ==
  LET k == jobs[t].key IN
  /\ jobs[t].at = "write"
  /\ promised' = IF t # "main" /\ jobs[t].alone
                 THEN [promised EXCEPT ![k] = jobs[t].value] ELSE promised
  /\ failed' = [failed EXCEPT ![k] = TRUE]
  /\ Become(t, Idle) /\ Release(t)
  /\ UNCHANGED <<ram, flash, boot, todo, joined, sets, cleared>>
WriteFails(t) ==
  /\ jobs[t].at = "write"
  /\ failed' = [failed EXCEPT ![jobs[t].key] = TRUE]
  /\ Become(t, Idle) /\ Release(t)
  /\ UNCHANGED <<ram, flash, boot, todo, joined, sets, promised, cleared>>

handle_set(t) ==
  \/ Clear(t) \/ CopyFirst(t) \/ CopyLast(t)
  \/ Save(t) \/ Written(t) \/ WriteFails(t)
----------------------------------------------------------------------------
\* settings_runtime_set, without the lock
Set(t, k, v) ==
  /\ sets < MaxSets /\ sets' = sets + 1
  /\ jobs[t] = Idle /\ Enter(t, k, Whole(v))
  /\ promised' = [promised EXCEPT ![k] = None]
  /\ cleared' = (cleared /\ k \notin LoraKeys)
  /\ UNCHANGED <<ram, flash, lock, boot, todo, joined, failed>>

ShellSet == \E k \in ShellKeys, v \in Bytes : Set("shell", k, v)

\* A downlink may carry a name of any length up to NameSize.
setting_lora ==
  /\ joined
  /\ \E k \in DownlinkKeys :
       IF k = Name THEN \E v \in 1..NameSize : NameFits(v) /\ Set("lora", k, v)
       ELSE \E v \in Bytes : Set("lora", k, v)

\* lora_keys_clear from the shell: settings_delete removes the entry of exactly this name,
\* or fails, which is ignored.  What was promised of the keys is no longer.
settings_delete(name) ==
  \/ flash' = [k \in Keys |-> IF k = name THEN None ELSE flash[k]]
  \/ flash' = flash

lora_keys_clear ==
  /\ jobs["shell"] = Idle /\ lock = None
  /\ settings_delete("lora_keys")
  /\ cleared' = TRUE
  /\ promised' = [k \in Keys |-> IF k \in LoraKeys THEN None ELSE promised[k]]
  /\ UNCHANGED <<ram, jobs, lock, boot, todo, joined, sets, failed>>
----------------------------------------------------------------------------
\* Main's three loads: lora_keys_load, app_keys_load, and settings_load of bluetooth_init.
Subtree ==
  CASE boot = "lora_keys" -> LoraKeys
    [] boot = "app" -> AppKeys
    [] boot = "all" -> Keys

LoadBegins ==
  /\ boot # "up" /\ lock = None /\ lock' = "main"
  /\ todo' = {k \in Subtree : flash[k] # None}
  /\ UNCHANGED <<ram, flash, jobs, boot, joined, sets, failed, promised, cleared>>

LoadEntry ==
  /\ jobs["main"] = Idle
  /\ \E k \in todo :
       /\ todo' = todo \ {k}
       /\ \/ Enter("main", k, flash[k]) /\ UNCHANGED failed
          \/ k = Name /\ failed' = [failed EXCEPT ![k] = TRUE] /\ UNCHANGED jobs
  /\ UNCHANGED <<ram, flash, lock, boot, joined, sets, promised, cleared>>

LoadEnds ==
  /\ lock = "main" /\ jobs["main"] = Idle /\ todo = {}
  /\ lock' = None
  /\ boot' = CASE boot = "lora_keys" -> "app" [] boot = "app" -> "all" [] boot = "all" -> "up"
  /\ UNCHANGED <<ram, flash, jobs, todo, joined, sets, failed, promised, cleared>>

\* lora_setup reads the keys from RAM, in a thread the shell does not interrupt.
lora_setup ==
  /\ boot = "up" /\ ~joined /\ \A k \in LoraKeys : ram[k] # Zero
  /\ joined' = TRUE
  /\ UNCHANGED <<ram, flash, jobs, lock, boot, todo, sets, failed, promised, cleared>>

\* A reset, or loss of power, at any time: flash stays.
Reset ==
  /\ ram' = [k \in Keys |-> Default(k)]
  /\ jobs' = [t \in Threads |-> Idle] /\ lock' = None
  /\ boot' = "lora_keys" /\ todo' = {} /\ joined' = FALSE
  /\ failed' = [k \in Keys |-> FALSE]
  /\ UNCHANGED <<flash, sets, promised, cleared>>

Boots == LoadBegins \/ LoadEntry \/ LoadEnds \/ ReadFails \/ lora_setup

Next ==
  \/ Boots \/ ShellSet \/ setting_lora \/ lora_keys_clear \/ Reset
  \/ \E t \in Threads : handle_set(t)

\* A thread in a handler, and a load, go on.  Nothing says that a write succeeds.
Fairness ==
  /\ \A t \in Threads : WF_vars(handle_set(t))
  /\ WF_vars(LoadEntry) /\ WF_vars(LoadEnds)

Spec == Init /\ [][Next]_vars /\ Fairness
----------------------------------------------------------------------------
\* RAM is written outside the lock and by two threads at once, flash is written from RAM
\* while others write that: once the device is up and nobody is in the handler of a key,
\* RAM and flash still hold the same, unless the last load or save of the key failed.
StoredIsCurrent ==
  boot = "up" => \A k \in Keys :
    ~Busy(k) /\ ~failed[k] => ram[k] = (IF flash[k] = None THEN Default(k) ELSE flash[k])

\* A set that nobody overlapped and that reported success ("updated", shell.c:53) has
\* stored its value for good: neither a reset at any point, nor a load that meets the
\* next set, nor an error changes what flash holds until the key is set again.
PromiseKept == \A k \in Keys : promised[k] # None => flash[k] = promised[k]

\* The Bluetooth name leaves room for its terminator in RAM, in flash and hence in the
\* buffer of advertise (bluetooth.c:111), although setting_lora lets one more through.
NameTerminated ==
  \A i \in {1, 2} : ram[Name][i] < NameSize /\ (flash[Name] # None => flash[Name][i] < NameSize)

\* The handler saves while main holds the lock of the load: it returns, for every thread.
HandlersReturn == \A t \in Threads : jobs[t] # Idle ~> jobs[t] = Idle

\* Does not hold.  "Clear LoRa keys" (settings.h:25): neither RAM nor flash holds one until
\* one is set; lora_keys_clear deletes an entry that no handler saves.
ClearedIsGone == cleared => \A k \in LoraKeys : ram[k] = Zero /\ flash[k] = None
=============================================================================
