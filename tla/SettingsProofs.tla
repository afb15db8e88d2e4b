--------------------------- MODULE SettingsProofs ---------------------------
(* Proofs about Settings for any keys, bytes and length of names, and for any *)
(* number of sets, loads, failures and resets.                               *)
EXTENDS Settings, TLAPS

\* A job is on a key or it is none, only the writer holds the lock a write needs, and
\* what is to be loaded is in flash.
JobInv ==
  /\ \A t \in Threads : jobs[t].key = None <=> jobs[t].at = "idle"
  /\ \A t \in Threads : jobs[t].at = "write" => lock = t
  /\ lock = "main" => boot # "up"
  /\ \A k \in todo : flash[k] # None

\* Who is alone on a key finds in RAM what it has copied so far.
OwnInv == \A t \in Threads :
  jobs[t].key # None /\ jobs[t].alone =>
    /\ \A u \in Threads \ {t} : jobs[u].key # jobs[t].key
    /\ jobs[t].at \in {"last", "save", "write"} => ram[jobs[t].key][1] = jobs[t].value[1]
    /\ jobs[t].at \in {"save", "write"} => ram[jobs[t].key][2] = jobs[t].value[2]
    /\ jobs[t].at = "write" => jobs[t].half = jobs[t].value[1]

\* While a promise stands nobody sets the key, and a load of it brings back the same.
PromiseInv == \A k \in Keys :
  promised[k] # None =>
    /\ flash[k] = promised[k]
    /\ jobs["shell"].key # k /\ jobs["lora"].key # k
    /\ jobs["main"].key = k => jobs["main"].alone /\ jobs["main"].value = promised[k]

\* A name that is on its way to RAM fits as well.
NameInv ==
  /\ NameTerminated
  /\ \A t \in Threads : jobs[t].key = Name =>
       jobs[t].value[1] < NameSize /\ jobs[t].value[2] < NameSize /\ jobs[t].half < NameSize

IInv == TypeOK /\ JobInv /\ OwnInv /\ PromiseInv /\ NameInv

\* A thread alone on its key.
Alone(t) == \A u \in Threads \ {t} : jobs[u].key # jobs[t].key

Stored(k) == IF flash[k] = None THEN Default(k) ELSE flash[k]

\* The key has not been read since the reset, and the last load of the boot will read it.
Waits(k) == flash[k] # None /\ boot # "up" /\ (boot = "all" /\ lock = "main" => k \in todo)

\* What makes RAM and flash agree: a writer whom nobody has joined holds the byte that is
\* in RAM, since the others who wrote there are still to save; and where nobody is in the
\* handler the two agree, or the boot is still to bring them together.
CurrentInv ==
  /\ \A t \in Threads : jobs[t].at = "write" /\ Alone(t) => jobs[t].half = ram[jobs[t].key][1]
  /\ \A k \in Keys : ~Busy(k) /\ ~failed[k] => ram[k] = Stored(k) \/ Waits(k)
----------------------------------------------------------------------------
LEMMA Constants ==
  /\ Zero \in Values \X Values /\ Idle \in Job
  /\ \A k \in Keys : Default(k) \in Values \X Values
  /\ \A v \in Values \X Values : v = <<v[1], v[2]>> /\ v[1] \in Values /\ v[2] \in Values
  /\ None \notin Values \X Values /\ None \notin Keys /\ None \notin Threads
  /\ Values \subseteq Nat /\ Bytes \subseteq Values /\ 0..NameSize \subseteq Values
  /\ NameSize \in Nat /\ 1 < NameSize /\ Name \in Keys /\ Name \notin ShellKeys /\ Name \notin LoraKeys
  /\ ShellKeys \subseteq Keys /\ DownlinkKeys \subseteq Keys /\ "lora_keys" \notin Keys
<1> USE SettingsAssumption DEF SettingsAssumption
<1>1. 0 \in Values /\ 1 \in Values /\ Values \subseteq Nat
  BY SMT DEF Values
<1>2. Zero \in Values \X Values /\ Idle \in Job
  BY <1>1 DEF Zero, Idle, Job
<1>3. \A k \in Keys : Default(k) \in Values \X Values
  BY <1>1 DEF Zero, Default
<1>4. \A v \in Values \X Values : v = <<v[1], v[2]>> /\ v[1] \in Values /\ v[2] \in Values
  OBVIOUS
<1>5. None \notin Values \X Values /\ None \notin Keys /\ None \notin Threads
  BY <1>1
<1>6. Bytes \subseteq Values /\ 0..NameSize \subseteq Values
  BY DEF Values
<1>7. NameSize \in Nat /\ 1 < NameSize /\ Name \in Keys
  BY DEF Keys
<1> QED BY <1>1, <1>2, <1>3, <1>4, <1>5, <1>6, <1>7

\* A thread goes on in its handler; the others stay where they are.
LEMMA Becomes ==
  ASSUME jobs \in [Threads -> Job], NEW t \in Threads, NEW job \in Job, Become(t, job)
  PROVE /\ jobs' \in [Threads -> Job] /\ jobs'[t] = job
        /\ \A u \in Threads \ {t} : jobs'[u] = jobs[u]
BY DEF Become

\* Entering the handler disturbs nobody but those who are on the same key.
LEMMA Enters ==
  ASSUME jobs \in [Threads -> Job], NEW t \in Threads, NEW k \in Keys,
         NEW v \in Values \X Values, Enter(t, k, v)
  PROVE /\ jobs' \in [Threads -> Job]
        /\ jobs'[t].key = k /\ jobs'[t].value = v /\ jobs'[t].half = 0
        /\ jobs'[t].at \in {"zero", "first"}
        /\ jobs'[t].alone => \A u \in Threads : jobs[u].key # k
        /\ \A u \in Threads \ {t} :
             /\ jobs'[u].key = jobs[u].key /\ jobs'[u].at = jobs[u].at
             /\ jobs'[u].value = jobs[u].value /\ jobs'[u].half = jobs[u].half
             /\ jobs'[u].alone = (jobs[u].alone /\ jobs[u].key # k)
<1>1. 0 \in Values
  BY Constants DEF Zero
<1> DEFINE job == [key |-> k, at |-> IF k = Name THEN "zero" ELSE "first",
                   value |-> v, half |-> 0, alone |-> ~Busy(k)]
<1>2. job \in Job
  BY <1>1 DEF Job
<1>3. \A u \in Threads : [jobs[u] EXCEPT !.alone = @ /\ jobs[u].key # k] \in Job
  BY DEF Job
<1>4. jobs' = [u \in Threads |-> IF u = t THEN job
                                 ELSE [jobs[u] EXCEPT !.alone = @ /\ jobs[u].key # k]]
  BY DEF Enter
<1>5. jobs' \in [Threads -> Job] /\ jobs'[t] = job
  BY <1>2, <1>3, <1>4
<1>6. \A u \in Threads \ {t} :
             /\ jobs'[u].key = jobs[u].key /\ jobs'[u].at = jobs[u].at
             /\ jobs'[u].value = jobs[u].value /\ jobs'[u].half = jobs[u].half
             /\ jobs'[u].alone = (jobs[u].alone /\ jobs[u].key # k)
  BY <1>4 DEF Job
<1>7. /\ jobs'[t].key = k /\ jobs'[t].value = v /\ jobs'[t].half = 0
      /\ jobs'[t].at \in {"zero", "first"} /\ jobs'[t].alone = ~Busy(k)
  BY <1>5
<1>8. ~Busy(k) => \A u \in Threads : jobs[u].key # k
  BY DEF Busy
<1> HIDE DEF job
<1> QED BY <1>5, <1>6, <1>7, <1>8

LEMMA Initially == Init => IInv
<1> SUFFICES ASSUME Init PROVE IInv
  OBVIOUS
<1>1. jobs \in [Threads -> Job] /\ \A t \in Threads : jobs[t] = Idle
  BY Constants DEF Init
<1>2. TypeOK
  <2>1. ram \in [Keys -> Values \X Values] /\ flash \in [Keys -> (Values \X Values) \cup {None}]
    BY Constants DEF Init
  <2>2. sets \in 0..MaxSets
    BY SettingsAssumption DEF Init, SettingsAssumption
  <2>3. "main" \in Threads
    BY DEF Threads
  <2> QED BY <1>1, <2>1, <2>2, <2>3 DEF Init, TypeOK, Idle
<1>3. JobInv
  BY <1>1, Constants DEF JobInv, Init, Idle
<1>4. OwnInv /\ PromiseInv
  BY <1>1 DEF OwnInv, PromiseInv, Init, Idle
<1>5. NameInv
  <2>1. ram[Name] = <<1, 1>> /\ flash[Name] = None
    BY Constants DEF Init, Default
  <2>2. \A t \in Threads : jobs[t].key # Name
    BY <1>1, Constants DEF Idle
  <2> QED BY <2>1, <2>2, Constants DEF NameInv, NameTerminated
<1> QED BY <1>2, <1>3, <1>4, <1>5 DEF IInv
----------------------------------------------------------------------------
\* What the steps of a handler do to the job and to a value in RAM.
LEMMA Moves ==
  ASSUME NEW j \in Job, NEW a \in {"first", "last", "save", "write"}
  PROVE LET m == [j EXCEPT !.at = a] IN
    /\ m \in Job /\ m.key = j.key /\ m.at = a
    /\ m.value = j.value /\ m.half = j.half /\ m.alone = j.alone
BY DEF Job

LEMMA Samples ==
  ASSUME NEW j \in Job, NEW h \in Values
  PROVE LET m == [j EXCEPT !.at = "write", !.half = h] IN
    /\ m \in Job /\ m.key = j.key /\ m.at = "write"
    /\ m.value = j.value /\ m.half = h /\ m.alone = j.alone
BY DEF Job

LEMMA Pairs ==
  ASSUME NEW v \in Values \X Values, NEW x \in Values
  PROVE /\ [v EXCEPT ![1] = x] = <<x, v[2]>> /\ [v EXCEPT ![2] = x] = <<v[1], x>>
        /\ <<x, v[2]>> \in Values \X Values /\ <<v[1], x>> \in Values \X Values
OBVIOUS

\* A thread in the handler has a key, a pair of bytes, and the lock if it writes.
LEMMA InHandler ==
  ASSUME IInv, NEW t \in Threads, jobs[t].at # "idle"
  PROVE /\ jobs[t] \in Job /\ jobs[t].key \in Keys /\ jobs[t].value \in Values \X Values
        /\ ram[jobs[t].key] \in Values \X Values
        /\ t = "main" => lock = "main"
<1>1. jobs[t] \in Job
  BY DEF IInv, TypeOK
<1>2. jobs[t].key # None
  BY DEF IInv, JobInv
<1>3. jobs[t].key \in Keys /\ jobs[t].value \in Values \X Values
  BY <1>1, <1>2 DEF Job
<1>4. t = "main" => lock = "main"
  BY DEF IInv, TypeOK, Idle
<1> QED BY <1>1, <1>3, <1>4 DEF IInv, TypeOK
----------------------------------------------------------------------------
\* A handler that moves on, without lock or flash, having changed RAM at its key at most:
\* it is enough to look at its own progress.
LEMMA HandlerMoves ==
  ASSUME IInv, NEW t \in Threads, jobs[t].at # "idle",
         NEW m \in Job, Become(t, m), m.at # "idle",
         m.key = jobs[t].key, m.value = jobs[t].value, m.alone = jobs[t].alone,
         m.at = "write" => lock' = t,
         lock' = lock \/ (lock = None /\ lock' = t),
         NEW w \in Values \X Values, ram' = [ram EXCEPT ![jobs[t].key] = w],
         jobs[t].alone =>
           /\ m.at \in {"last", "save", "write"} => w[1] = m.value[1]
           /\ m.at \in {"save", "write"} => w[2] = m.value[2]
           /\ m.at = "write" => m.half = m.value[1],
         jobs[t].key = Name => w[1] < NameSize /\ w[2] < NameSize /\ m.half < NameSize,
         UNCHANGED <<flash, boot, todo, joined, sets, failed, promised, cleared>>
  PROVE  IInv'
<1> DEFINE k == jobs[t].key
<1>1. /\ jobs[t] \in Job /\ k \in Keys /\ jobs[t].value \in Values \X Values
      /\ t = "main" => lock = "main"
  BY InHandler
<1>2. /\ jobs \in [Threads -> Job] /\ ram \in [Keys -> Values \X Values]
      /\ jobs' \in [Threads -> Job] /\ jobs'[t] = m
      /\ \A u \in Threads \ {t} : jobs'[u] = jobs[u]
  BY Becomes DEF IInv, TypeOK
<1>3. /\ ram' \in [Keys -> Values \X Values] /\ ram'[k] = w
      /\ \A x \in Keys \ {k} : ram'[x] = ram[x]
  BY <1>1, <1>2
<1>4. \A u \in Threads : jobs'[u].key = jobs[u].key /\ jobs'[u].value = jobs[u].value
                         /\ jobs'[u].alone = jobs[u].alone
  BY <1>2
<1>5. "main" \in Threads /\ "shell" \in Threads /\ "lora" \in Threads /\ None \notin Threads
  BY Constants DEF Threads
<1>6. TypeOK'
  <2>1. jobs'["main"].at # "idle" => lock' = "main"
    <3>1. CASE t = "main"
      BY <1>1, <3>1, Constants, <1>5
    <3>2. CASE t # "main"
      BY <1>2, <1>5, <3>2 DEF IInv, TypeOK
    <3> QED BY <3>1, <3>2
  <2>2. todo' # {} => lock' = "main"
    BY <1>5 DEF IInv, TypeOK
  <2>3. lock' \in Threads \cup {None}
    BY DEF IInv, TypeOK
  <2> QED BY <1>2, <1>3, <2>1, <2>2, <2>3 DEF IInv, TypeOK
<1>7. JobInv'
  <2>1. ASSUME NEW u \in Threads PROVE jobs'[u].key = None <=> jobs'[u].at = "idle"
    BY <1>1, <1>2, Constants DEF IInv, JobInv
  <2>2. ASSUME NEW u \in Threads PROVE jobs'[u].at = "write" => lock' = u
    BY <1>2, <1>5 DEF IInv, JobInv
  <2>3. lock' = "main" => boot' # "up"
    BY <1>1, <1>5 DEF IInv, JobInv
  <2>4. \A x \in todo' : flash'[x] # None
    BY DEF IInv, JobInv
  <2> QED BY <2>1, <2>2, <2>3, <2>4 DEF JobInv
<1>8. OwnInv'
  <2> SUFFICES ASSUME NEW u \in Threads, jobs'[u].key # None, jobs'[u].alone
               PROVE /\ \A y \in Threads \ {u} : jobs'[y].key # jobs'[u].key
                     /\ jobs'[u].at \in {"last", "save", "write"} => ram'[jobs'[u].key][1] = jobs'[u].value[1]
                     /\ jobs'[u].at \in {"save", "write"} => ram'[jobs'[u].key][2] = jobs'[u].value[2]
                     /\ jobs'[u].at = "write" => jobs'[u].half = jobs'[u].value[1]
    BY DEF OwnInv
  <2>1. \A y \in Threads \ {u} : jobs'[y].key # jobs'[u].key
    BY <1>4 DEF IInv, OwnInv
  <2>2. CASE u = t
    BY <1>2, <1>3, <2>1, <2>2
  <2>3. CASE u # t
    <3>1. jobs'[u] = jobs[u] /\ jobs[u].key # k
      BY <1>2, <1>4, <2>1, <2>3
    <3>2. jobs[u].key \in Keys
      BY <1>2, <1>4 DEF Job
    <3>3. ram'[jobs[u].key] = ram[jobs[u].key]
      BY <1>3, <3>1, <3>2
    <3> QED BY <2>1, <3>1, <3>3 DEF IInv, OwnInv
  <2> QED BY <2>2, <2>3
<1>9. PromiseInv'
  BY <1>4, <1>5 DEF IInv, PromiseInv
<1>10. NameInv'
  <2>1. NameTerminated'
    BY <1>1, <1>3, Constants DEF IInv, NameInv, NameTerminated
  <2>2. ASSUME NEW u \in Threads, jobs'[u].key = Name
        PROVE jobs'[u].value[1] < NameSize /\ jobs'[u].value[2] < NameSize /\ jobs'[u].half < NameSize
    BY <1>2, <1>4, <2>2 DEF IInv, NameInv
  <2> QED BY <2>1, <2>2 DEF NameInv
<1> QED BY <1>6, <1>7, <1>8, <1>9, <1>10 DEF IInv
----------------------------------------------------------------------------
LEMMA ClearKeeps ==
  ASSUME IInv, NEW t \in Threads, Clear(t)
  PROVE  IInv'
<1> DEFINE m == [jobs[t] EXCEPT !.at = "first"]
<1>1. /\ jobs[t] \in Job /\ jobs[t].at = "zero"
      /\ jobs[t].key = Name => jobs[t].half < NameSize
  BY InHandler DEF Clear, IInv, NameInv
<1>2. /\ m \in Job /\ m.key = jobs[t].key /\ m.at = "first" /\ m.value = jobs[t].value
      /\ m.half = jobs[t].half /\ m.alone = jobs[t].alone
  BY <1>1, Moves
<1>3. Zero \in Values \X Values /\ Zero[1] < NameSize /\ Zero[2] < NameSize
  BY Constants DEF Zero
<1>4. Become(t, m) /\ ram' = [ram EXCEPT ![jobs[t].key] = Zero] /\ lock' = lock
  BY DEF Clear
<1> HIDE DEF m
<1> QED BY <1>1, <1>2, <1>3, <1>4, HandlerMoves DEF Clear

LEMMA CopyFirstKeeps ==
  ASSUME IInv, NEW t \in Threads, CopyFirst(t)
  PROVE  IInv'
<1> DEFINE m == [jobs[t] EXCEPT !.at = "last"]
           w == [ram[jobs[t].key] EXCEPT ![1] = jobs[t].value[1]]
<1>1. /\ jobs[t] \in Job /\ jobs[t].at = "first" /\ ram[jobs[t].key] \in Values \X Values
      /\ jobs[t].value[1] \in Values /\ jobs[t].key \in Keys
  BY InHandler, Constants DEF CopyFirst
<1>2. /\ m \in Job /\ m.key = jobs[t].key /\ m.at = "last" /\ m.value = jobs[t].value
      /\ m.half = jobs[t].half /\ m.alone = jobs[t].alone
  BY <1>1, Moves
<1>3. w \in Values \X Values /\ w[1] = jobs[t].value[1] /\ w[2] = ram[jobs[t].key][2]
  BY <1>1, Pairs
<1>4. jobs[t].key = Name => w[1] < NameSize /\ w[2] < NameSize /\ m.half < NameSize
  BY <1>2, <1>3 DEF IInv, NameInv, NameTerminated
<1>5. Become(t, m) /\ ram' = [ram EXCEPT ![jobs[t].key] = w] /\ lock' = lock
  BY DEF CopyFirst
<1> HIDE DEF m, w
<1> QED BY <1>1, <1>2, <1>3, <1>4, <1>5, HandlerMoves DEF CopyFirst

LEMMA CopyLastKeeps ==
  ASSUME IInv, NEW t \in Threads, CopyLast(t)
  PROVE  IInv'
<1> DEFINE m == [jobs[t] EXCEPT !.at = "save"]
           w == [ram[jobs[t].key] EXCEPT ![2] = jobs[t].value[2]]
<1>1. /\ jobs[t] \in Job /\ jobs[t].at = "last" /\ ram[jobs[t].key] \in Values \X Values
      /\ jobs[t].value[2] \in Values /\ jobs[t].key \in Keys /\ jobs[t].key # None
  BY InHandler, Constants DEF CopyLast
<1>2. /\ m \in Job /\ m.key = jobs[t].key /\ m.at = "save" /\ m.value = jobs[t].value
      /\ m.half = jobs[t].half /\ m.alone = jobs[t].alone
  BY <1>1, Moves
<1>3. w \in Values \X Values /\ w[1] = ram[jobs[t].key][1] /\ w[2] = jobs[t].value[2]
  BY <1>1, Pairs
<1>4. jobs[t].key = Name => w[1] < NameSize /\ w[2] < NameSize /\ m.half < NameSize
  BY <1>2, <1>3 DEF IInv, NameInv, NameTerminated
<1>5. jobs[t].alone => w[1] = jobs[t].value[1]
  BY <1>1, <1>3 DEF IInv, OwnInv
<1>6. Become(t, m) /\ ram' = [ram EXCEPT ![jobs[t].key] = w] /\ lock' = lock
  BY DEF CopyLast
<1> HIDE DEF m, w
<1> QED BY <1>1, <1>2, <1>3, <1>4, <1>5, <1>6, HandlerMoves DEF CopyLast

LEMMA SaveKeeps ==
  ASSUME IInv, NEW t \in Threads, Save(t)
  PROVE  IInv'
<1> DEFINE w == ram[jobs[t].key]
           m == [jobs[t] EXCEPT !.at = "write", !.half = w[1]]
<1>1. /\ jobs[t] \in Job /\ jobs[t].at = "save" /\ w \in Values \X Values
      /\ w[1] \in Values /\ jobs[t].key \in Keys /\ jobs[t].key # None
  BY InHandler, Constants DEF Save
<1>2. /\ m \in Job /\ m.key = jobs[t].key /\ m.at = "write" /\ m.value = jobs[t].value
      /\ m.half = w[1] /\ m.alone = jobs[t].alone
  BY <1>1, Samples
<1>3. jobs[t].key = Name => w[1] < NameSize /\ w[2] < NameSize /\ m.half < NameSize
  BY <1>2 DEF IInv, NameInv, NameTerminated
<1>4. jobs[t].alone => w[1] = jobs[t].value[1] /\ w[2] = jobs[t].value[2]
  BY <1>1 DEF IInv, OwnInv
<1>5. Become(t, m) /\ lock' = t /\ (lock' = lock \/ (lock = None /\ lock' = t))
  BY DEF Save, MayLock
<1>6. ram' = [ram EXCEPT ![jobs[t].key] = w]
  BY DEF Save, IInv, TypeOK
<1> HIDE DEF m, w
<1> QED BY <1>1, <1>2, <1>3, <1>4, <1>5, <1>6, HandlerMoves DEF Save
----------------------------------------------------------------------------
\* A handler that returns, whatever it leaves in flash.
LEMMA HandlerEnds ==
  ASSUME IInv, NEW t \in Threads, jobs[t].at # "idle", Become(t, Idle),
         (t = "main" /\ lock' = lock) \/ (t # "main" /\ lock = t /\ lock' = None),
         flash' \in [Keys -> (Values \X Values) \cup {None}],
         \A k \in Keys : flash[k] # None => flash'[k] # None,
         failed' \in [Keys -> BOOLEAN],
         promised' \in [Keys -> (Values \X Values) \cup {None}],
         NameTerminated', UNCHANGED <<ram, boot, todo, joined, sets, cleared>>
  PROVE  /\ TypeOK' /\ JobInv' /\ OwnInv' /\ NameInv'
         /\ jobs'[t].key = None /\ \A u \in Threads \ {t} : jobs'[u] = jobs[u]
<1>1. /\ jobs \in [Threads -> Job] /\ jobs' \in [Threads -> Job] /\ jobs'[t] = Idle
      /\ \A u \in Threads \ {t} : jobs'[u] = jobs[u]
  BY Becomes, Constants DEF IInv, TypeOK
<1>2. Idle.key = None /\ Idle.at = "idle"
  BY DEF Idle
<1>3. "main" \in Threads /\ None \notin Threads
  BY Constants DEF Threads
<1>4. TypeOK'
  <2>1. jobs'["main"].at # "idle" => lock' = "main"
    <3>1. CASE t = "main"
      BY <1>1, <1>2, <3>1
    <3>2. CASE t # "main"
      BY <1>1, <1>3, <3>2 DEF IInv, TypeOK
    <3> QED BY <3>1, <3>2
  <2>2. todo' # {} => lock' = "main"
    BY DEF IInv, TypeOK
  <2>3. lock' \in Threads \cup {None}
    BY DEF IInv, TypeOK
  <2> QED BY <1>1, <2>1, <2>2, <2>3 DEF IInv, TypeOK
<1>5. JobInv'
  <2>1. ASSUME NEW u \in Threads PROVE jobs'[u].key = None <=> jobs'[u].at = "idle"
    BY <1>1, <1>2 DEF IInv, JobInv
  <2>2. ASSUME NEW u \in Threads, jobs'[u].at = "write" PROVE lock' = u
    <3>1. u # t /\ jobs'[u] = jobs[u]
      BY <1>1, <1>2, <2>2
    <3>2. lock = u
      BY <2>2, <3>1 DEF IInv, JobInv
    <3> QED BY <3>1, <3>2
  <2>3. lock' = "main" => boot' # "up"
    BY <1>3 DEF IInv, JobInv
  <2>4. \A x \in todo' : flash'[x] # None
    BY DEF IInv, JobInv, TypeOK
  <2> QED BY <2>1, <2>2, <2>3, <2>4 DEF JobInv
<1>6. OwnInv'
  <2> SUFFICES ASSUME NEW u \in Threads, jobs'[u].key # None, jobs'[u].alone
               PROVE /\ \A y \in Threads \ {u} : jobs'[y].key # jobs'[u].key
                     /\ jobs'[u].at \in {"last", "save", "write"} => ram'[jobs'[u].key][1] = jobs'[u].value[1]
                     /\ jobs'[u].at \in {"save", "write"} => ram'[jobs'[u].key][2] = jobs'[u].value[2]
                     /\ jobs'[u].at = "write" => jobs'[u].half = jobs'[u].value[1]
    BY DEF OwnInv
  <2>1. u # t /\ jobs'[u] = jobs[u]
    BY <1>1, <1>2
  <2>2. \A y \in Threads \ {u} : jobs'[y].key # jobs'[u].key
    BY <1>1, <1>2, <2>1 DEF IInv, OwnInv
  <2> QED BY <2>1, <2>2 DEF IInv, OwnInv
<1>7. NameInv'
  <2>1. ASSUME NEW u \in Threads, jobs'[u].key = Name
        PROVE jobs'[u].value[1] < NameSize /\ jobs'[u].value[2] < NameSize /\ jobs'[u].half < NameSize
    <3>1. u # t
      BY <1>1, <1>2, <2>1, Constants
    <3> QED BY <1>1, <2>1, <3>1 DEF IInv, NameInv
  <2> QED BY <2>1 DEF NameInv
<1> QED BY <1>1, <1>2, <1>4, <1>5, <1>6, <1>7

LEMMA WrittenKeeps ==
  ASSUME IInv, NEW t \in Threads, Written(t)
  PROVE  IInv'
<1> DEFINE k == jobs[t].key
           f == <<jobs[t].half, ram[k][2]>>
<1>1. /\ jobs[t] \in Job /\ jobs[t].at = "write" /\ k \in Keys /\ k # None /\ lock = t
      /\ jobs[t].value \in Values \X Values /\ f \in Values \X Values
  <2>1. jobs[t].at = "write"
    BY DEF Written
  <2>2. jobs[t] \in Job /\ k \in Keys /\ jobs[t].value \in Values \X Values /\ ram[k] \in Values \X Values
    BY <2>1, InHandler
  <2>3. jobs[t].half \in Values /\ ram[k][2] \in Values
    BY <2>2, Constants DEF Job
  <2> QED BY <2>1, <2>2, <2>3, Constants DEF IInv, JobInv
<1>2. /\ flash' = [flash EXCEPT ![k] = f] /\ failed' = [failed EXCEPT ![k] = FALSE]
      /\ promised' = IF t # "main" /\ jobs[t].alone
                     THEN [promised EXCEPT ![k] = jobs[t].value] ELSE promised
      /\ Become(t, Idle) /\ UNCHANGED <<ram, boot, todo, joined, sets, cleared>>
      /\ (t = "main" /\ lock' = lock) \/ (t # "main" /\ lock = t /\ lock' = None)
  BY <1>1 DEF Written, Release
<1>3. jobs[t].alone => f = jobs[t].value
  <2>1. jobs[t].alone => ram[k][2] = jobs[t].value[2] /\ jobs[t].half = jobs[t].value[1]
    BY <1>1 DEF IInv, OwnInv
  <2> QED BY <1>1, <2>1, Constants
<1>4. /\ flash' \in [Keys -> (Values \X Values) \cup {None}] /\ flash'[k] = f
      /\ \A x \in Keys \ {k} : flash'[x] = flash[x]
  <2> HIDE DEF f, k
  <2> QED BY <1>1, <1>2 DEF IInv, TypeOK
<1>5. /\ promised' \in [Keys -> (Values \X Values) \cup {None}]
      /\ \A x \in Keys \ {k} : promised'[x] = promised[x]
      /\ t # "main" /\ jobs[t].alone => promised'[k] = jobs[t].value
      /\ t = "main" \/ ~jobs[t].alone => promised'[k] = promised[k]
  <2>1. promised \in [Keys -> (Values \X Values) \cup {None}]
    BY DEF IInv, TypeOK
  <2> HIDE DEF f, k
  <2>2. CASE t # "main" /\ jobs[t].alone
    BY <1>1, <1>2, <2>1, <2>2
  <2>3. CASE ~(t # "main" /\ jobs[t].alone)
    BY <1>1, <1>2, <2>1, <2>3
  <2> QED BY <2>2, <2>3
<1>6. failed' \in [Keys -> BOOLEAN]
  BY <1>1, <1>2 DEF IInv, TypeOK
<1>7. NameTerminated'
  <2>1. k = Name => f[1] < NameSize /\ f[2] < NameSize
    BY <1>1 DEF IInv, NameInv, NameTerminated
  <2> HIDE DEF f, k
  <2> QED BY <1>1, <1>2, <1>4, <2>1, Constants DEF IInv, NameInv, NameTerminated
<1>8. /\ TypeOK' /\ JobInv' /\ OwnInv' /\ NameInv'
      /\ jobs'[t].key = None /\ \A u \in Threads \ {t} : jobs'[u] = jobs[u]
  <2>1. \A x \in Keys : flash[x] # None => flash'[x] # None
    BY <1>1, <1>4, Constants
  <2> HIDE DEF f, k
  <2> QED BY <1>1, <1>2, <1>4, <1>5, <1>6, <1>7, <2>1, HandlerEnds
<1>9. PromiseInv'
  <2> HIDE DEF f
  <2> SUFFICES ASSUME NEW x \in Keys, promised'[x] # None
               PROVE /\ flash'[x] = promised'[x]
                     /\ jobs'["shell"].key # x /\ jobs'["lora"].key # x
                     /\ jobs'["main"].key = x => jobs'["main"].alone /\ jobs'["main"].value = promised'[x]
    BY DEF PromiseInv
  <2>0. \A u \in Threads \ {t} : jobs'[u] = jobs[u]
    BY <1>8
  <2>1. Threads = {"main", "shell", "lora"} /\ None \notin Keys
    BY Constants DEF Threads
  <2>2. CASE x # k
    <3>1. flash'[x] = flash[x] /\ promised'[x] = promised[x]
      BY <1>4, <1>5, <2>2
    <3>2. /\ flash[x] = promised[x] /\ jobs["shell"].key # x /\ jobs["lora"].key # x
          /\ jobs["main"].key = x => jobs["main"].alone /\ jobs["main"].value = promised[x]
      BY <3>1 DEF IInv, PromiseInv
    <3> QED BY <1>8, <2>1, <2>2, <3>1, <3>2
  <2>3. CASE x = k /\ t = "main"
    <3>1. promised'[k] = promised[k] /\ promised[k] # None
      BY <1>5, <2>3
    <3>2. jobs["main"].alone /\ jobs["main"].value = promised[k]
          /\ jobs["shell"].key # k /\ jobs["lora"].key # k
      BY <1>1, <2>3, <3>1 DEF IInv, PromiseInv
    <3> QED BY <1>3, <1>4, <1>8, <2>1, <2>3, <3>1, <3>2
  <2>4. CASE x = k /\ t # "main" /\ jobs[t].alone
    <3>1. \A u \in Threads \ {t} : jobs[u].key # k
      BY <1>1, <2>4 DEF IInv, OwnInv
    <3>2. promised'[k] = jobs[t].value /\ flash'[k] = jobs[t].value
      BY <1>3, <1>4, <1>5, <2>4
    <3>3. \A u \in Threads : jobs'[u].key # k
      BY <1>1, <1>8, <3>1
    <3> QED BY <2>1, <2>4, <3>2, <3>3
  <2>5. CASE x = k /\ t # "main" /\ ~jobs[t].alone
    <3>1. promised[k] # None
      BY <1>5, <2>5
    <3>2. jobs["shell"].key # k /\ jobs["lora"].key # k
      BY <1>1, <3>1 DEF IInv, PromiseInv
    <3> QED BY <2>1, <2>5, <3>2
  <2> QED BY <2>2, <2>3, <2>4, <2>5
<1> QED BY <1>8, <1>9 DEF IInv

\* A handler that returns and leaves flash and the promises alone.
LEMMA FailureKeeps ==
  ASSUME IInv, NEW t \in Threads, jobs[t].at # "idle", Become(t, Idle),
         (t = "main" /\ lock' = lock) \/ (t # "main" /\ lock = t /\ lock' = None),
         failed' = [failed EXCEPT ![jobs[t].key] = TRUE],
         UNCHANGED <<ram, flash, boot, todo, joined, sets, promised, cleared>>
  PROVE  IInv'
<1>1. failed' \in [Keys -> BOOLEAN]
  BY InHandler DEF IInv, TypeOK
<1>2. /\ flash' \in [Keys -> (Values \X Values) \cup {None}]
      /\ promised' \in [Keys -> (Values \X Values) \cup {None}]
  BY DEF IInv, TypeOK
<1>3. NameTerminated'
  BY DEF IInv, NameInv, NameTerminated
<1>4. /\ TypeOK' /\ JobInv' /\ OwnInv' /\ NameInv'
      /\ jobs'[t].key = None /\ \A u \in Threads \ {t} : jobs'[u] = jobs[u]
  BY <1>1, <1>2, <1>3, HandlerEnds
<1>5. PromiseInv'
  <2>1. Threads = {"main", "shell", "lora"} /\ None \notin Keys
    BY Constants DEF Threads
  <2> SUFFICES ASSUME NEW x \in Keys, promised[x] # None
               PROVE /\ flash[x] = promised[x]
                     /\ jobs'["shell"].key # x /\ jobs'["lora"].key # x
                     /\ jobs'["main"].key = x => jobs'["main"].alone /\ jobs'["main"].value = promised[x]
    BY DEF PromiseInv
  <2>2. /\ flash[x] = promised[x] /\ jobs["shell"].key # x /\ jobs["lora"].key # x
        /\ jobs["main"].key = x => jobs["main"].alone /\ jobs["main"].value = promised[x]
    BY DEF IInv, PromiseInv
  <2> QED BY <1>4, <2>1, <2>2
<1> QED BY <1>4, <1>5 DEF IInv

LEMMA FailsKeep ==
  ASSUME IInv, NEW t \in Threads, WriteFails(t) \/ (t = "main" /\ ReadFails)
  PROVE  IInv'
<1>1. CASE WriteFails(t)
  <2>1. jobs[t].at = "write" /\ lock = t
    BY <1>1 DEF WriteFails, IInv, JobInv
  <2> QED BY <1>1, <2>1, FailureKeeps DEF WriteFails, Release
<1>2. CASE t = "main" /\ ReadFails
  BY <1>2, FailureKeeps DEF ReadFails
<1> QED BY <1>1, <1>2

\* Entering the handler: nobody was on the key, or nobody on it is alone any more.
LEMMA EnterKeeps ==
  ASSUME IInv, NEW t \in Threads, jobs[t] = Idle, NEW k \in Keys, NEW v \in Values \X Values,
         Enter(t, k, v), t = "main" => lock = "main",
         k = Name => v[1] < NameSize /\ v[2] < NameSize,
         todo' \in SUBSET todo, sets' \in 0..MaxSets, cleared' \in BOOLEAN,
         \/ t # "main" /\ promised' = [promised EXCEPT ![k] = None]
         \/ t = "main" /\ promised' = promised /\ v = flash[k],
         UNCHANGED <<ram, flash, lock, boot, joined, failed>>
  PROVE  IInv'
<1>1. /\ jobs' \in [Threads -> Job]
      /\ jobs'[t].key = k /\ jobs'[t].value = v /\ jobs'[t].half = 0
      /\ jobs'[t].at \in {"zero", "first"}
      /\ jobs'[t].alone => \A u \in Threads : jobs[u].key # k
  BY Enters DEF IInv, TypeOK
<1>2. \A u \in Threads \ {t} :
             /\ jobs'[u].key = jobs[u].key /\ jobs'[u].at = jobs[u].at
             /\ jobs'[u].value = jobs[u].value /\ jobs'[u].half = jobs[u].half
             /\ jobs'[u].alone = (jobs[u].alone /\ jobs[u].key # k)
  BY Enters DEF IInv, TypeOK
<1>3. Threads = {"main", "shell", "lora"} /\ None \notin Keys /\ 0 < NameSize
  BY Constants DEF Threads
<1>4. TypeOK'
  <2>1. jobs'["main"].at # "idle" => lock' = "main"
    <3>1. CASE t = "main"
      BY <3>1
    <3>2. CASE t # "main"
      BY <1>2, <1>3, <3>2 DEF IInv, TypeOK
    <3> QED BY <3>1, <3>2
  <2>2. promised' \in [Keys -> (Values \X Values) \cup {None}]
    BY DEF IInv, TypeOK
  <2>3. todo' \subseteq Keys /\ (todo' # {} => lock' = "main")
    BY DEF IInv, TypeOK
  <2> QED BY <1>1, <2>1, <2>2, <2>3 DEF IInv, TypeOK
<1>5. JobInv'
  BY <1>1, <1>2, <1>3 DEF IInv, JobInv
<1>6. OwnInv'
  <2> SUFFICES ASSUME NEW u \in Threads, jobs'[u].key # None, jobs'[u].alone
               PROVE /\ \A y \in Threads \ {u} : jobs'[y].key # jobs'[u].key
                     /\ jobs'[u].at \in {"last", "save", "write"} => ram'[jobs'[u].key][1] = jobs'[u].value[1]
                     /\ jobs'[u].at \in {"save", "write"} => ram'[jobs'[u].key][2] = jobs'[u].value[2]
                     /\ jobs'[u].at = "write" => jobs'[u].half = jobs'[u].value[1]
    BY DEF OwnInv
  <2>1. CASE u = t
    BY <1>1, <1>2, <2>1
  <2>2. CASE u # t
    <3>1. /\ jobs[u].alone /\ jobs[u].key # k /\ jobs[u].key # None
          /\ jobs'[u].key = jobs[u].key /\ jobs'[u].at = jobs[u].at
          /\ jobs'[u].value = jobs[u].value /\ jobs'[u].half = jobs[u].half
      BY <1>2, <2>2
    <3>2. \A y \in Threads \ {u} : jobs'[y].key # jobs'[u].key
      BY <1>1, <1>2, <3>1 DEF IInv, OwnInv
    <3> QED BY <3>1, <3>2 DEF IInv, OwnInv
  <2> QED BY <2>1, <2>2
<1>7. PromiseInv'
  <2> SUFFICES ASSUME NEW x \in Keys, promised'[x] # None
               PROVE /\ flash'[x] = promised'[x]
                     /\ jobs'["shell"].key # x /\ jobs'["lora"].key # x
                     /\ jobs'["main"].key = x => jobs'["main"].alone /\ jobs'["main"].value = promised'[x]
    BY DEF PromiseInv
  <2>1. promised'[x] = promised[x] /\ (t = "main" \/ x # k)
    BY DEF IInv, TypeOK
  <2>2. /\ flash[x] = promised[x] /\ jobs["shell"].key # x /\ jobs["lora"].key # x
        /\ jobs["main"].key = x => jobs["main"].alone /\ jobs["main"].value = promised[x]
    BY <2>1 DEF IInv, PromiseInv
  <2>3. CASE t = "main" /\ x = k
    <3>1. jobs["main"].key # k
      BY <1>3, <2>3 DEF Idle
    <3>2. jobs'["main"].alone
      <4>1. ~Busy(k)
        BY <1>3, <2>2, <2>3, <3>1 DEF Busy
      <4>2. jobs' = [u \in Threads |->
                      IF u = t THEN [key |-> k, at |-> IF k = Name THEN "zero" ELSE "first",
                                     value |-> v, half |-> 0, alone |-> ~Busy(k)]
                      ELSE [jobs[u] EXCEPT !.alone = @ /\ jobs[u].key # k]]
        BY DEF Enter
      <4>3. jobs'[t] = [key |-> k, at |-> IF k = Name THEN "zero" ELSE "first",
                        value |-> v, half |-> 0, alone |-> ~Busy(k)]
        BY <4>2
      <4>4. jobs'[t].alone = ~Busy(k)
        BY <4>3
      <4> QED BY <2>3, <4>1, <4>4
    <3> QED BY <1>1, <1>2, <1>3, <2>1, <2>2, <2>3, <3>2
  <2>4. CASE x # k
    BY <1>1, <1>2, <1>3, <2>1, <2>2, <2>4
  <2> QED BY <2>1, <2>3, <2>4
<1>8. NameInv'
  <2>1. NameTerminated'
    BY DEF IInv, NameInv, NameTerminated
  <2>2. ASSUME NEW u \in Threads, jobs'[u].key = Name
        PROVE jobs'[u].value[1] < NameSize /\ jobs'[u].value[2] < NameSize /\ jobs'[u].half < NameSize
    BY <1>1, <1>2, <1>3, <2>2 DEF IInv, NameInv
  <2> QED BY <2>1, <2>2 DEF NameInv
<1> QED BY <1>4, <1>5, <1>6, <1>7, <1>8 DEF IInv

LEMMA SetKeeps ==
  ASSUME IInv, ShellSet \/ setting_lora
  PROVE  IInv'
<1>1. ASSUME NEW t \in {"shell", "lora"}, NEW k \in Keys, NEW v \in Values,
             k = Name => v < NameSize, Set(t, k, v)
      PROVE  IInv'
  <2>1. t \in Threads /\ t # "main"
    BY <1>1 DEF Threads
  <2>2. Whole(v) \in Values \X Values /\ Whole(v)[1] = v /\ Whole(v)[2] = v
    BY <1>1 DEF Whole
  <2>3. /\ jobs[t] = Idle /\ Enter(t, k, Whole(v)) /\ promised' = [promised EXCEPT ![k] = None]
        /\ cleared' \in BOOLEAN /\ UNCHANGED <<ram, flash, lock, boot, todo, joined, failed>>
    BY <1>1 DEF Set
  <2>4. sets' \in 0..MaxSets
    BY <1>1, SettingsAssumption DEF Set, IInv, TypeOK, SettingsAssumption
  <2>5. todo' \in SUBSET todo
    BY <2>3
  <2> QED BY <1>1, <2>1, <2>2, <2>3, <2>4, <2>5, EnterKeeps
<1>2. CASE ShellSet
  <2>1. PICK k \in ShellKeys, v \in Bytes : Set("shell", k, v)
    BY <1>2 DEF ShellSet
  <2>2. k \in Keys /\ k # Name /\ v \in Values
    BY Constants
  <2> QED BY <1>1, <2>1, <2>2
<1>3. CASE setting_lora
  <2>1. PICK k \in DownlinkKeys :
          IF k = Name THEN \E v \in 1..NameSize : NameFits(v) /\ Set("lora", k, v)
          ELSE \E v \in Bytes : Set("lora", k, v)
    BY <1>3 DEF setting_lora
  <2>2. k \in Keys
    BY Constants
  <2>3. CASE k = Name
    <3>1. PICK v \in 1..NameSize : NameFits(v) /\ Set("lora", k, v)
      BY <2>1, <2>3
    <3>2. v \in Values
      BY Constants
    <3> QED BY <1>1, <2>2, <3>1, <3>2 DEF NameFits
  <2>4. CASE k # Name
    <3>1. PICK v \in Bytes : Set("lora", k, v)
      BY <2>1, <2>4
    <3>2. v \in Values
      BY Constants
    <3> QED BY <1>1, <2>2, <2>4, <3>1, <3>2
  <2> QED BY <2>3, <2>4
<1> QED BY <1>2, <1>3

LEMMA LoadEntryKeeps ==
  ASSUME IInv, LoadEntry
  PROVE  IInv'
<1>1. PICK k \in todo :
        /\ jobs["main"] = Idle /\ todo' = todo \ {k}
        /\ \/ Enter("main", k, flash[k]) /\ UNCHANGED failed
           \/ k = Name /\ failed' = [failed EXCEPT ![k] = TRUE] /\ UNCHANGED jobs
        /\ UNCHANGED <<ram, flash, lock, boot, joined, sets, promised, cleared>>
  BY DEF LoadEntry
<1>2. k \in Keys /\ lock = "main" /\ "main" \in Threads
  BY <1>1 DEF IInv, TypeOK, Threads
<1>3. ASSUME Enter("main", k, flash[k]), UNCHANGED failed
      PROVE  IInv'
  <2>1. flash[k] \in Values \X Values
    BY <1>1, <1>2 DEF IInv, JobInv, TypeOK
  <2>2. k = Name => flash[k][1] < NameSize /\ flash[k][2] < NameSize
    BY <2>1, Constants DEF IInv, NameInv, NameTerminated
  <2>3. sets' \in 0..MaxSets /\ cleared' \in BOOLEAN /\ todo' \in SUBSET todo
    BY <1>1 DEF IInv, TypeOK
  <2> QED BY <1>1, <1>2, <1>3, <2>1, <2>2, <2>3, EnterKeeps
<1>4. ASSUME failed' = [failed EXCEPT ![k] = TRUE], UNCHANGED jobs
      PROVE  IInv'
  BY <1>1, <1>2, <1>4 DEF IInv, TypeOK, JobInv, OwnInv, PromiseInv, NameInv, NameTerminated
<1> QED BY <1>1, <1>3, <1>4

LEMMA LoadKeeps ==
  ASSUME IInv, LoadBegins \/ LoadEnds \/ lora_setup \/ lora_keys_clear
  PROVE  IInv'
<1>1. CASE LoadBegins
  <2>1. /\ lock = None /\ lock' = "main" /\ boot # "up" /\ todo' \subseteq Keys
        /\ \A k \in todo' : flash[k] # None
        /\ UNCHANGED <<ram, flash, jobs, boot, joined, sets, failed, promised, cleared>>
    BY <1>1, Constants DEF LoadBegins, Subtree, Keys, IInv, TypeOK
  <2>2. None \notin Threads /\ "main" \in Threads
    BY Constants DEF Threads
  <2>3. TypeOK'
    BY <2>1, <2>2 DEF IInv, TypeOK
  <2>4. JobInv'
    BY <2>1, <2>2 DEF IInv, JobInv
  <2>5. OwnInv' /\ PromiseInv' /\ NameInv'
    BY <2>1 DEF IInv, OwnInv, PromiseInv, NameInv, NameTerminated
  <2> QED BY <2>3, <2>4, <2>5 DEF IInv
<1>2. CASE LoadEnds
  <2>1. /\ lock = "main" /\ lock' = None /\ jobs["main"] = Idle /\ todo = {} /\ todo' = {}
        /\ UNCHANGED <<ram, flash, jobs, joined, sets, failed, promised, cleared>>
    BY <1>2 DEF LoadEnds
  <2>2. boot \in {"lora_keys", "app", "all"}
    BY <2>1 DEF IInv, TypeOK, JobInv
  <2>3. boot' \in {"lora_keys", "app", "all", "up"}
    BY <1>2, <2>2 DEF LoadEnds
  <2>4. None \notin Threads /\ "main" \in Threads /\ jobs["main"].at = "idle"
    BY <2>1, Constants DEF Threads, Idle
  <2>5. TypeOK'
    BY <2>1, <2>3, <2>4 DEF IInv, TypeOK
  <2>6. \A t \in Threads : jobs[t].at # "write"
    BY <2>1, <2>4 DEF IInv, JobInv
  <2>7. JobInv'
    BY <2>1, <2>4, <2>6 DEF IInv, JobInv
  <2>8. OwnInv' /\ PromiseInv' /\ NameInv'
    BY <2>1 DEF IInv, OwnInv, PromiseInv, NameInv, NameTerminated
  <2> QED BY <2>5, <2>7, <2>8 DEF IInv
<1>3. CASE lora_setup
  BY <1>3 DEF lora_setup, IInv, TypeOK, JobInv, OwnInv, PromiseInv, NameInv, NameTerminated
<1>4. CASE lora_keys_clear
  <2>1. /\ flash' = flash /\ cleared' = TRUE
        /\ promised' = [k \in Keys |-> IF k \in LoraKeys THEN None ELSE promised[k]]
        /\ UNCHANGED <<ram, jobs, lock, boot, todo, joined, sets, failed>>
    <3>1. flash' = [k \in Keys |-> IF k = "lora_keys" THEN None ELSE flash[k]] \/ flash' = flash
      BY <1>4 DEF lora_keys_clear, settings_delete
    <3>2. flash' = flash
      BY <3>1, Constants DEF IInv, TypeOK
    <3> QED BY <1>4, <3>2 DEF lora_keys_clear
  <2>2. promised' \in [Keys -> (Values \X Values) \cup {None}]
    BY <2>1 DEF IInv, TypeOK
  <2>3. TypeOK' /\ JobInv'
    BY <2>1, <2>2 DEF IInv, TypeOK, JobInv
  <2>4. OwnInv' /\ NameInv'
    BY <2>1 DEF IInv, OwnInv, NameInv, NameTerminated
  <2>5. \A k \in Keys : promised'[k] # None => promised'[k] = promised[k]
    BY <2>1
  <2>6. PromiseInv'
    BY <2>1, <2>5 DEF IInv, PromiseInv
  <2> QED BY <2>3, <2>4, <2>6 DEF IInv
<1> QED BY <1>1, <1>2, <1>3, <1>4

LEMMA ResetKeeps ==
  ASSUME IInv, Reset
  PROVE  IInv'
<1>1. /\ ram' = [k \in Keys |-> Default(k)] /\ jobs' = [t \in Threads |-> Idle] /\ lock' = None
      /\ boot' = "lora_keys" /\ todo' = {} /\ joined' = FALSE
      /\ failed' = [k \in Keys |-> FALSE] /\ UNCHANGED <<flash, sets, promised, cleared>>
  BY DEF Reset
<1>2. jobs' \in [Threads -> Job] /\ \A t \in Threads : jobs'[t] = Idle
  BY <1>1, Constants
<1>3. /\ ram' \in [Keys -> Values \X Values] /\ ram'[Name] = <<1, 1>>
  BY <1>1, Constants DEF Default
<1>4. /\ Idle.key = None /\ Idle.at = "idle" /\ None \notin Threads /\ None \notin Keys
      /\ "main" \in Threads /\ "shell" \in Threads /\ "lora" \in Threads
  BY Constants DEF Idle, Threads
<1>5. failed' \in [Keys -> BOOLEAN]
  BY <1>1
<1>6. TypeOK'
  BY <1>1, <1>2, <1>3, <1>4, <1>5 DEF IInv, TypeOK
<1>7. JobInv'
  BY <1>1, <1>2, <1>4 DEF JobInv
<1>8. OwnInv'
  BY <1>2, <1>4 DEF OwnInv
<1>9. PromiseInv'
  BY <1>1, <1>2, <1>4 DEF IInv, PromiseInv
<1>10. NameInv'
  BY <1>1, <1>2, <1>3, <1>4, Constants DEF IInv, NameInv, NameTerminated
<1> QED BY <1>6, <1>7, <1>8, <1>9, <1>10 DEF IInv
----------------------------------------------------------------------------
\* The inductive invariant holds of every behaviour of settings.c and its users.
THEOREM Inductive == Spec => []IInv
<1>1. Init => IInv
  BY Initially
<1>2. IInv /\ [Next]_vars => IInv'
  <2> SUFFICES ASSUME IInv, [Next]_vars PROVE IInv'
    OBVIOUS
  <2>1. CASE Boots
    <3>1. "main" \in Threads
      BY DEF Threads
    <3> QED BY <2>1, <3>1, LoadKeeps, LoadEntryKeeps, FailsKeep DEF Boots
  <2>2. CASE ShellSet \/ setting_lora
    BY <2>2, SetKeeps
  <2>3. CASE lora_keys_clear
    BY <2>3, LoadKeeps
  <2>4. CASE Reset
    BY <2>4, ResetKeeps
  <2>5. ASSUME NEW t \in Threads, handle_set(t) PROVE IInv'
    BY <2>5, ClearKeeps, CopyFirstKeeps, CopyLastKeeps, SaveKeeps, WrittenKeeps, FailsKeep DEF handle_set
  <2>6. CASE UNCHANGED vars
    BY <2>6 DEF vars, IInv, TypeOK, JobInv, OwnInv, PromiseInv, NameInv, NameTerminated
  <2> QED BY <2>1, <2>2, <2>3, <2>4, <2>5, <2>6 DEF Next
<1> QED BY <1>1, <1>2, PTL DEF Spec

\* The variables keep their types, and a load its lock, for any keys and values.
THEOREM Typing == Spec => []TypeOK
<1>1. IInv => TypeOK
  BY DEF IInv
<1> QED BY <1>1, Inductive, PTL

\* A set that reported success, and that nobody overlapped, is in flash for good: through
\* resets, later loads and failures, for any number of sets (settings.c:143, shell.c:51).
THEOREM PromisesAreKept == Spec => []PromiseKept
<1>1. IInv => PromiseKept
  BY DEF IInv, PromiseInv, PromiseKept
<1> QED BY <1>1, Inductive, PTL

\* Whatever lengths downlinks carry, the Bluetooth name keeps room for its terminator in
\* RAM and in flash (settings.c:164).
THEOREM NamesFit == Spec => []NameTerminated
<1>1. IInv => NameTerminated
  BY DEF IInv, NameInv
<1> QED BY <1>1, Inductive, PTL
----------------------------------------------------------------------------
\* A handler that moves on leaves its key busy and the other keys alone.
LEMMA MoveIsCurrent ==
  ASSUME IInv, CurrentInv, NEW t \in Threads, jobs[t].at # "idle",
         NEW m \in Job, Become(t, m), m.key = jobs[t].key,
         lock' = lock \/ (lock = None /\ lock' = t),
         NEW w \in Values \X Values, ram' = [ram EXCEPT ![jobs[t].key] = w],
         m.at = "write" => m.half = w[1],
         UNCHANGED <<flash, boot, todo, failed>>
  PROVE  CurrentInv'
<1> DEFINE k == jobs[t].key
<1>1. k \in Keys /\ (t = "main" => lock = "main") /\ k # None
  BY InHandler, Constants
<1>2. /\ jobs' \in [Threads -> Job] /\ jobs'[t] = m /\ jobs'[t].key = k
      /\ \A u \in Threads \ {t} : jobs'[u] = jobs[u]
  BY Becomes DEF IInv, TypeOK
<1>3. /\ ram'[k] = w /\ \A x \in Keys \ {k} : ram'[x] = ram[x]
  BY <1>1 DEF IInv, TypeOK
<1>4. ASSUME NEW u \in Threads, jobs'[u].at = "write", Alone(u)'
      PROVE  jobs'[u].half = ram'[jobs'[u].key][1]
  <2>1. CASE u = t
    BY <1>2, <1>3, <1>4, <2>1
  <2>2. CASE u # t
    <3>1. jobs'[u] = jobs[u] /\ jobs[u].key # k
      BY <1>2, <1>4, <2>2 DEF Alone
    <3>2. Alone(u)
      BY <1>2, <1>4, <3>1 DEF Alone
    <3>3. jobs[u].key \in Keys
      BY <1>4, <3>1, InHandler
    <3>4. ram'[jobs[u].key] = ram[jobs[u].key]
      BY <1>3, <3>1, <3>3
    <3> QED BY <1>4, <3>1, <3>2, <3>4 DEF CurrentInv
  <2> QED BY <2>1, <2>2
<1>5. ASSUME NEW x \in Keys, ~Busy(x)', ~failed'[x]
      PROVE  (ram[x] = Stored(x) \/ Waits(x))'
  <2>1. x # k
    BY <1>2, <1>5 DEF Busy
  <2>2. ~Busy(x)
    BY <1>2, <1>5, <2>1 DEF Busy
  <2>3. ram[x] = Stored(x) \/ Waits(x)
    BY <1>5, <2>2 DEF CurrentInv
  <2>4. Stored(x)' = Stored(x) /\ ram'[x] = ram[x]
    BY <1>3, <2>1 DEF Stored, Default
  <2>5. lock' = "main" => lock = "main"
    BY <1>1
  <2>6. Waits(x) => Waits(x)'
    BY <2>5 DEF Waits
  <2> QED BY <2>3, <2>4, <2>6
<1> QED BY <1>4, <1>5 DEF CurrentInv

LEMMA HandlerIsCurrent ==
  ASSUME IInv, CurrentInv, NEW t \in Threads, Clear(t) \/ CopyFirst(t) \/ CopyLast(t) \/ Save(t)
  PROVE  CurrentInv'
<1> DEFINE r == ram[jobs[t].key]
<1>1. jobs[t].at # "idle"
  BY DEF Clear, CopyFirst, CopyLast, Save
<1>2. /\ jobs[t] \in Job /\ jobs[t].key \in Keys /\ r \in Values \X Values
      /\ jobs[t].value[1] \in Values /\ jobs[t].value[2] \in Values /\ r[1] \in Values
  BY <1>1, InHandler, Constants
<1>3. CASE Clear(t)
  <2>1. LET m == [jobs[t] EXCEPT !.at = "first"]
        IN  m \in Job /\ m.key = jobs[t].key /\ m.at = "first" /\ Become(t, m)
    BY <1>2, <1>3, Moves DEF Clear
  <2>2. /\ Zero \in Values \X Values /\ ram' = [ram EXCEPT ![jobs[t].key] = Zero]
        /\ UNCHANGED <<flash, lock, boot, todo, failed>>
    BY <1>3, Constants DEF Clear
  <2> QED BY <1>1, <2>1, <2>2, MoveIsCurrent
<1>4. CASE CopyFirst(t)
  <2>1. LET m == [jobs[t] EXCEPT !.at = "last"]
        IN  m \in Job /\ m.key = jobs[t].key /\ m.at = "last" /\ Become(t, m)
    BY <1>2, <1>4, Moves DEF CopyFirst
  <2>2. LET w == [r EXCEPT ![1] = jobs[t].value[1]]
        IN  w \in Values \X Values /\ ram' = [ram EXCEPT ![jobs[t].key] = w]
    BY <1>2, <1>4, Pairs DEF CopyFirst
  <2>3. UNCHANGED <<flash, lock, boot, todo, failed>>
    BY <1>4 DEF CopyFirst
  <2> QED BY <1>1, <2>1, <2>2, <2>3, MoveIsCurrent
<1>5. CASE CopyLast(t)
  <2>1. LET m == [jobs[t] EXCEPT !.at = "save"]
        IN  m \in Job /\ m.key = jobs[t].key /\ m.at = "save" /\ Become(t, m)
    BY <1>2, <1>5, Moves DEF CopyLast
  <2>2. LET w == [r EXCEPT ![2] = jobs[t].value[2]]
        IN  w \in Values \X Values /\ ram' = [ram EXCEPT ![jobs[t].key] = w]
    BY <1>2, <1>5, Pairs DEF CopyLast
  <2>3. UNCHANGED <<flash, lock, boot, todo, failed>>
    BY <1>5 DEF CopyLast
  <2> QED BY <1>1, <2>1, <2>2, <2>3, MoveIsCurrent
<1>6. CASE Save(t)
  <2>1. LET m == [jobs[t] EXCEPT !.at = "write", !.half = r[1]]
        IN  m \in Job /\ m.key = jobs[t].key /\ m.half = r[1] /\ Become(t, m)
    BY <1>2, <1>6, Samples DEF Save
  <2>2. ram' = [ram EXCEPT ![jobs[t].key] = r]
    BY <1>6 DEF Save, IInv, TypeOK
  <2>3. /\ lock' = lock \/ (lock = None /\ lock' = t)
        /\ UNCHANGED <<flash, boot, todo, failed>>
    BY <1>6 DEF Save, MayLock
  <2> QED BY <1>1, <1>2, <2>1, <2>2, <2>3, MoveIsCurrent
<1> QED BY <1>3, <1>4, <1>5, <1>6

\* A handler that returns has failed, or has written what is in RAM if it is the last.
LEMMA EndIsCurrent ==
  ASSUME IInv, CurrentInv, NEW t \in Threads, jobs[t].at # "idle", Become(t, Idle),
         (t = "main" /\ lock' = lock) \/ (t # "main" /\ lock = t /\ lock' = None),
         flash' \in [Keys -> (Values \X Values) \cup {None}],
         \A x \in Keys \ {jobs[t].key} : flash'[x] = flash[x] /\ failed'[x] = failed[x],
         \/ failed'[jobs[t].key] = TRUE
         \/ /\ jobs[t].at = "write"
            /\ flash'[jobs[t].key] = <<jobs[t].half, ram[jobs[t].key][2]>>,
         UNCHANGED <<ram, boot, todo>>
  PROVE  CurrentInv'
<1> DEFINE k == jobs[t].key
<1>1. /\ k \in Keys /\ k # None /\ (t = "main" => lock = "main")
      /\ ram[k] \in Values \X Values /\ Idle \in Job /\ Idle.key = None /\ Idle.at = "idle"
  BY InHandler, Constants DEF Idle
<1>2. /\ jobs'[t].key = None /\ jobs'[t].at = "idle"
      /\ \A u \in Threads \ {t} : jobs'[u] = jobs[u]
  BY <1>1, Becomes DEF IInv, TypeOK
<1>3. lock = t /\ (lock' = "main" => lock = "main")
  BY <1>1, Constants DEF Threads
<1>4. \A u \in Threads : jobs'[u].at # "write"
  BY <1>2, <1>3 DEF IInv, JobInv
<1>5. ASSUME NEW x \in Keys, ~Busy(x)', ~failed'[x]
      PROVE  (ram[x] = Stored(x) \/ Waits(x))'
  <2>1. CASE x = k
    <3>1. jobs[t].at = "write" /\ flash'[k] = <<jobs[t].half, ram[k][2]>>
      BY <1>5, <2>1
    <3>2. Alone(t)
      BY <1>2, <1>5, <2>1 DEF Alone, Busy
    <3>3. jobs[t].half = ram[k][1]
      BY <3>1, <3>2 DEF CurrentInv
    <3>4. flash'[k] = ram[k]
      BY <1>1, <3>1, <3>3, Constants
    <3>5. flash'[k] # None
      BY <1>1, <3>4, Constants
    <3> QED BY <2>1, <3>4, <3>5 DEF Stored
  <2>2. CASE x # k
    <3>1. ~Busy(x) /\ ~failed[x] /\ flash'[x] = flash[x]
      BY <1>2, <1>5, <2>2 DEF Busy
    <3>2. ram[x] = Stored(x) \/ Waits(x)
      BY <3>1 DEF CurrentInv
    <3>3. Stored(x)' = Stored(x)
      BY <3>1 DEF Stored, Default
    <3>4. Waits(x) => Waits(x)'
      BY <1>3, <3>1 DEF Waits
    <3> QED BY <3>2, <3>3, <3>4
  <2> QED BY <2>1, <2>2
<1> QED BY <1>4, <1>5 DEF CurrentInv

LEMMA ReturnIsCurrent ==
  ASSUME IInv, CurrentInv, NEW t \in Threads,
         Written(t) \/ WriteFails(t) \/ (t = "main" /\ ReadFails)
  PROVE  CurrentInv'
<1>1. jobs[t].at # "idle"
  BY DEF Written, WriteFails, ReadFails
<1>2. jobs[t].key \in Keys /\ ram[jobs[t].key] \in Values \X Values /\ jobs[t] \in Job
  BY <1>1, InHandler
<1>3. Become(t, Idle) /\ UNCHANGED <<ram, boot, todo>>
  BY DEF Written, WriteFails, ReadFails
<1>4. (t = "main" /\ lock' = lock) \/ (t # "main" /\ lock = t /\ lock' = None)
  BY DEF Written, WriteFails, ReadFails, Release, IInv, JobInv
<1>5. /\ flash \in [Keys -> (Values \X Values) \cup {None}] /\ failed \in [Keys -> BOOLEAN]
  BY DEF IInv, TypeOK
<1>6. CASE Written(t)
  <2>1. <<jobs[t].half, ram[jobs[t].key][2]>> \in Values \X Values
    BY <1>2, Constants DEF Job
  <2>2. /\ flash' \in [Keys -> (Values \X Values) \cup {None}]
        /\ flash'[jobs[t].key] = <<jobs[t].half, ram[jobs[t].key][2]>>
        /\ \A x \in Keys \ {jobs[t].key} : flash'[x] = flash[x] /\ failed'[x] = failed[x]
        /\ jobs[t].at = "write"
    BY <1>2, <1>5, <1>6, <2>1 DEF Written
  <2> QED BY <1>1, <1>3, <1>4, <2>2, EndIsCurrent
<1>7. CASE WriteFails(t) \/ (t = "main" /\ ReadFails)
  <2>1. /\ flash' = flash /\ failed'[jobs[t].key] = TRUE
        /\ \A x \in Keys \ {jobs[t].key} : failed'[x] = failed[x]
    BY <1>2, <1>5, <1>7 DEF WriteFails, ReadFails
  <2> QED BY <1>1, <1>3, <1>4, <1>5, <2>1, EndIsCurrent
<1> QED BY <1>6, <1>7

\* Who enters the handler makes its key busy.
LEMMA EntryIsCurrent ==
  ASSUME IInv, CurrentInv, NEW t \in Threads, jobs[t] = Idle, NEW k \in Keys,
         NEW v \in Values \X Values, Enter(t, k, v), todo \ {k} \subseteq todo',
         UNCHANGED <<ram, flash, lock, boot, failed>>
  PROVE  CurrentInv'
<1>1. /\ jobs'[t].key = k /\ jobs'[t].at # "write" /\ jobs[t].key = None
      /\ \A u \in Threads \ {t} : /\ jobs'[u].key = jobs[u].key /\ jobs'[u].at = jobs[u].at
                                  /\ jobs'[u].half = jobs[u].half
  <2>1. jobs \in [Threads -> Job] /\ jobs[t].key = None
    BY DEF IInv, TypeOK, Idle
  <2>2. jobs'[t].key = k /\ jobs'[t].at \in {"zero", "first"}
    BY <2>1, Enters
  <2>3. \A u \in Threads \ {t} : /\ jobs'[u].key = jobs[u].key /\ jobs'[u].at = jobs[u].at
                                  /\ jobs'[u].half = jobs[u].half
    BY <2>1, Enters
  <2> QED BY <2>1, <2>2, <2>3
<1>2. ASSUME NEW u \in Threads, jobs'[u].at = "write", Alone(u)'
      PROVE  jobs'[u].half = ram'[jobs'[u].key][1]
  <2>1. u # t /\ jobs[u].at = "write" /\ jobs[u].key # None
    BY <1>1, <1>2 DEF IInv, JobInv
  <2>2. Alone(u)
    BY <1>1, <1>2, <2>1 DEF Alone
  <2> QED BY <1>1, <2>1, <2>2 DEF CurrentInv
<1>3. ASSUME NEW x \in Keys, ~Busy(x)', ~failed'[x]
      PROVE  (ram[x] = Stored(x) \/ Waits(x))'
  <2>1. x # k /\ x # None
    BY <1>1, <1>3, Constants DEF Busy
  <2>2. ~Busy(x)
    BY <1>1, <1>3, <2>1 DEF Busy
  <2> QED BY <1>3, <2>1, <2>2 DEF CurrentInv, Stored, Default, Waits
<1> QED BY <1>2, <1>3 DEF CurrentInv

LEMMA SetIsCurrent ==
  ASSUME IInv, CurrentInv, ShellSet \/ setting_lora
  PROVE  CurrentInv'
<1>1. PICK t \in Threads, k \in Keys, v \in Values : Set(t, k, v)
  <2>1. "shell" \in Threads /\ "lora" \in Threads
    BY DEF Threads
  <2>2. CASE ShellSet
    BY <2>1, <2>2, Constants DEF ShellSet
  <2>3. CASE setting_lora
    <3>1. \A v \in 1..NameSize : v \in Values
      BY Constants
    <3> QED BY <2>1, <2>3, <3>1, Constants DEF setting_lora
  <2> QED BY <2>2, <2>3
<1>2. /\ jobs[t] = Idle /\ Enter(t, k, Whole(v)) /\ Whole(v) \in Values \X Values
      /\ UNCHANGED <<ram, flash, lock, boot, todo, failed>>
  BY <1>1 DEF Set, Whole
<1> QED BY <1>2, EntryIsCurrent

\* The boot: an entry is handed over or refused, and the last load leaves none behind.
LEMMA LoadIsCurrent ==
  ASSUME IInv, CurrentInv, LoadBegins \/ LoadEntry \/ LoadEnds
  PROVE  CurrentInv'
<1>1. CASE LoadBegins
  <2>1. /\ boot # "up" /\ todo' = {k \in Subtree : flash[k] # None}
        /\ UNCHANGED <<ram, flash, jobs, boot, failed>>
    BY <1>1 DEF LoadBegins
  <2>2. boot = "all" => Subtree = Keys
    BY DEF Subtree
  <2>3. \A x \in Keys : (Stored(x)' = Stored(x)) /\ (Waits(x) => Waits(x)')
    BY <2>1, <2>2 DEF Stored, Default, Waits
  <2> QED BY <2>1, <2>3 DEF CurrentInv, Busy, Alone
<1>2. CASE LoadEntry
  <2>1. PICK k \in todo :
          /\ jobs["main"] = Idle /\ todo' = todo \ {k}
          /\ \/ Enter("main", k, flash[k]) /\ UNCHANGED failed
             \/ k = Name /\ failed' = [failed EXCEPT ![k] = TRUE] /\ UNCHANGED jobs
          /\ UNCHANGED <<ram, flash, lock, boot>>
    BY <1>2 DEF LoadEntry
  <2>2. k \in Keys /\ "main" \in Threads /\ flash[k] \in Values \X Values
    BY <2>1 DEF IInv, TypeOK, JobInv, Threads
  <2>3. CASE Enter("main", k, flash[k]) /\ UNCHANGED failed
    BY <2>1, <2>2, <2>3, EntryIsCurrent
  <2>4. CASE failed' = [failed EXCEPT ![k] = TRUE] /\ UNCHANGED jobs
    <3>1. failed'[k] = TRUE /\ \A x \in Keys \ {k} : failed'[x] = failed[x]
      BY <2>2, <2>4 DEF IInv, TypeOK
    <3>2. \A x \in Keys \ {k} : (Stored(x)' = Stored(x)) /\ (Waits(x) => Waits(x)')
      BY <2>1 DEF Stored, Default, Waits
    <3> QED BY <2>1, <2>4, <3>1, <3>2 DEF CurrentInv, Busy, Alone
  <2> QED BY <2>1, <2>3, <2>4
<1>3. CASE LoadEnds
  <2>1. /\ lock = "main" /\ lock' = None /\ todo = {}
        /\ boot' = CASE boot = "lora_keys" -> "app" [] boot = "app" -> "all" [] boot = "all" -> "up"
        /\ UNCHANGED <<ram, flash, jobs, failed>>
    BY <1>3 DEF LoadEnds
  <2>2. boot \in {"lora_keys", "app", "all"} /\ None # "main"
    BY <2>1, Constants DEF IInv, TypeOK, JobInv, Threads
  <2>3. \A x \in Keys : (Stored(x)' = Stored(x)) /\ (Waits(x) => Waits(x)')
    BY <2>1, <2>2 DEF Stored, Default, Waits
  <2> QED BY <2>1, <2>3 DEF CurrentInv, Busy, Alone
<1> QED BY <1>1, <1>2, <1>3

\* After a reset RAM holds the defaults, and what is in flash waits for the loads.
LEMMA ResetIsCurrent ==
  ASSUME IInv, CurrentInv, Reset
  PROVE  CurrentInv'
<1>1. /\ ram' = [k \in Keys |-> Default(k)] /\ jobs' = [t \in Threads |-> Idle]
      /\ boot' = "lora_keys" /\ flash' = flash
  BY DEF Reset
<1>2. \A t \in Threads : jobs'[t].at # "write"
  BY <1>1 DEF Idle
<1>3. \A k \in Keys : (ram[k] = Stored(k) \/ Waits(k))'
  BY <1>1 DEF Stored, Default, Waits
<1> QED BY <1>2, <1>3 DEF CurrentInv

\* Once the device is up, RAM and flash agree on every key that nobody is changing and
\* whose last access did not fail, whatever threads did in the unlocked handler at once,
\* for any number of sets and resets (settings.c:61, 189).
THEOREM RamIsStored == Spec => []StoredIsCurrent
<1>1. Init => CurrentInv
  <2> SUFFICES ASSUME Init PROVE CurrentInv
    OBVIOUS
  <2>1. \A t \in Threads : jobs[t].at # "write"
    BY DEF Init, Idle
  <2>2. \A k \in Keys : ram[k] = Stored(k)
    BY DEF Init, Stored
  <2> QED BY <2>1, <2>2 DEF CurrentInv
<1>2. IInv /\ CurrentInv /\ [Next]_vars => CurrentInv'
  <2> SUFFICES ASSUME IInv, CurrentInv, [Next]_vars PROVE CurrentInv'
    OBVIOUS
  <2>1. ASSUME UNCHANGED <<ram, flash, jobs, lock, boot, todo, failed>> PROVE CurrentInv'
    <3>1. \A x \in Keys : (Stored(x)' = Stored(x)) /\ (Waits(x)' <=> Waits(x))
      BY <2>1 DEF Stored, Default, Waits
    <3> QED BY <2>1, <3>1 DEF CurrentInv, Busy, Alone
  <2>2. CASE Boots
    <3>1. "main" \in Threads
      BY DEF Threads
    <3>2. CASE lora_setup
      BY <2>1, <3>2 DEF lora_setup
    <3> QED BY <2>2, <3>1, <3>2, LoadIsCurrent, ReturnIsCurrent DEF Boots
  <2>3. CASE ShellSet \/ setting_lora
    BY <2>3, SetIsCurrent
  <2>4. CASE lora_keys_clear
    <3>1. flash' = [k \in Keys |-> IF k = "lora_keys" THEN None ELSE flash[k]] \/ flash' = flash
      BY <2>4 DEF lora_keys_clear, settings_delete
    <3>2. flash' = flash
      BY <3>1, Constants DEF IInv, TypeOK
    <3> QED BY <2>1, <2>4, <3>2 DEF lora_keys_clear
  <2>5. CASE Reset
    BY <2>5, ResetIsCurrent
  <2>6. ASSUME NEW t \in Threads, handle_set(t) PROVE CurrentInv'
    BY <2>6, HandlerIsCurrent, ReturnIsCurrent DEF handle_set
  <2>7. CASE UNCHANGED vars
    BY <2>1, <2>7 DEF vars
  <2> QED BY <2>2, <2>3, <2>4, <2>5, <2>6, <2>7 DEF Next
<1>3. CurrentInv => StoredIsCurrent
  BY DEF CurrentInv, StoredIsCurrent, Stored, Waits
<1> QED BY <1>1, <1>2, <1>3, Inductive, PTL DEF Spec
=============================================================================
