-------------------------- MODULE SystemClockProofs --------------------------
(***************************************************************************)
(* Proofs about the clock, for every number of processors, readers and     *)
(* setters, every size of the low part, every increment and every time     *)
(* that is set.                                                            *)
(*                                                                         *)
(* The inductive invariant is built up in four parts: what each actor may  *)
(* be doing (TaskInv), what the three words of a time hold while an actor  *)
(* replaces it (WordInv), what a reader can have loaded of it (Reads), and *)
(* what the handler and SetSystemTime still owe each other (Uptime).  Each *)
(* part is preserved given the ones before it.                             *)
(*                                                                         *)
(* ReadTimes and Uptimes are about setters on the boot processor.  There   *)
(* HIGH_LEVEL keeps the handler out while the system time is set; on any   *)
(* other processor nothing does, and two actors write the same words.      *)
(***************************************************************************)
EXTENDS SystemClock, TLAPS

USE ActorsAssumption, SizesAssumption

(* Division by the number of values of the low part.                       *)
LEMMA Parts ==
  ASSUME NEW t \in Nat
  PROVE  /\ High(t) \in Nat /\ Low(t) \in 0 .. LowSize - 1
         /\ t = High(t) * LowSize + Low(t)
  BY DEF High, Low

(* Two parts make one time, with these parts.                              *)
LEMMA PartsUnique ==
  ASSUME NEW h \in Nat, NEW l \in 0 .. LowSize - 1
  PROVE  /\ h * LowSize + l \in Nat
         /\ High(h * LowSize + l) = h
         /\ Low(h * LowSize + l) = l
  BY DEF High, Low

(* A later time has no smaller high part.                                  *)
LEMMA HighMonotonic ==
  ASSUME NEW s \in Nat, NEW t \in Nat, s <= t
  PROVE  High(s) <= High(t)
  BY DEF High

(* The high part goes on by one exactly when the low part is carried.      *)
LEMMA HighNext ==
  ASSUME NEW t \in Nat
  PROVE  High(t) = IF Low(t + 1) = 0 THEN High(t + 1) - 1 ELSE High(t + 1)
  BY DEF High, Low

-----------------------------------------------------------------------------
(* What a step does to the actors: actor x goes on as r, and the others    *)
(* are left alone, or note a store in the bounds of their reads.           *)

Only(x, r) ==
  /\ act' \in [Actors -> Activity]
  /\ act'[x] = r
  /\ \A b \in Actors : b # x => act'[b] = act[b]

(* What an activity is after it began to store, and went on to.            *)
StoreOf(a, v, t, r) ==
  a \in Activity /\ r = [a EXCEPT !.pc = "store low", !.word = v, !.new = t]

Storer(a, v, t, r) ==
  /\ r.pc = "store low" /\ r.word = v /\ r.new = t
  /\ r.value = a.value /\ r.task = a.task

LEMMA StoreFields ==
  ASSUME NEW a, NEW v, NEW t, NEW r, StoreOf(a, v, t, r)
  PROVE  Storer(a, v, t, r)
<1>1. DOMAIN a = {"pc", "task", "word", "high", "low", "value", "from", "upto", "back", "new", "step"}
  BY DEF StoreOf, Activity
<1> QED BY <1>1 DEF StoreOf, Storer

LEMMA StoreGoesOn ==
  ASSUME NEW a \in Activity, NEW p
  PROVE  LET r == [a EXCEPT !.pc = p]
         IN  r.pc = p /\ r.word = a.word /\ r.new = a.new /\ r.value = a.value /\ r.task = a.task
<1>1. DOMAIN a = {"pc", "task", "word", "high", "low", "value", "from", "upto", "back", "new", "step"}
  BY DEF Activity
<1> QED BY <1>1

(* One actor goes on, in the terms of Only.                                *)
LEMMA Update ==
  ASSUME act \in [Actors -> Activity], NEW x \in Actors, NEW r \in Activity,
         act' = [act EXCEPT ![x] = r]
  PROVE  Only(x, r)
  BY DEF Only

(* The fields that tell what an actor does.                                *)
Like(r, s) ==
  /\ r.pc = s.pc /\ r.task = s.task /\ r.word = s.word
  /\ r.high = s.high /\ r.low = s.low /\ r.value = s.value
  /\ r.new = s.new /\ r.step = s.step

(* Noting a store leaves an activity well typed and otherwise as it was.   *)
LEMMA NotedLike ==
  ASSUME NEW r \in Activity, NEW a \in Actors, NEW w \in Words, NEW t \in Nat,
         NEW current \in Nat, act[a] \in Activity
  PROVE  Noted(r, a, w, t, current) \in Activity /\ Like(Noted(r, a, w, t, current), r)
<1>1. CASE r.pc \in {"high1", "low", "high2"} /\ r.word = w
  <2> DEFINE f == IF current < r.from THEN current ELSE r.from
             u == IF current > r.upto THEN current ELSE r.upto
             b == r.back \/ t < act[a].value
             n == [r EXCEPT !.from = f, !.upto = u, !.back = b]
  <2>1. f \in Nat /\ u \in Nat /\ b \in BOOLEAN
    BY DEF Activity
  <2>2. Noted(r, a, w, t, current) = n
    BY <1>1 DEF Noted
  <2> HIDE DEF f, u, b
  <2>3. n \in Activity /\ Like(n, r)
    BY <2>1 DEF Activity, Like
  <2> QED BY <2>2, <2>3
<1>2. CASE ~(r.pc \in {"high1", "low", "high2"} /\ r.word = w)
  BY <1>2 DEF Noted, Like
<1> QED BY <1>1, <1>2

(* Actor x stores time t in word w and goes on as r.                       *)
Storing(x, r, w, t, current) ==
  /\ act' \in [Actors -> Activity]
  /\ act'[x] = r
  /\ \A b \in Actors : b # x =>
       act'[b] = Noted(act[b], x, w, t, current) /\ Like(act'[b], act[b])

(* One actor goes on after a store, in the terms of Storing.               *)
LEMMA StoreUpdate ==
  ASSUME act \in [Actors -> Activity], NEW x \in Actors, NEW r \in Activity,
         NEW w \in Words, NEW t \in Nat, NEW current \in Nat,
         act' = [b \in Actors |-> IF b = x THEN r ELSE Noted(act[b], x, w, t, current)]
  PROVE  Storing(x, r, w, t, current)
  BY NotedLike DEF Storing

(* A read that starts.                                                     *)
Fresh(r, task, w) ==
  /\ r \in Activity
  /\ r.pc = "high1" /\ r.task = task /\ r.word = w
  /\ r.from = now[w] /\ r.upto = now[w] /\ r.back = SettingBack(w)

(* Reading, by which reads begin, begins one in the sense of Fresh.        *)
LEMMA ReadingFresh ==
  ASSUME TypeOK, NEW task \in {"none", "read", "set", "clock"}, NEW w \in Words
  PROVE  Fresh(Reading(task, w), task, w)
<1>1. now[w] \in Nat /\ SettingBack(w) \in BOOLEAN
  BY DEF TypeOK, SettingBack
<1> DEFINE b == SettingBack(w)
<1>2. Reading(task, w) = [Idle EXCEPT !.pc = "high1", !.task = task, !.word = w,
                            !.from = now[w], !.upto = now[w], !.back = b]
  BY DEF Reading
<1>3. b \in BOOLEAN
  BY <1>1
<1> HIDE DEF b
<1>4. PICK e : e = [pc |-> "high1", task |-> task, word |-> w, high |-> 0, low |-> 0, value |-> 0,
                   from |-> now[w], upto |-> now[w], back |-> b, new |-> 0, step |-> 0]
  OBVIOUS
<1>5. Reading(task, w) \in Activity
  <2>1. Reading(task, w) = e
    BY <1>2, <1>4 DEF Idle
  <2>2. 0 \in 0 .. LowSize - 1 /\ 0 \in 0 .. TimeIncrement + 1
    <3>1. Idle \in Activity
      BY DEF Idle, Activity, Words
    <3> QED BY <3>1 DEF Idle, Activity
  <2>3. e \in Activity
    BY <1>1, <1>3, <1>4, <2>2 DEF Activity
  <2> QED BY <2>1, <2>3
<1>6. /\ Reading(task, w).pc = "high1" /\ Reading(task, w).task = task
      /\ Reading(task, w).word = w
      /\ Reading(task, w).from = now[w] /\ Reading(task, w).upto = now[w]
      /\ Reading(task, w).back = b
  BY <1>1, <1>2, <1>3 DEF Idle
<1> QED BY <1>5, <1>6 DEF Fresh, b

(* The effect of each step.                                                *)
LEMMA ReadHigh1Effect ==
  ASSUME TypeOK, NEW x \in Actors, ReadHigh1(x)
  PROVE  /\ act[x].pc = "high1"
         /\ Only(x, [act[x] EXCEPT !.pc = "low", !.high = shared[act[x].word].high1])
         /\ act'[x] \in Activity
<1> DEFINE r == [act[x] EXCEPT !.pc = "low", !.high = shared[act[x].word].high1]
<1>1. act' = [act EXCEPT ![x] = r]
  BY DEF ReadHigh1
<1>2. act[x] \in Activity /\ shared[act[x].word].high1 \in Nat
  BY DEF TypeOK, Activity, Time
<1>3. r \in Activity
  BY <1>2 DEF Activity
<1> QED BY <1>1, <1>3, Update DEF ReadHigh1, TypeOK, Only

(* The second load.                                                        *)
LEMMA ReadLowEffect ==
  ASSUME TypeOK, NEW x \in Actors, ReadLow(x)
  PROVE  /\ act[x].pc = "low"
         /\ Only(x, [act[x] EXCEPT !.pc = "high2", !.low = shared[act[x].word].low])
         /\ act'[x] \in Activity
<1> DEFINE r == [act[x] EXCEPT !.pc = "high2", !.low = shared[act[x].word].low]
<1>1. act' = [act EXCEPT ![x] = r]
  BY DEF ReadLow
<1>2. act[x] \in Activity /\ shared[act[x].word].low \in 0 .. LowSize - 1
  BY DEF TypeOK, Activity, Time
<1>3. r \in Activity
  BY <1>2 DEF Activity
<1> QED BY <1>1, <1>3, Update DEF ReadLow, TypeOK, Only

Compared(x) ==
  IF act[x].high = shared[act[x].word].high2
  THEN [act[x] EXCEPT !.pc = "got", !.value = act[x].high * LowSize + act[x].low]
  ELSE [act[x] EXCEPT !.pc = "high1"]

(* The comparison of the high parts, by which a read ends or begins again. *)
LEMMA CompareEffect ==
  ASSUME TypeOK, NEW x \in Actors, CompareHigh2(x)
  PROVE  act[x].pc = "high2" /\ Only(x, Compared(x)) /\ act'[x] \in Activity
<1>1. act[x] \in Activity /\ act[x].high * LowSize + act[x].low \in Nat
  BY PartsUnique DEF TypeOK, Activity
<1>2. Compared(x) \in Activity
  BY <1>1 DEF Activity, Compared
<1>3. act' = [act EXCEPT ![x] = Compared(x)]
  <2>1. act' = [act EXCEPT ![x] = [act[x] EXCEPT
                  !.pc = IF act[x].high = shared[act[x].word].high2 THEN "got" ELSE "high1",
                  !.value = IF act[x].high = shared[act[x].word].high2
                            THEN act[x].high * LowSize + act[x].low ELSE act[x].value]]
    BY DEF CompareHigh2, CompareWith
  <2>2. [act[x] EXCEPT !.pc = "high1", !.value = act[x].value] = [act[x] EXCEPT !.pc = "high1"]
    BY <1>1 DEF Activity
  <2> QED BY <2>1, <2>2 DEF Compared
<1> QED BY <1>2, <1>3, Update DEF CompareHigh2, CompareWith, TypeOK, Only

(* The words after the store of a time in word w.                          *)
Stored(w, r) ==
  /\ shared' \in [Words -> Time]
  /\ shared'[w] = r
  /\ \A v \in Words : v # w => shared'[v] = shared[v]

(* A store into one of the three fields changes one time only.             *)
LEMMA SharedUpdate ==
  ASSUME TypeOK, NEW w \in Words, NEW h \in Nat
  PROVE  /\ shared' = [shared EXCEPT ![w].high1 = h] => Stored(w, [shared[w] EXCEPT !.high1 = h])
         /\ shared' = [shared EXCEPT ![w].high2 = h] => Stored(w, [shared[w] EXCEPT !.high2 = h])
         /\ h \in 0 .. LowSize - 1 /\ shared' = [shared EXCEPT ![w].low = h]
              => Stored(w, [shared[w] EXCEPT !.low = h])
<1>1. shared \in [Words -> Time] /\ shared[w] \in Time
  BY DEF TypeOK
<1>2. /\ [shared[w] EXCEPT !.high1 = h] \in Time
      /\ [shared[w] EXCEPT !.high2 = h] \in Time
      /\ h \in 0 .. LowSize - 1 => [shared[w] EXCEPT !.low = h] \in Time
  BY <1>1 DEF Time
<1> QED BY <1>1, <1>2 DEF Stored

(* The second store, from which on the word stands for the new time.       *)
LEMMA StoreLowEffect ==
  ASSUME TypeOK, NEW x \in Actors, StoreLow(x)
  PROVE  /\ act[x].pc = "store low" /\ act[x].word \in Words /\ act[x].new \in Nat
         /\ Storing(x, [act[x] EXCEPT !.pc = "store high1"], act[x].word, act[x].new, act[x].new)
         /\ act'[x] \in Activity
         /\ Stored(act[x].word, [shared[act[x].word] EXCEPT !.low = Low(act[x].new)])
<1> DEFINE r == [act[x] EXCEPT !.pc = "store high1"]
<1>0. act[x] \in Activity /\ act[x].word \in Words /\ act[x].new \in Nat
  BY DEF TypeOK, Activity
<1>1. r \in Activity
  BY <1>0 DEF Activity
<1>2. act' = [b \in Actors |-> IF b = x THEN r
                               ELSE Noted(act[b], x, act[x].word, act[x].new, act[x].new)]
  BY DEF StoreLow
<1> HIDE DEF r
<1>3. Storing(x, r, act[x].word, act[x].new, act[x].new)
  BY <1>0, <1>1, <1>2, StoreUpdate DEF TypeOK
<1>4. Stored(act[x].word, [shared[act[x].word] EXCEPT !.low = Low(act[x].new)])
  <2>1. Low(act[x].new) \in 0 .. LowSize - 1 /\ Low(act[x].new) \in Nat
    BY <1>0, Parts, SMTT(30)
  <2>2. shared' = [shared EXCEPT ![act[x].word].low = Low(act[x].new)]
    BY DEF StoreLow
  <2> QED BY <1>0, <2>1, <2>2, SharedUpdate
<1> QED BY <1>0, <1>1, <1>3, <1>4 DEF Storing, r, StoreLow

(* The first store, of a sum or of a new time.                             *)
LEMMA StoreHigh2Effect ==
  ASSUME TypeOK, NEW x \in Actors, NEW w \in Words, NEW t \in Nat, StoreHigh2(x, w, t)
  PROVE  /\ Storing(x, [act[x] EXCEPT !.pc = "store low", !.word = w, !.new = t], w, t, now[w])
         /\ act'[x] \in Activity
         /\ Stored(w, [shared[w] EXCEPT !.high2 = High(t)])
<1> DEFINE r == [act[x] EXCEPT !.pc = "store low", !.word = w, !.new = t]
<1>0. act[x] \in Activity /\ now[w] \in Nat
  BY DEF TypeOK
<1>1. r \in Activity
  BY <1>0 DEF Activity
<1>2. act' = [b \in Actors |-> IF b = x THEN r ELSE Noted(act[b], x, w, t, now[w])]
  BY DEF StoreHigh2
<1> HIDE DEF r
<1>3. Storing(x, r, w, t, now[w])
  BY <1>0, <1>1, <1>2, StoreUpdate DEF TypeOK
<1>4. Stored(w, [shared[w] EXCEPT !.high2 = High(t)])
  <2>1. High(t) \in Nat
    BY Parts
  <2>2. shared' = [shared EXCEPT ![w].high2 = High(t)]
    BY DEF StoreHigh2
  <2> QED BY <2>1, <2>2, SharedUpdate
<1> QED BY <1>0, <1>1, <1>3, <1>4 DEF Storing, r

(* The third store, after which the actor goes on as next.                 *)
LEMMA StoreHigh1Effect ==
  ASSUME TypeOK, NEW x \in Actors, NEW task, NEW w \in Words, NEW next \in Activity,
         StoreHigh1(x, task, w, next)
  PROVE  /\ act[x].pc = "store high1" /\ act[x].task = task /\ act[x].word = w
         /\ Only(x, next) /\ act'[x] \in Activity
         /\ Stored(w, [shared[w] EXCEPT !.high1 = High(act[x].new)])
<1>1. act' = [act EXCEPT ![x] = next]
  BY DEF StoreHigh1
<1>2. Stored(w, [shared[w] EXCEPT !.high1 = High(act[x].new)])
  <2>1. act[x].new \in Nat
    BY DEF TypeOK, Activity
  <2>2. High(act[x].new) \in Nat
    BY <2>1, Parts
  <2>3. shared' = [shared EXCEPT ![w].high1 = High(act[x].new)]
    BY DEF StoreHigh1
  <2> QED BY <2>2, <2>3, SharedUpdate
<1> QED BY <1>1, <1>2, Update DEF StoreHigh1, TypeOK, Only

(* Steps that begin something, with a fresh read.                          *)
LEMMA BeginEffect ==
  ASSUME TypeOK, NEW x \in Actors, NEW r \in Activity, act' = [act EXCEPT ![x] = r]
  PROVE  Only(x, r) /\ act'[x] \in Activity
  BY Update DEF TypeOK, Only

(* An idle actor is well typed.                                            *)
LEMMA IdleType == Idle \in Activity
  BY DEF Idle, Activity, Words

-----------------------------------------------------------------------------
(* What each actor does, and when.                                         *)

TasksOf(r, a) ==
  /\ r.pc = "idle" <=> r.task = "none"
  /\ a \in Cpus =>
       /\ r.task # "clock"
       /\ r.task = "set" => a \in Setters /\ r.word = "system"
       /\ r.pc \notin {"budget", "count"}
       /\ r.pc \in {"store low", "store high1"} => r.task = "set"
       /\ r.word = "tick" => r.pc \in {"idle", "got"}
  /\ a = Clock =>
       /\ r.task \in {"none", "clock"}
       /\ r.word = "tick" => r.pc \in {"store low", "store high1", "idle"}
       /\ r.pc = "budget" => r.word = "interrupt"
       /\ r.pc = "count" => r.word = "system"

Tasks == \A a \in Actors : TasksOf(act[a], a)

(* The handler does not stop a thread that sets the time.                  *)
Exclusive == act[Clock].pc # "idle" => act[Boot].task # "set"

TaskInv == TypeOK /\ Tasks /\ Exclusive

(* Initially nobody does anything.                                         *)
LEMMA InitTasks == Init => TaskInv
<1> SUFFICES ASSUME Init PROVE TaskInv
  OBVIOUS
<1>1. TypeOK
  <2>1. shared \in [Words -> Time]
    BY DEF Init, Time
  <2> QED BY <2>1, IdleType DEF Init, TypeOK, MaximumIncrement
<1>2. Tasks /\ Exclusive
  BY DEF Init, Tasks, TasksOf, Exclusive, Idle, Actors
<1> QED BY <1>1, <1>2 DEF TaskInv

(* The tasks are kept by a step of which the actor's own part is known.    *)
LEMMA OnlyTasks ==
  ASSUME TaskInv, NEW x \in Actors, NEW r \in Activity, Only(x, r), TasksOf(r, x),
         x = Clock /\ r.pc # "idle" => act[Boot].task # "set",
         x = Boot /\ r.task = "set" => act[Clock].pc = "idle"
  PROVE  (\A a \in Actors : act'[a] \in Activity) /\ Tasks' /\ Exclusive'
<1>1. act'[Clock] = IF x = Clock THEN r ELSE act[Clock]
  BY DEF Only, Actors
<1>2. act'[Boot] = IF x = Boot THEN r ELSE act[Boot]
  BY DEF Only, Actors
<1> QED BY <1>1, <1>2 DEF Only, TaskInv, Tasks, Exclusive

(* The tasks are kept by a store, which changes only the bounds of reads.  *)
LEMMA StoringTasks ==
  ASSUME TaskInv, NEW x \in Actors, NEW r \in Activity, NEW w, NEW t, NEW current,
         Storing(x, r, w, t, current), act'[x] \in Activity, TasksOf(r, x),
         x = Clock => act[Boot].task # "set",
         x = Boot /\ r.task = "set" => act[Clock].pc = "idle"
  PROVE  Tasks' /\ Exclusive'
<1>1. \A a \in Actors : a # x => Like(act'[a], act[a])
  BY DEF Storing
<1>2. ASSUME NEW a \in Actors, a # x PROVE TasksOf(act'[a], a)
  <2>1. TasksOf(act[a], a) /\ Like(act'[a], act[a])
    BY <1>1, <1>2 DEF TaskInv, Tasks
  <2> QED BY <2>1 DEF TasksOf, Like
<1>3. Tasks'
  BY <1>2 DEF Storing, Tasks
<1>4. Exclusive'
  BY <1>1 DEF Storing, TaskInv, Exclusive, Like, Actors
<1> QED BY <1>3, <1>4

(* Every step keeps the types, the tasks, and HIGH_LEVEL free of the       *)
(* handler.                                                                *)
LEMMA NextTasks == TaskInv /\ [Next]_vars => TaskInv'
<1> SUFFICES ASSUME TaskInv, [Next]_vars PROVE TaskInv'
  OBVIOUS
<1>0. /\ TypeOK /\ Tasks /\ Exclusive
      /\ \A a \in Actors : act[a] \in Activity
      /\ act[Clock] \in Activity
      /\ Clock \in Actors /\ Boot \in Actors /\ Cpus \subseteq Actors /\ Clock \notin Cpus
      /\ Words = {"interrupt", "system", "tick"}
  BY DEF TaskInv, TypeOK, Actors, Words
<1>1. CASE HandleClockInterrupt
  <2> DEFINE s == IF running + Fraction >= FractionUnit THEN TimeIncrement + 1 ELSE TimeIncrement
             r == [Reading("clock", "interrupt") EXCEPT !.step = s]
  <2>1. Fresh(Reading("clock", "interrupt"), "clock", "interrupt")
    BY <1>0, ReadingFresh
  <2>2. s \in 0 .. TimeIncrement + 1
    OBVIOUS
  <2>3. act' = [act EXCEPT ![Clock] = r]
    BY <1>1 DEF HandleClockInterrupt, InterruptUnmasked
  <2> HIDE DEF s
  <2>4. r \in Activity /\ r.pc = "high1" /\ r.task = "clock" /\ r.word = "interrupt"
    BY <2>1, <2>2 DEF Fresh, Activity
  <2> HIDE DEF r
  <2>5. Only(Clock, r)
    BY <1>0, <2>3, <2>4, BeginEffect
  <2>6. TasksOf(r, Clock) /\ act[Boot].task # "set"
    BY <1>0, <1>1, <2>4 DEF TasksOf, HandleClockInterrupt
  <2>7. Tasks' /\ Exclusive'
    BY <1>0, <2>4, <2>5, <2>6, OnlyTasks
  <2>8. TypeOK'
    BY <1>0, <1>1, <2>5 DEF HandleClockInterrupt, InterruptUnmasked, TypeOK, Only, times, FractionLeft
  <2> QED BY <2>7, <2>8 DEF TaskInv
<1>2. ASSUME NEW a \in Actors, ReadHigh1(a) PROVE TaskInv'
  <2> DEFINE r == [act[a] EXCEPT !.pc = "low", !.high = shared[act[a].word].high1]
  <2>1. act[a].pc = "high1" /\ Only(a, r) /\ r \in Activity
    BY <1>0, <1>2, ReadHigh1Effect DEF Only
  <2>2. TasksOf(r, a) /\ r.task = act[a].task
    <3>1. act[a] \in Activity /\ TasksOf(act[a], a)
      BY <1>0 DEF Tasks
    <3> QED BY <2>1, <3>1 DEF TasksOf, Activity
  <2>3. Tasks' /\ Exclusive'
    BY <1>0, <2>1, <2>2, OnlyTasks DEF Exclusive
  <2>4. TypeOK'
    BY <1>0, <1>2, <2>1 DEF ReadHigh1, TypeOK, Only, times
  <2> QED BY <2>3, <2>4 DEF TaskInv
<1>3. ASSUME NEW a \in Actors, ReadLow(a) PROVE TaskInv'
  <2> DEFINE r == [act[a] EXCEPT !.pc = "high2", !.low = shared[act[a].word].low]
  <2>1. act[a].pc = "low" /\ Only(a, r) /\ r \in Activity
    BY <1>0, <1>3, ReadLowEffect DEF Only
  <2>2. TasksOf(r, a) /\ r.task = act[a].task
    <3>1. act[a] \in Activity /\ TasksOf(act[a], a)
      BY <1>0 DEF Tasks
    <3> QED BY <2>1, <3>1 DEF TasksOf, Activity
  <2>3. Tasks' /\ Exclusive'
    BY <1>0, <2>1, <2>2, OnlyTasks DEF Exclusive
  <2>4. TypeOK'
    BY <1>0, <1>3, <2>1 DEF ReadLow, TypeOK, Only, times
  <2> QED BY <2>3, <2>4 DEF TaskInv
<1>4. ASSUME NEW a \in Actors, CompareHigh2(a) PROVE TaskInv'
  <2>1. act[a].pc = "high2" /\ Only(a, Compared(a)) /\ Compared(a) \in Activity
    BY <1>0, <1>4, CompareEffect DEF Only
  <2>2. /\ Compared(a).task = act[a].task /\ Compared(a).word = act[a].word
        /\ Compared(a).pc \in {"got", "high1"}
    <3>1. act[a] \in Activity
      BY <1>0
    <3> QED BY <3>1 DEF Activity, Compared
  <2>3. TasksOf(Compared(a), a)
    <3>1. TasksOf(act[a], a)
      BY <1>0 DEF Tasks
    <3> QED BY <1>0, <2>1, <2>2, <3>1 DEF TasksOf
  <2>4. Tasks' /\ Exclusive'
    BY <1>0, <2>1, <2>2, <2>3, OnlyTasks DEF Exclusive
  <2>5. TypeOK'
    BY <1>0, <1>4, <2>1 DEF CompareHigh2, CompareWith, TypeOK, Only, times
  <2> QED BY <2>4, <2>5 DEF TaskInv
<1>5. ASSUME NEW a \in Actors, StoreLow(a), a = Boot => act[Clock].pc = "idle" PROVE TaskInv'
  <2> DEFINE r == [act[a] EXCEPT !.pc = "store high1"]
  <2>1. /\ act[a].pc = "store low" /\ act[a].word \in Words /\ act[a].new \in Nat
        /\ Storing(a, r, act[a].word, act[a].new, act[a].new) /\ r \in Activity
        /\ act'[a] \in Activity
    BY <1>0, <1>5, StoreLowEffect DEF Storing
  <2>2. TasksOf(r, a)
    <3>1. act[a] \in Activity /\ TasksOf(act[a], a)
      BY <1>0 DEF Tasks
    <3> QED BY <2>1, <3>1 DEF TasksOf, Activity
  <2>3. Tasks' /\ Exclusive'
    BY <1>0, <1>5, <2>1, <2>2, StoringTasks DEF Exclusive
  <2>4. Low(act[a].new) \in 0 .. LowSize - 1
    BY <2>1, Parts
  <2>5. shared' \in [Words -> Time] /\ now' \in [Words -> Nat]
    BY <1>0, <1>5, <2>1, StoreLowEffect DEF StoreLow, TypeOK, Stored
  <2>6. TypeOK'
    BY <1>0, <1>5, <2>1, <2>5 DEF StoreLow, TypeOK, Storing
  <2> QED BY <2>3, <2>6 DEF TaskInv
<1>6. ASSUME NEW w \in {"interrupt", "system"}, NEW by \in Nat, AdvanceTime(w, by) PROVE TaskInv'
  <2> DEFINE t == act[Clock].value + by
             r == [act[Clock] EXCEPT !.pc = "store low", !.word = w, !.new = t]
  <2>1. t \in Nat /\ High(t) \in Nat
    <3>1. act[Clock].value \in Nat
      BY <1>0 DEF Activity
    <3>2. t \in Nat
      BY <3>1
    <3> QED BY <3>2, Parts
  <2> HIDE DEF t
  <2>2. Storing(Clock, r, w, t, now[w]) /\ act'[Clock] \in Activity
    BY <1>0, <1>6, <2>1, StoreHigh2Effect DEF AdvanceTime, t
  <2>3. r \in Activity /\ act[Clock].pc = "got"
    BY <1>6, <2>2 DEF Storing, AdvanceTime
  <2>4. TasksOf(r, Clock)
    <3>1. act[Clock] \in Activity /\ TasksOf(act[Clock], Clock) /\ Clock \notin Cpus
      BY <1>0 DEF Tasks
    <3> QED BY <2>1, <2>3, <3>1 DEF TasksOf, Activity
  <2>5. Tasks' /\ Exclusive'
    BY <1>0, <2>2, <2>3, <2>4, StoringTasks DEF Exclusive
  <2>6. shared' \in [Words -> Time]
    BY <1>0, <1>6, <2>1, StoreHigh2Effect DEF AdvanceTime, t, Stored
  <2>7. TypeOK'
    BY <1>0, <1>6, <2>2, <2>6 DEF AdvanceTime, StoreHigh2, TypeOK, Storing
  <2> QED BY <2>5, <2>7 DEF TaskInv
<1>7. CASE EndInterruptTime
  <2> DEFINE r == [act[Clock] EXCEPT !.pc = "budget"]
  <2>1. r \in Activity
    <3>1. act[Clock] \in Activity
      BY <1>0
    <3> QED BY <3>1 DEF Activity
  <2>2. /\ act[Clock].pc = "store high1" /\ act[Clock].word = "interrupt" /\ Only(Clock, r)
    BY <1>0, <1>7, <2>1, StoreHigh1Effect DEF EndInterruptTime
  <2>3. TasksOf(r, Clock)
    <3>1. act[Clock] \in Activity /\ TasksOf(act[Clock], Clock) /\ Clock \notin Cpus
      BY <1>0 DEF Tasks
    <3> QED BY <2>1, <2>2, <3>1 DEF TasksOf, Activity
  <2>4. Tasks' /\ Exclusive'
    BY <1>0, <2>1, <2>2, <2>3, OnlyTasks DEF Exclusive
  <2>5. High(act[Clock].new) \in Nat
    BY <1>0, Parts DEF Activity
  <2>6. shared' \in [Words -> Time]
    BY <1>0, <1>7, <2>1, StoreHigh1Effect DEF EndInterruptTime, Stored
  <2>7. TypeOK'
    BY <1>0, <1>7, <2>2, <2>6 DEF EndInterruptTime, StoreHigh1, TypeOK, Only
  <2> QED BY <2>4, <2>7 DEF TaskInv
<1>8. CASE ConsumeBudget
  <2> DEFINE r == IF offset <= act[Clock].step THEN Reading("clock", "system") ELSE Idle
  <2>1. Fresh(Reading("clock", "system"), "clock", "system")
    BY <1>0, ReadingFresh
  <2>2. /\ r \in Activity
        /\ \/ r.pc = "high1" /\ r.task = "clock" /\ r.word = "system"
           \/ r.pc = "idle" /\ r.task = "none" /\ r.word = "interrupt"
    BY <2>1, IdleType DEF Fresh, Idle
  <2>3. act' = [act EXCEPT ![Clock] = r] /\ act[Clock].pc = "budget"
    BY <1>8 DEF ConsumeBudget
  <2> HIDE DEF r
  <2>4. Only(Clock, r)
    BY <1>0, <2>2, <2>3, BeginEffect
  <2>5. TasksOf(r, Clock)
    BY <1>0, <2>2 DEF TasksOf
  <2>6. Tasks' /\ Exclusive'
    BY <1>0, <2>2, <2>3, <2>4, <2>5, OnlyTasks DEF Exclusive
  <2>7. offset - act[Clock].step \in Int
    <3>1. offset \in Int /\ act[Clock] \in Activity
      BY <1>0 DEF TypeOK
    <3>2. act[Clock].step \in 0 .. TimeIncrement + 1
      BY <3>1 DEF Activity
    <3> QED BY <3>1, <3>2
  <2>8. TypeOK'
    BY <1>0, <1>8, <2>4, <2>7 DEF ConsumeBudget, TypeOK, Only, times
  <2> QED BY <2>6, <2>8 DEF TaskInv
<1>9. CASE EndSystemTime
  <2> DEFINE r == [act[Clock] EXCEPT !.pc = "count"]
  <2>1. r \in Activity
    <3>1. act[Clock] \in Activity
      BY <1>0
    <3> QED BY <3>1 DEF Activity
  <2>2. /\ act[Clock].pc = "store high1" /\ act[Clock].word = "system" /\ Only(Clock, r)
    BY <1>0, <1>9, <2>1, StoreHigh1Effect DEF EndSystemTime
  <2>3. TasksOf(r, Clock)
    <3>1. act[Clock] \in Activity /\ TasksOf(act[Clock], Clock) /\ Clock \notin Cpus
      BY <1>0 DEF Tasks
    <3> QED BY <2>1, <2>2, <3>1 DEF TasksOf, Activity
  <2>4. Tasks' /\ Exclusive'
    BY <1>0, <2>1, <2>2, <2>3, OnlyTasks DEF Exclusive
  <2>5. High(act[Clock].new) \in Nat
    BY <1>0, Parts DEF Activity
  <2>6. shared' \in [Words -> Time]
    BY <1>0, <1>9, <2>1, StoreHigh1Effect DEF EndSystemTime, Stored
  <2>7. TypeOK'
    BY <1>0, <1>9, <2>2, <2>6 DEF EndSystemTime, StoreHigh1, TypeOK, Only
  <2> QED BY <2>4, <2>7 DEF TaskInv
<1>10. CASE IncrementTickCount
  <2> DEFINE t == TickQuadword + 1
             r == [act[Clock] EXCEPT !.pc = "store low", !.word = "tick", !.new = t]
  <2>1. t \in Nat /\ High(t) \in Nat
    <3>1. shared["tick"].high1 \in Nat /\ shared["tick"].low \in 0 .. LowSize - 1
      BY <1>0 DEF TypeOK, Time
    <3>2. TickQuadword \in Nat
      BY <3>1, PartsUnique DEF TickQuadword
    <3> QED BY <3>2, Parts
  <2> HIDE DEF t
  <2>2. Storing(Clock, r, "tick", t, now["tick"]) /\ act'[Clock] \in Activity
    BY <1>0, <1>10, <2>1, StoreHigh2Effect DEF IncrementTickCount, t
  <2>3. r \in Activity /\ act[Clock].pc = "count"
    BY <1>10, <2>2 DEF Storing, IncrementTickCount
  <2>4. TasksOf(r, Clock)
    <3>1. act[Clock] \in Activity /\ TasksOf(act[Clock], Clock) /\ Clock \notin Cpus
      BY <1>0 DEF Tasks
    <3> QED BY <2>1, <2>3, <3>1 DEF TasksOf, Activity
  <2>5. Tasks' /\ Exclusive'
    BY <1>0, <2>2, <2>3, <2>4, StoringTasks DEF Exclusive
  <2>6. shared' \in [Words -> Time]
    BY <1>0, <1>10, <2>1, StoreHigh2Effect DEF IncrementTickCount, t, Stored
  <2>7. TypeOK'
    BY <1>0, <1>10, <2>2, <2>6 DEF IncrementTickCount, StoreHigh2, TypeOK, Storing
  <2> QED BY <2>5, <2>7 DEF TaskInv
<1>11. CASE EndTick
  <2>1. act[Clock].pc = "store high1" /\ act[Clock].word = "tick" /\ Only(Clock, Idle)
    BY <1>0, <1>11, IdleType, StoreHigh1Effect DEF EndTick
  <2>2. TasksOf(Idle, Clock)
    BY <1>0 DEF TasksOf, Idle
  <2>3. Tasks' /\ Exclusive'
    BY <1>0, <2>1, <2>2, IdleType, OnlyTasks DEF Idle
  <2>4. High(act[Clock].new) \in Nat
    BY <1>0, Parts DEF Activity
  <2>5. shared' \in [Words -> Time]
    BY <1>0, <1>11, IdleType, StoreHigh1Effect DEF EndTick, Stored
  <2>6. TypeOK'
    <3>1. offset' \in Int
      BY <1>0, <1>11 DEF EndTick, TypeOK, MaximumIncrement
    <3> QED BY <1>0, <1>11, <2>1, <2>5, <3>1 DEF EndTick, StoreHigh1, TypeOK, Only
  <2> QED BY <2>3, <2>6 DEF TaskInv
<1>12. ASSUME NEW a \in Cpus, InitializeLocalClock(a) \/ LocalInterrupt(a) PROVE TaskInv'
  <2>1. act' = act /\ TypeOK'
    BY <1>0, <1>12 DEF InitializeLocalClock, LocalInterrupt, times, TypeOK, FractionLeft,
                       MaximumIncrement
  <2> QED BY <1>0, <2>1 DEF TaskInv, Tasks, Exclusive
<1>13. ASSUME NEW a \in Cpus, NEW w \in {"interrupt", "system"}, StartRead(a, w) PROVE TaskInv'
  <2> DEFINE r == Reading("read", w)
  <2>1. Fresh(r, "read", w) /\ r \in Activity
    BY <1>0, ReadingFresh DEF Fresh
  <2>2. act' = [act EXCEPT ![a] = r]
    BY <1>13 DEF StartRead
  <2> HIDE DEF r
  <2>3. Only(a, r)
    BY <1>0, <2>1, <2>2, BeginEffect
  <2>4. TasksOf(r, a) /\ r.task = "read"
    BY <1>0, <2>1 DEF TasksOf, Fresh
  <2>5. Tasks' /\ Exclusive'
    BY <1>0, <2>1, <2>3, <2>4, OnlyTasks
  <2>6. TypeOK'
    BY <1>0, <1>13, <2>3 DEF StartRead, TypeOK, Only, times
  <2> QED BY <2>5, <2>6 DEF TaskInv
<1>14. ASSUME NEW a \in Cpus, GetTickCount(a) PROVE TaskInv'
  <2> DEFINE q == TickQuadword
             r == [Reading("read", "tick") EXCEPT !.pc = "got", !.value = q]
  <2>1. Fresh(Reading("read", "tick"), "read", "tick")
    BY <1>0, ReadingFresh
  <2>2. q \in Nat
    <3>1. shared["tick"].high1 \in Nat /\ shared["tick"].low \in 0 .. LowSize - 1
      BY <1>0 DEF TypeOK, Time
    <3> QED BY <3>1, PartsUnique DEF TickQuadword
  <2>3. act' = [act EXCEPT ![a] = r]
    BY <1>14 DEF GetTickCount
  <2> HIDE DEF q
  <2>4. r \in Activity /\ r.pc = "got" /\ r.task = "read" /\ r.word = "tick"
    BY <2>1, <2>2 DEF Fresh, Activity
  <2> HIDE DEF r
  <2>5. Only(a, r)
    BY <1>0, <2>3, <2>4, BeginEffect
  <2>6. TasksOf(r, a)
    BY <1>0, <2>4 DEF TasksOf
  <2>7. Tasks' /\ Exclusive'
    BY <1>0, <2>4, <2>5, <2>6, OnlyTasks
  <2>8. TypeOK'
    BY <1>0, <1>14, <2>5 DEF GetTickCount, TypeOK, Only, times
  <2> QED BY <2>7, <2>8 DEF TaskInv
<1>15. ASSUME NEW a \in Cpus, Return(a) PROVE TaskInv'
  <2>1. Only(a, Idle)
    BY <1>0, <1>15, IdleType, BeginEffect DEF Return
  <2>2. TasksOf(Idle, a) /\ Idle.task # "set"
    BY <1>0 DEF TasksOf, Idle
  <2>3. Tasks' /\ Exclusive'
    BY <1>0, <2>1, <2>2, IdleType, OnlyTasks
  <2>4. TypeOK'
    BY <1>0, <1>15, <2>1 DEF Return, TypeOK, Only, times
  <2> QED BY <2>3, <2>4 DEF TaskInv
<1>16. ASSUME NEW a \in Cpus, NEW t \in NewTimes, a = Boot => act[Clock].pc = "idle",
              StartSet(a, t)
       PROVE  TaskInv'
  <2> DEFINE r == [Reading("set", "system") EXCEPT !.new = t]
  <2>1. Fresh(Reading("set", "system"), "set", "system")
    BY <1>0, ReadingFresh
  <2>2. r \in Activity /\ r.pc = "high1" /\ r.task = "set" /\ r.word = "system"
    BY <2>1 DEF Fresh, Activity
  <2>3. act' = [act EXCEPT ![a] = r] /\ a \in Setters
    BY <1>16 DEF StartSet
  <2> HIDE DEF r
  <2>4. Only(a, r)
    BY <1>0, <2>2, <2>3, BeginEffect
  <2>5. TasksOf(r, a)
    BY <1>0, <2>2, <2>3 DEF TasksOf
  <2>6. Tasks' /\ Exclusive'
    BY <1>0, <1>16, <2>2, <2>4, <2>5, OnlyTasks
  <2>7. TypeOK'
    BY <1>0, <1>16, <2>4 DEF StartSet, TypeOK, Only, times
  <2> QED BY <2>6, <2>7 DEF TaskInv
<1>17. ASSUME NEW a \in Cpus, a = Boot => act[Clock].pc = "idle", StoreNewTime(a) PROVE TaskInv'
  <2> DEFINE t == act[a].new
             r == [act[a] EXCEPT !.pc = "store low", !.word = "system", !.new = t]
  <2>1. t \in Nat /\ High(t) \in Nat
    BY <1>0, Parts DEF Activity
  <2> HIDE DEF t
  <2>2. Storing(a, r, "system", t, now["system"]) /\ act'[a] \in Activity
    BY <1>0, <1>17, <2>1, StoreHigh2Effect DEF StoreNewTime, t
  <2>3. r \in Activity /\ act[a].pc = "got" /\ act[a].task = "set"
    BY <1>17, <2>2 DEF Storing, StoreNewTime
  <2>4. r.pc = "store low" /\ r.task = "set" /\ r.word = "system"
    <3>1. StoreOf(act[a], "system", t, r)
      BY <1>0 DEF StoreOf
    <3> HIDE DEF r
    <3>2. PICK e, s : e = act[a] /\ s = r
      OBVIOUS
    <3>3. StoreOf(e, "system", t, s)
      BY <3>1, <3>2
    <3>4. Storer(e, "system", t, s)
      BY <3>3, StoreFields, Zenon
    <3> QED BY <2>3, <3>2, <3>4 DEF Storer
  <2>5. TasksOf(r, a)
    BY <1>0, <2>3, <2>4 DEF Tasks, TasksOf
  <2>6. Tasks' /\ Exclusive'
    BY <1>0, <1>17, <2>2, <2>3, <2>5, StoringTasks
  <2>7. shared' \in [Words -> Time]
    BY <1>0, <1>17, <2>1, StoreHigh2Effect DEF StoreNewTime, t, Stored
  <2>8. TypeOK'
    BY <1>0, <1>17, <2>2, <2>7 DEF StoreNewTime, StoreHigh2, TypeOK, Storing
  <2> QED BY <2>6, <2>8 DEF TaskInv
<1>18. ASSUME NEW a \in Cpus, EndSet(a) PROVE TaskInv'
  <2>1. Only(a, Idle)
    BY <1>0, <1>18, IdleType, StoreHigh1Effect DEF EndSet, EndSetMoving
  <2>2. TasksOf(Idle, a) /\ Idle.task # "set"
    BY <1>0 DEF TasksOf, Idle
  <2>3. Tasks' /\ Exclusive'
    BY <1>0, <2>1, <2>2, IdleType, OnlyTasks
  <2>4. act[a].new \in Nat /\ act[a].value \in Nat /\ High(act[a].new) \in Nat
    BY <1>0, Parts DEF Activity
  <2>5. shared' \in [Words -> Time]
    BY <1>0, <1>18, IdleType, StoreHigh1Effect DEF EndSet, EndSetMoving, Stored
  <2>6. TypeOK'
    <3>1. bootTime' \in Int
      BY <1>0, <1>18, <2>4 DEF EndSet, EndSetMoving, TypeOK
    <3> QED BY <1>0, <1>18, <2>1, <2>5, <3>1 DEF EndSet, EndSetMoving, StoreHigh1, TypeOK, Only
  <2> QED BY <2>3, <2>6 DEF TaskInv
<1>19. CASE UNCHANGED vars
  BY <1>19 DEF vars, times, TaskInv, TypeOK, Tasks, Exclusive
<1>20. act[Clock].step \in Nat /\ TimeAdjustment \in Nat
  <2>1. act[Clock] \in Activity
    BY <1>0
  <2>2. act[Clock].step \in 0 .. TimeIncrement + 1
    BY <2>1 DEF Activity
  <2> QED BY <2>2 DEF TimeAdjustment
<1> QED
  BY <1>0, <1>1, <1>2, <1>3, <1>4, <1>5, <1>6, <1>7, <1>8, <1>9, <1>10, <1>11, <1>12, <1>13,
     <1>14, <1>15, <1>16, <1>17, <1>18, <1>19, <1>20
  DEF Next, UpdateSystemTime, Thread, GetTime

(* The variables of the clock keep their types: every step of a read, of a *)
(* setting and of the interrupt is well defined.                           *)
THEOREM TypeCorrect == Spec => []TypeOK
<1>1. Spec => []TaskInv
  BY InitTasks, NextTasks, PTL DEF Spec
<1>2. TaskInv => TypeOK
  BY DEF TaskInv
<1> QED BY <1>1, <1>2, PTL

-----------------------------------------------------------------------------
(* The kinds of steps.                                                     *)

(* An actor begins to read a time, or stops.                               *)
Begins(x, r) ==
  /\ UNCHANGED <<times, bootTime>>
  /\ act[x].pc \in {"idle", "budget"}
  /\ Only(x, r)
  /\ Fresh(r, r.task, r.word) /\ r.word \in {"interrupt", "system"}

Stops(x, r) ==
  /\ UNCHANGED <<times, bootTime>>
  /\ act[x].pc \in {"idle", "budget", "got"}
  /\ act[x].task # "set" /\ (act[x].pc = "got" => act[x].task = "read")
  /\ Only(x, r)
  /\ \/ r = Idle
     \/ r.pc = "got" /\ r.task = "read" /\ r.word = "tick"

Loads(x) == UNCHANGED <<times, bootTime>> /\ (ReadHigh1(x) \/ ReadLow(x) \/ CompareHigh2(x))

(* The first store of a time; of a tick, the next one.                     *)
StoresHigh2(x, w, t) ==
  /\ UNCHANGED bootTime
  /\ act[x].task \in {"set", "clock"}
  /\ \/ /\ w # "tick" /\ act[x].pc = "got" /\ act[x].word = w
        /\ x = Clock /\ w = "system" => t = act[x].value + TimeAdjustment
     \/ w = "tick" /\ x = Clock /\ act[x].pc = "count" /\ t = TickQuadword + 1
  /\ StoreHigh2(x, w, t)

StoresHigh1(x, r) ==
  /\ StoreHigh1(x, act[x].task, act[x].word, r)
  /\ bootTime' = IF act[x].task = "set" THEN bootTime + (act[x].new - act[x].value) ELSE bootTime
  /\ \/ r = Idle /\ (x = Clock => act[x].word = "tick")
     \/ r = [act[x] EXCEPT !.pc = "budget"] /\ act[x].word = "interrupt"
     \/ r = [act[x] EXCEPT !.pc = "count"] /\ act[x].word = "system"

Quiet == UNCHANGED <<times, act, bootTime>>

StoresLow(x) == StoreLow(x) /\ UNCHANGED bootTime

(* Every step is one of these kinds, by what it loads or stores.           *)
LEMMA StepKinds ==
  ASSUME TaskInv, [Next]_vars
  PROVE  \/ Quiet
         \/ \E x \in Actors : Loads(x)
         \/ \E x \in Actors : \E r \in Activity : Begins(x, r)
         \/ \E x \in Actors : \E r \in Activity : Stops(x, r)
         \/ \E x \in Actors : \E w \in Words : \E t \in Nat : StoresHigh2(x, w, t)
         \/ \E x \in Actors : StoresLow(x)
         \/ \E x \in Actors : \E r \in Activity : StoresHigh1(x, r)
<1> DEFINE Goal ==
  \/ Quiet
  \/ \E x \in Actors : Loads(x)
  \/ \E x \in Actors : \E r \in Activity : Begins(x, r)
  \/ \E x \in Actors : \E r \in Activity : Stops(x, r)
  \/ \E x \in Actors : \E w \in Words : \E t \in Nat : StoresHigh2(x, w, t)
  \/ \E x \in Actors : StoresLow(x)
  \/ \E x \in Actors : \E r \in Activity : StoresHigh1(x, r)
<1> SUFFICES Goal
  OBVIOUS
<1>0. /\ TypeOK /\ Tasks
      /\ \A a \in Actors : act[a] \in Activity /\ TasksOf(act[a], a)
      /\ act[Clock] \in Activity /\ TasksOf(act[Clock], Clock)
      /\ Clock \in Actors /\ Boot \in Actors /\ Cpus \subseteq Actors /\ Clock \notin Cpus
      /\ Words = {"interrupt", "system", "tick"}
  BY DEF TaskInv, TypeOK, Actors, Words, Tasks
<1>1. CASE HandleClockInterrupt
  <2> DEFINE s == IF running + Fraction >= FractionUnit THEN TimeIncrement + 1 ELSE TimeIncrement
             r == [Reading("clock", "interrupt") EXCEPT !.step = s]
  <2>1. Fresh(Reading("clock", "interrupt"), "clock", "interrupt")
    BY <1>0, ReadingFresh
  <2>2. s \in 0 .. TimeIncrement + 1
    OBVIOUS
  <2>3. act' = [act EXCEPT ![Clock] = r] /\ act[Clock].pc = "idle" /\ UNCHANGED <<times, bootTime>>
    BY <1>1 DEF HandleClockInterrupt, InterruptUnmasked
  <2> HIDE DEF s
  <2>4. Fresh(r, "clock", "interrupt") /\ r.task = "clock" /\ r.word = "interrupt"
    BY <2>1, <2>2 DEF Fresh, Activity
  <2> HIDE DEF r
  <2>5. Only(Clock, r) /\ r \in Activity
    BY <1>0, <2>3, <2>4, BeginEffect DEF Fresh
  <2>6. Begins(Clock, r)
    BY <2>3, <2>4, <2>5 DEF Begins
  <2> QED BY <1>0, <2>5, <2>6
<1>2. ASSUME NEW a \in Actors, GetTime(a) PROVE Goal
  <2>1. Loads(a)
    BY <1>2 DEF GetTime, Loads, ReadHigh1, ReadLow, CompareHigh2, CompareWith
  <2> QED BY <2>1
<1>3. ASSUME NEW w \in {"interrupt", "system"}, NEW by \in Nat, AdvanceTime(w, by),
             w = "system" => by = TimeAdjustment
      PROVE  Goal
  <2>1. act[Clock].value + by \in Nat
    <3>1. act[Clock] \in Activity
      BY <1>0
    <3>2. act[Clock].value \in Nat
      BY <3>1 DEF Activity
    <3> QED BY <3>2
  <2>2. act[Clock].task = "clock" /\ w # "tick" /\ w \in Words
    BY <1>0, <1>3 DEF TasksOf, AdvanceTime
  <2>3. StoresHigh2(Clock, w, act[Clock].value + by)
    BY <1>3, <2>2 DEF AdvanceTime, StoresHigh2
  <2> QED BY <1>0, <2>1, <2>2, <2>3
<1>4. CASE EndInterruptTime
  <2>1. [act[Clock] EXCEPT !.pc = "budget"] \in Activity
    BY <1>0 DEF Activity
  <2>2. StoresHigh1(Clock, [act[Clock] EXCEPT !.pc = "budget"])
    BY <1>4 DEF EndInterruptTime, StoresHigh1, StoreHigh1
  <2> QED BY <1>0, <2>1, <2>2
<1>5. CASE ConsumeBudget
  <2> DEFINE r == IF offset <= act[Clock].step THEN Reading("clock", "system") ELSE Idle
  <2>1. Fresh(Reading("clock", "system"), "clock", "system")
    BY <1>0, ReadingFresh
  <2>2. act' = [act EXCEPT ![Clock] = r] /\ act[Clock].pc = "budget" /\ UNCHANGED <<times, bootTime>>
    BY <1>5 DEF ConsumeBudget
  <2>3. r \in Activity
    BY <2>1, IdleType DEF Fresh
  <2>4. (Fresh(r, "clock", "system") /\ r.task = "clock" /\ r.word = "system")
          \/ (r = Idle /\ r.pc = "idle")
    BY <2>1 DEF Fresh, Idle
  <2> HIDE DEF r
  <2>5. Only(Clock, r)
    BY <1>0, <2>2, <2>3, BeginEffect
  <2>6. act[Clock].task # "set"
    BY <1>0 DEF TasksOf
  <2>7. Begins(Clock, r) \/ Stops(Clock, r)
    <3>1. CASE Fresh(r, "clock", "system") /\ r.task = "clock" /\ r.word = "system"
      BY <2>2, <2>5, <3>1 DEF Begins
    <3>2. CASE r = Idle /\ r.pc = "idle"
      BY <2>2, <2>5, <2>6, <3>2 DEF Stops
    <3> QED BY <2>4, <3>1, <3>2
  <2> QED BY <1>0, <2>3, <2>7
<1>6. CASE EndSystemTime
  <2>1. [act[Clock] EXCEPT !.pc = "count"] \in Activity
    BY <1>0 DEF Activity
  <2>2. StoresHigh1(Clock, [act[Clock] EXCEPT !.pc = "count"])
    BY <1>6 DEF EndSystemTime, StoresHigh1, StoreHigh1
  <2> QED BY <1>0, <2>1, <2>2
<1>7. CASE IncrementTickCount
  <2>1. TickQuadword + 1 \in Nat
    <3>1. shared["tick"].high1 \in Nat /\ shared["tick"].low \in 0 .. LowSize - 1
      BY <1>0 DEF TypeOK, Time
    <3>2. TickQuadword \in Nat
      BY <3>1, PartsUnique DEF TickQuadword
    <3> QED BY <3>2
  <2>2. act[Clock].task = "clock"
    BY <1>0, <1>7 DEF TasksOf, IncrementTickCount
  <2>3. StoresHigh2(Clock, "tick", TickQuadword + 1)
    BY <1>7, <2>2 DEF IncrementTickCount, StoresHigh2
  <2> QED BY <1>0, <2>1, <2>3
<1>8. CASE EndTick
  <2>1. StoresHigh1(Clock, Idle)
    BY <1>8 DEF EndTick, StoresHigh1, StoreHigh1
  <2> QED BY <1>0, <2>1, IdleType
<1>9. ASSUME NEW a \in Cpus, InitializeLocalClock(a) \/ LocalInterrupt(a) PROVE Goal
  BY <1>9 DEF InitializeLocalClock, LocalInterrupt, Quiet
<1>10. ASSUME NEW a \in Cpus, NEW w \in {"interrupt", "system"}, StartRead(a, w) PROVE Goal
  <2> DEFINE r == Reading("read", w)
  <2>1. Fresh(r, "read", w) /\ r \in Activity /\ r.task = "read" /\ r.word = w
    BY <1>0, ReadingFresh DEF Fresh
  <2>2. act' = [act EXCEPT ![a] = r] /\ act[a].pc = "idle" /\ UNCHANGED <<times, bootTime>>
    BY <1>10 DEF StartRead
  <2> HIDE DEF r
  <2>3. Only(a, r)
    BY <1>0, <2>1, <2>2, BeginEffect
  <2>4. Begins(a, r)
    BY <2>1, <2>2, <2>3 DEF Begins
  <2> QED BY <1>0, <2>1, <2>4
<1>11. ASSUME NEW a \in Cpus, GetTickCount(a) PROVE Goal
  <2> DEFINE q == TickQuadword
             r == [Reading("read", "tick") EXCEPT !.pc = "got", !.value = q]
  <2>1. Fresh(Reading("read", "tick"), "read", "tick")
    BY <1>0, ReadingFresh
  <2>2. q \in Nat
    <3>1. shared["tick"].high1 \in Nat /\ shared["tick"].low \in 0 .. LowSize - 1
      BY <1>0 DEF TypeOK, Time
    <3> QED BY <3>1, PartsUnique DEF TickQuadword
  <2>3. act' = [act EXCEPT ![a] = r] /\ act[a].pc = "idle" /\ UNCHANGED <<times, bootTime>>
    BY <1>11 DEF GetTickCount
  <2> HIDE DEF q
  <2>4. r \in Activity /\ r.pc = "got" /\ r.task = "read" /\ r.word = "tick"
    BY <2>1, <2>2 DEF Fresh, Activity
  <2> HIDE DEF r
  <2>5. Only(a, r)
    BY <1>0, <2>3, <2>4, BeginEffect
  <2>6. act[a].task = "none"
    BY <1>0, <2>3 DEF TasksOf
  <2>7. Stops(a, r)
    BY <2>3, <2>4, <2>5, <2>6 DEF Stops
  <2> QED BY <1>0, <2>4, <2>7
<1>12. ASSUME NEW a \in Cpus, Return(a) PROVE Goal
  <2>1. Only(a, Idle)
    BY <1>0, <1>12, IdleType, BeginEffect DEF Return
  <2>2. Idle.pc = "idle"
    BY DEF Idle
  <2>3. Stops(a, Idle)
    BY <1>12, <2>1, <2>2 DEF Return, Stops
  <2> QED BY <1>0, <2>3, IdleType
<1>13. ASSUME NEW a \in Cpus, NEW t \in NewTimes, StartSet(a, t) PROVE Goal
  <2> DEFINE r == [Reading("set", "system") EXCEPT !.new = t]
  <2>1. Fresh(Reading("set", "system"), "set", "system") /\ t \in Nat
    BY <1>0, ReadingFresh
  <2>2. Fresh(r, "set", "system") /\ r.task = "set" /\ r.word = "system" /\ r \in Activity
    BY <2>1 DEF Fresh, Activity
  <2>3. act' = [act EXCEPT ![a] = r] /\ act[a].pc = "idle" /\ UNCHANGED <<times, bootTime>>
    BY <1>13 DEF StartSet
  <2> HIDE DEF r
  <2>4. Only(a, r)
    BY <1>0, <2>2, <2>3, BeginEffect
  <2>5. Begins(a, r)
    BY <2>2, <2>3, <2>4 DEF Begins
  <2> QED BY <1>0, <2>2, <2>5
<1>14. ASSUME NEW a \in Cpus, StoreNewTime(a) PROVE Goal
  <2>1. act[a].word = "system" /\ act[a].task = "set"
    BY <1>0, <1>14 DEF TasksOf, StoreNewTime
  <2>2. act[a].new \in Nat
    BY <1>0 DEF Activity
  <2>3. StoresHigh2(a, "system", act[a].new)
    BY <1>14, <2>1 DEF StoreNewTime, StoresHigh2
  <2> QED BY <1>0, <2>2, <2>3
<1>15. ASSUME NEW a \in Cpus, EndSet(a) PROVE Goal
  <2>1. StoresHigh1(a, Idle)
    BY <1>15 DEF EndSet, EndSetMoving, StoresHigh1, StoreHigh1
  <2> QED BY <1>0, <2>1, IdleType
<1>16. CASE UNCHANGED vars
  BY <1>16 DEF vars, Quiet
<1>17. act[Clock].step \in Nat /\ TimeAdjustment \in Nat
  <2>1. act[Clock].step \in 0 .. TimeIncrement + 1
    BY <1>0 DEF Activity
  <2> QED BY <2>1 DEF TimeAdjustment
<1> HIDE DEF Goal
<1>18. ASSUME NEW a \in Actors, StoreLow(a) PROVE Goal
  <2>1. \E x \in Actors : StoresLow(x)
    BY <1>18 DEF StoresLow, StoreLow
  <2> QED BY <2>1 DEF Goal
<1> HIDE DEF Goal
<1>19. UpdateSystemTime => Goal
  <2>1. AdvanceTime("interrupt", act[Clock].step) \/ AdvanceTime("system", TimeAdjustment) => Goal
    BY <1>3, <1>17
  <2>2. GetTime(Clock) \/ StoreLow(Clock) => Goal
    BY <1>0, <1>2, <1>18
  <2> QED BY <1>4, <1>5, <1>6, <1>7, <1>8, <2>1, <2>2 DEF UpdateSystemTime
<1>20. ASSUME NEW a \in Cpus, Thread(a) PROVE Goal
  <2>1. GetTime(a) \/ StoreLow(a) => Goal
    BY <1>0, <1>2, <1>18
  <2> QED BY <1>10, <1>11, <1>12, <1>13, <1>14, <1>15, <1>20, <2>1 DEF Thread
<1>21. Goal
  BY <1>1, <1>9, <1>16, <1>19, <1>20 DEF Next
<1> QED BY <1>21

-----------------------------------------------------------------------------
(* The words of a time, and what the actor that writes it has seen of it.  *)

Old(r) == IF r.word = "tick" THEN r.new - 1 ELSE r.value
Writing(a, w) == act[a].task \in {"set", "clock"} /\ act[a].word = w

SeesWord(r, s, n) ==
  /\ r.pc = "store low" => s.high1 = High(n) /\ s.high2 = High(r.new) /\ n = Old(r)
  /\ r.pc = "store high1" => /\ s.high1 = High(Old(r)) /\ s.high2 = High(n) /\ n = r.new
                              /\ Old(r) \in Nat
  /\ r.pc \notin {"store low", "store high1"} => s.high1 = High(n) /\ s.high2 = High(n)
  /\ r.pc = "low" => r.high = High(n)
  /\ r.pc = "high2" => r.high = High(n) /\ r.low = Low(n)
  /\ r.pc = "got" => r.value = n

WordInv(w) ==
  /\ shared[w].low = Low(now[w])
  /\ \A a \in Actors : Writing(a, w) => SeesWord(act[a], shared[w], now[w])
  /\ (\A a \in Actors : ~Writing(a, w)) =>
       shared[w].high1 = High(now[w]) /\ shared[w].high2 = High(now[w])

(* Only the handler writes the times, but for the system time, which       *)
(* threads set.  As long as only threads of the boot processor set it,     *)
(* nobody else writes while one does.                                      *)
SetOnBoot(w) == w = "system" => Setters \subseteq {Boot}

Single(w) ==
  \A a, b \in Actors : Writing(a, w) /\ Writing(b, w) => a = b

OneWriter == \A w \in Words : SetOnBoot(w) => Single(w)

(* Nobody else writes a time while an actor does.                          *)
LEMMA SingleWriter == TaskInv => OneWriter
<1> SUFFICES ASSUME TaskInv, NEW w \in Words, SetOnBoot(w), NEW a \in Actors, NEW b \in Actors,
                    Writing(a, w), Writing(b, w)
             PROVE  a = b
  BY DEF OneWriter, Single
<1>1. TasksOf(act[a], a) /\ TasksOf(act[b], b) /\ TasksOf(act[Clock], Clock)
      /\ TasksOf(act[Boot], Boot) /\ Exclusive
  BY DEF TaskInv, Tasks, Actors
<1>2. a \in {Boot, Clock} /\ b \in {Boot, Clock}
  BY <1>1 DEF TasksOf, Writing, SetOnBoot, Actors
<1>3. Writing(Clock, w) => ~Writing(Boot, w)
  BY <1>1 DEF TasksOf, Writing, Exclusive, Actors
<1> QED BY <1>2, <1>3

(* Initially the words agree with the times.                               *)
LEMMA InitWords == Init => \A w \in Words : WordInv(w)
<1> SUFFICES ASSUME Init, NEW w \in Words PROVE WordInv(w)
  OBVIOUS
<1>1. shared[w].low = 0 /\ shared[w].high1 = 0 /\ shared[w].high2 = 0 /\ now[w] = 0
  BY DEF Init
<1>2. \A a \in Actors : ~Writing(a, w)
  BY DEF Init, Writing, Idle
<1>3. High(0) = 0 /\ Low(0) = 0
  BY DEF High, Low
<1> QED BY <1>1, <1>2, <1>3 DEF WordInv

(* A step of an actor that writes w, and leaves the word as it is.         *)
LEMMA WordKept ==
  ASSUME TaskInv, TaskInv', NEW w \in Words, SetOnBoot(w), WordInv(w), shared'[w] = shared[w], now'[w] = now[w],
         NEW x \in Actors, NEW r \in Activity, Only(x, r),
         r.task \in {"set", "clock"} /\ r.word = w => SeesWord(r, shared[w], now[w]),
         Writing(x, w) => SeesWord(act[x], shared[w], now[w]) /\ act[x].pc \notin {"store low", "store high1"}
  PROVE  WordInv(w)'
<1>1. ASSUME NEW a \in Actors, Writing(a, w)' PROVE SeesWord(act'[a], shared[w], now[w])
  <2>1. CASE a = x
    BY <1>1, <2>1 DEF Only, Writing
  <2>2. CASE a # x
    BY <1>1, <2>2 DEF Only, Writing, WordInv
  <2> QED BY <2>1, <2>2
<1>2. ASSUME \A a \in Actors : ~Writing(a, w)'
      PROVE  shared[w].high1 = High(now[w]) /\ shared[w].high2 = High(now[w])
  <2>1. CASE Writing(x, w)
    BY <2>1 DEF SeesWord
  <2>2. CASE ~Writing(x, w)
    <3>1. \A a \in Actors : ~Writing(a, w)
      BY <1>2, <2>2 DEF Only, Writing
    <3> QED BY <3>1 DEF WordInv
  <2> QED BY <2>1, <2>2
<1> QED BY <1>1, <1>2 DEF WordInv

(* Every step keeps the words of a time in agreement with it, as far as    *)
(* the store that is under way has come.                                   *)
LEMMA WordsKept ==
  ASSUME TaskInv, TaskInv', NEW w \in Words, SetOnBoot(w), WordInv(w), [Next]_vars
  PROVE  WordInv(w)'
<1>0. /\ TypeOK /\ \A a \in Actors : act[a] \in Activity /\ TasksOf(act[a], a)
      /\ shared[w] \in Time /\ now[w] \in Nat
  BY DEF TaskInv, TypeOK, Tasks
<1>00. Single(w) /\ Single(w)'
  <2>1. OneWriter'
    BY SingleWriter, PTL
  <2> QED BY <2>1, SingleWriter DEF OneWriter, SetOnBoot
<1>1. CASE Quiet
  BY <1>1 DEF Quiet, times, WordInv, Writing
<1>2. ASSUME NEW x \in Actors, Loads(x) PROVE WordInv(w)'
  <2>0. shared' = shared /\ now' = now /\ act[x] \in Activity
    BY <1>0, <1>2 DEF Loads, times
  <2>1. CASE ReadHigh1(x)
    <3> DEFINE r == [act[x] EXCEPT !.pc = "low", !.high = shared[act[x].word].high1]
    <3>1. act[x].pc = "high1" /\ Only(x, r) /\ r \in Activity
      BY <1>0, <2>1, ReadHigh1Effect DEF Only
    <3>2. /\ r.pc = "low" /\ r.high = shared[act[x].word].high1
          /\ r.task = act[x].task /\ r.word = act[x].word
      BY <2>0 DEF Activity
    <3> HIDE DEF r
    <3>3. Writing(x, w) => SeesWord(act[x], shared[w], now[w])
      BY DEF WordInv
    <3>4. r.task \in {"set", "clock"} /\ r.word = w => SeesWord(r, shared[w], now[w])
      BY <3>1, <3>2, <3>3 DEF SeesWord, Writing
    <3> QED BY <2>0, <3>1, <3>3, <3>4, WordKept
  <2>2. CASE ReadLow(x)
    <3> DEFINE r == [act[x] EXCEPT !.pc = "high2", !.low = shared[act[x].word].low]
    <3>1. act[x].pc = "low" /\ Only(x, r) /\ r \in Activity
      BY <1>0, <2>2, ReadLowEffect DEF Only
    <3>2. /\ r.pc = "high2" /\ r.low = shared[act[x].word].low /\ r.high = act[x].high
          /\ r.task = act[x].task /\ r.word = act[x].word
      BY <2>0 DEF Activity
    <3> HIDE DEF r
    <3>3. Writing(x, w) => SeesWord(act[x], shared[w], now[w])
      BY DEF WordInv
    <3>4. r.task \in {"set", "clock"} /\ r.word = w => SeesWord(r, shared[w], now[w])
      BY <3>1, <3>2, <3>3 DEF SeesWord, Writing, WordInv
    <3> QED BY <2>0, <3>1, <3>3, <3>4, WordKept
  <2>3. CASE CompareHigh2(x)
    <3> DEFINE r == Compared(x)
    <3>1. act[x].pc = "high2" /\ Only(x, r) /\ r \in Activity
      BY <1>0, <2>3, CompareEffect DEF Only
    <3>2. /\ \/ r.pc = "high1"
             \/ /\ r.pc = "got" /\ r.value = act[x].high * LowSize + act[x].low
          /\ r.task = act[x].task /\ r.word = act[x].word
      BY <2>0 DEF Activity, Compared
    <3> HIDE DEF r
    <3>3. Writing(x, w) => SeesWord(act[x], shared[w], now[w])
      BY DEF WordInv
    <3>4. now[w] = High(now[w]) * LowSize + Low(now[w])
      BY <1>0, Parts
    <3>5. r.task \in {"set", "clock"} /\ r.word = w => SeesWord(r, shared[w], now[w])
      BY <3>1, <3>2, <3>3, <3>4 DEF SeesWord, Writing, WordInv
    <3> QED BY <2>0, <3>1, <3>3, <3>5, WordKept
  <2> QED BY <1>2, <2>1, <2>2, <2>3 DEF Loads
<1>3. ASSUME NEW x \in Actors, NEW r \in Activity, Begins(x, r) PROVE WordInv(w)'
  <2>1. shared' = shared /\ now' = now /\ Only(x, r) /\ r.pc = "high1" /\ act[x].pc \in {"idle", "budget"}
    BY <1>3 DEF Begins, times, Fresh
  <2>2. Writing(x, w) => SeesWord(act[x], shared[w], now[w])
    BY DEF WordInv
  <2>3. r.task \in {"set", "clock"} /\ r.word = w => SeesWord(r, shared[w], now[w])
    <3> SUFFICES ASSUME r.task \in {"set", "clock"}, r.word = w PROVE SeesWord(r, shared[w], now[w])
      OBVIOUS
    <3>1. \A a \in Actors : a # x => ~Writing(a, w)
      <4>1. ASSUME NEW a \in Actors, a # x, Writing(a, w) PROVE FALSE
        <5>1. Writing(x, w)' /\ Writing(a, w)'
          BY <2>1, <4>1 DEF Only, Writing
        <5>2. Single(w)'
          BY <1>00
        <5> QED BY <4>1, <5>1, <5>2 DEF Single
      <4> QED BY <4>1
    <3>2. Writing(x, w) => act[x].pc \notin {"store low", "store high1"}
      BY <2>1
    <3>3. shared[w].high1 = High(now[w]) /\ shared[w].high2 = High(now[w])
      BY <2>2, <3>1, <3>2 DEF WordInv, SeesWord
    <3> QED BY <2>1, <3>3 DEF SeesWord
  <2> QED BY <2>1, <2>2, <2>3, WordKept
<1>4. ASSUME NEW x \in Actors, NEW r \in Activity, Stops(x, r) PROVE WordInv(w)'
  <2>1. /\ shared' = shared /\ now' = now /\ Only(x, r)
        /\ act[x].pc \notin {"store low", "store high1"}
        /\ (r = Idle \/ r.task = "read")
    BY <1>4 DEF Stops, times
  <2>2. Writing(x, w) => SeesWord(act[x], shared[w], now[w])
    BY DEF WordInv
  <2>3. Idle.task = "none"
    BY DEF Idle
  <2>4. r.task \notin {"set", "clock"}
    BY <2>1, <2>3
  <2> QED BY <2>1, <2>2, <2>4, WordKept
<1>5. ASSUME NEW x \in Actors, NEW v \in Words, NEW t \in Nat, StoresHigh2(x, v, t)
      PROVE  WordInv(w)'
  <2> DEFINE r == [act[x] EXCEPT !.pc = "store low", !.word = v, !.new = t]
  <2>1. /\ Storing(x, r, v, t, now[v]) /\ act'[x] \in Activity /\ now' = now
        /\ Stored(v, [shared[v] EXCEPT !.high2 = High(t)])
    BY <1>0, <1>5, StoreHigh2Effect DEF StoresHigh2, StoreHigh2
  <2>2. /\ r.pc = "store low" /\ r.word = v /\ r.new = t /\ r.value = act[x].value
        /\ r.task = act[x].task
    BY <1>0 DEF Activity
  <2> HIDE DEF r
  <2>3. act'[x] = r /\ Writing(x, v)'
    BY <1>5, <2>1, <2>2 DEF Storing, Writing, StoresHigh2
  <2>4. \A a \in Actors : a # x => Like(act'[a], act[a])
    BY <2>1 DEF Storing
  <2>5. \A a \in Actors : \A u \in Words : a # x => (Writing(a, u)' <=> Writing(a, u))
    BY <2>4 DEF Like, Writing
  <2>6. CASE v = w
    <3>1. \A a \in Actors : a # x => ~Writing(a, w)'
      BY <1>00, <2>3, <2>6 DEF Single
    <3>2. \A a \in Actors : a # x => ~Writing(a, w)
      BY <2>5, <3>1
    <3>3. shared[w].high1 = High(now[w])
      <4>1. CASE Writing(x, w)
        <5>1. act[x].pc \in {"got", "count"}
          BY <1>5 DEF StoresHigh2
        <5> QED BY <4>1, <5>1 DEF WordInv, SeesWord
      <4>2. CASE ~Writing(x, w)
        BY <3>2, <4>2 DEF WordInv
      <4> QED BY <4>1, <4>2
    <3>4. now[w] = Old(r)
      <4>1. CASE w # "tick"
        <5>1. act[x].pc = "got" /\ Writing(x, w)
          BY <1>5, <2>6, <4>1 DEF StoresHigh2, Writing
        <5>2. act[x].value = now[w]
          BY <5>1 DEF WordInv, SeesWord
        <5> QED BY <2>2, <2>6, <4>1, <5>2 DEF Old
      <4>2. CASE w = "tick"
        <5>1. t = TickQuadword + 1 /\ x = Clock /\ act[x].pc = "count"
          BY <1>5, <2>6, <4>2 DEF StoresHigh2
        <5>2. TickQuadword = now[w]
          <6>1. now[w] = High(now[w]) * LowSize + Low(now[w])
            BY <1>0, Parts
          <6>2. TickQuadword = shared[w].high1 * LowSize + shared[w].low
            BY <4>2 DEF TickQuadword
          <6>3. shared[w].low = Low(now[w])
            BY DEF WordInv
          <6> QED BY <3>3, <6>1, <6>2, <6>3
        <5>3. Old(r) = r.new - 1 /\ r.new = now[w] + 1 /\ now[w] \in Nat
          BY <1>0, <2>2, <2>6, <4>2, <5>1, <5>2 DEF Old
        <5> QED BY <5>3
      <4> QED BY <4>1, <4>2
    <3>5. /\ shared'[w].high1 = shared[w].high1 /\ shared'[w].low = shared[w].low
          /\ shared'[w].high2 = High(t)
      BY <1>0, <2>1, <2>6 DEF Stored, Time
    <3>6. SeesWord(r, shared'[w], now[w])
      BY <2>2, <3>3, <3>4, <3>5 DEF SeesWord
    <3> QED BY <2>1, <2>3, <2>6, <3>1, <3>5, <3>6 DEF WordInv
  <2>7. CASE v # w
    <3>1. shared'[w] = shared[w]
      BY <2>1, <2>7 DEF Stored
    <3>2. ~Writing(x, w)'
      BY <2>2, <2>3, <2>7 DEF Writing
    <3>3. ASSUME NEW a \in Actors, Writing(a, w)' PROVE SeesWord(act'[a], shared[w], now[w])
      <4>1. a # x /\ Writing(a, w) /\ Like(act'[a], act[a])
        BY <2>4, <2>5, <3>2, <3>3
      <4>2. SeesWord(act[a], shared[w], now[w])
        BY <4>1 DEF WordInv
      <4> QED BY <4>1, <4>2 DEF SeesWord, Like, Old
    <3>4. ASSUME \A a \in Actors : ~Writing(a, w)'
          PROVE  shared[w].high1 = High(now[w]) /\ shared[w].high2 = High(now[w])
      <4>1. CASE Writing(x, w)
        <5>1. act[x].pc \in {"got", "count"}
          BY <1>5 DEF StoresHigh2
        <5> QED BY <4>1, <5>1 DEF WordInv, SeesWord
      <4>2. CASE ~Writing(x, w)
        <5>1. \A a \in Actors : ~Writing(a, w)
          BY <2>5, <3>4, <4>2
        <5> QED BY <5>1 DEF WordInv
      <4> QED BY <4>1, <4>2
    <3> QED BY <2>1, <3>1, <3>3, <3>4 DEF WordInv
  <2> QED BY <2>6, <2>7
<1>6. ASSUME NEW x \in Actors, StoresLow(x) PROVE WordInv(w)'
  <2> DEFINE v == act[x].word
             t == act[x].new
             r == [act[x] EXCEPT !.pc = "store high1"]
  <2>1. /\ act[x].pc = "store low" /\ v \in Words /\ t \in Nat
        /\ Storing(x, r, v, t, t) /\ act'[x] \in Activity
        /\ Stored(v, [shared[v] EXCEPT !.low = Low(t)])
        /\ now' = [now EXCEPT ![v] = t]
    BY <1>0, <1>6, StoreLowEffect DEF StoresLow, StoreLow
  <2>2. /\ r.pc = "store high1" /\ r.word = v /\ r.new = t /\ r.value = act[x].value
        /\ r.task = act[x].task
    BY <1>0 DEF Activity
  <2>3. act[x].task \in {"set", "clock"}
    BY <1>0, <2>1 DEF TasksOf, Actors
  <2>4. Writing(x, v) /\ now \in [Words -> Nat]
    BY <1>0, <2>3 DEF Writing, TypeOK
  <2>4a. v = act[x].word /\ t = act[x].new
    OBVIOUS
  <2> HIDE DEF r, v, t
  <2>5. act'[x] = r /\ act'[x].word = v /\ act'[x].task \in {"set", "clock"}
    BY <2>1, <2>2, <2>3 DEF Storing
  <2>6. \A a \in Actors : a # x => Like(act'[a], act[a])
    BY <2>1 DEF Storing
  <2>7. \A a \in Actors : \A u \in Words : a # x => (Writing(a, u)' <=> Writing(a, u))
    BY <2>6 DEF Like, Writing
  <2>8. CASE v = w
    <3>1. \A a \in Actors : a # x => ~Writing(a, w)'
      BY <1>00, <2>5, <2>8 DEF Single, Writing
    <3>2. SeesWord(act[x], shared[w], now[w])
      BY <2>4, <2>8 DEF WordInv
    <3>3. /\ shared[w].high1 = High(Old(act[x])) /\ shared[w].high2 = High(t)
          /\ Old(act[x]) = Old(r) /\ now[w] = Old(r)
      BY <2>1, <2>2, <2>4a, <3>2 DEF SeesWord, Old
    <3>4. /\ shared'[w].high1 = shared[w].high1 /\ shared'[w].high2 = shared[w].high2
          /\ shared'[w].low = Low(t) /\ now'[w] = t
      BY <1>0, <2>1, <2>4, <2>8 DEF Stored, Time
    <3>5. Old(r) \in Nat
      BY <1>0, <3>3
    <3>6. SeesWord(r, shared'[w], now'[w])
      BY <2>2, <3>3, <3>4, <3>5 DEF SeesWord
    <3> QED BY <2>5, <3>6, <2>8, <3>1, <3>4, <3>5 DEF WordInv, Writing
  <2>9. CASE v # w
    <3>1. shared'[w] = shared[w] /\ now'[w] = now[w]
      BY <2>1, <2>4, <2>9 DEF Stored
    <3>2. ~Writing(x, w) /\ ~Writing(x, w)'
      BY <2>2, <2>5, <2>9 DEF Writing, v
    <3>3. ASSUME NEW a \in Actors, Writing(a, w)' PROVE SeesWord(act'[a], shared[w], now[w])
      <4>1. a # x /\ Writing(a, w) /\ Like(act'[a], act[a])
        BY <2>6, <2>7, <3>2, <3>3
      <4>2. SeesWord(act[a], shared[w], now[w])
        BY <4>1 DEF WordInv
      <4> QED BY <4>1, <4>2 DEF SeesWord, Like, Old
    <3>4. ASSUME \A a \in Actors : ~Writing(a, w)'
          PROVE  shared[w].high1 = High(now[w]) /\ shared[w].high2 = High(now[w])
      <4>1. \A a \in Actors : ~Writing(a, w)
        BY <2>7, <3>2, <3>4
      <4> QED BY <4>1 DEF WordInv
    <3> QED BY <3>1, <3>3, <3>4 DEF WordInv
  <2> QED BY <2>8, <2>9
<1>7. ASSUME NEW x \in Actors, NEW r \in Activity, StoresHigh1(x, r) PROVE WordInv(w)'
  <2> DEFINE v == act[x].word
  <2>1. v \in Words /\ v = act[x].word
    BY <1>0 DEF Activity
  <2> HIDE DEF v
  <2>2. /\ act[x].pc = "store high1" /\ Only(x, r) /\ now' = now
        /\ Stored(v, [shared[v] EXCEPT !.high1 = High(act[x].new)])
    BY <1>0, <1>7, <2>1, StoreHigh1Effect DEF StoresHigh1, StoreHigh1
  <2>3. r.pc \in {"idle", "budget", "count"} /\ (r.task = "none" \/ r.word = v)
    <3>0. act[x] \in Activity
      BY <1>0
    <3>1. CASE r = Idle
      BY <3>1 DEF Idle
    <3>2. CASE r = [act[x] EXCEPT !.pc = "budget"]
      BY <2>1, <3>0, <3>2 DEF Activity
    <3>3. CASE r = [act[x] EXCEPT !.pc = "count"]
      BY <2>1, <3>0, <3>3 DEF Activity
    <3> QED BY <1>7, <3>1, <3>2, <3>3 DEF StoresHigh1
  <2>4. act[x].task \in {"set", "clock"}
    BY <1>0, <2>2 DEF TasksOf, Actors
  <2>5. Writing(x, v)
    BY <2>1, <2>4 DEF Writing
  <2>6. CASE v = w
    <3>1. \A a \in Actors : a # x => ~Writing(a, w)
      BY <1>00, <2>5, <2>6 DEF Single
    <3>2. \A a \in Actors : a # x => ~Writing(a, w)'
      BY <2>2, <3>1 DEF Only, Writing
    <3>3. now[w] = act[x].new /\ shared[w].high2 = High(now[w])
      BY <2>2, <2>5, <2>6 DEF WordInv, SeesWord
    <3>4. /\ shared'[w].high1 = High(now[w]) /\ shared'[w].high2 = High(now[w])
          /\ shared'[w].low = shared[w].low
      BY <1>0, <2>2, <2>6, <3>3 DEF Stored, Time
    <3>5. SeesWord(r, shared'[w], now[w])
      BY <2>3, <3>4 DEF SeesWord
    <3> QED BY <2>2, <3>2, <3>4, <3>5 DEF WordInv, Only
  <2>7. CASE v # w
    <3>1. shared'[w] = shared[w]
      BY <2>2, <2>7 DEF Stored
    <3>2. ~Writing(x, w)
      BY <2>1, <2>7 DEF Writing
    <3>3. ~(r.task \in {"set", "clock"} /\ r.word = w)
      BY <2>3, <2>7
    <3> QED BY <2>2, <3>1, <3>2, <3>3, WordKept
  <2> QED BY <2>6, <2>7
<1> QED BY <1>1, <1>2, <1>3, <1>4, <1>5, <1>6, <1>7, StepKinds

(* The words of the tick count agree with it, whoever sets the system      *)
(* time.                                                                   *)
LEMMA TickWord == Spec => [](TaskInv /\ WordInv("tick"))
<1> DEFINE Inv == TaskInv /\ WordInv("tick")
<1>1. Init => Inv
  BY InitTasks, InitWords DEF Words
<1>2. Inv /\ [Next]_vars => Inv'
  BY NextTasks, WordsKept DEF Words, SetOnBoot
<1> QED BY <1>1, <1>2, PTL DEF Spec

(* A tick count is wrong only while the handler has carried it half.       *)
THEOREM TickCounts == Spec => []TickCountExact
<1>1. ASSUME TaskInv, WordInv("tick") PROVE TickCountExact
  <2> DEFINE n == now["tick"]
             r == act[Clock]
             h == shared["tick"].high1
  <2>1. /\ TypeOK /\ n \in Nat /\ r \in Activity /\ TasksOf(r, Clock)
        /\ \A a \in Cpus : TasksOf(act[a], a)
        /\ Actors = Cpus \cup {Clock}
    BY <1>1 DEF TaskInv, TypeOK, Tasks, Actors, Words
  <2>2. TickQuadword = h * LowSize + Low(n)
    BY <1>1 DEF TickQuadword, WordInv
  <2>3. n = High(n) * LowSize + Low(n) /\ High(n) \in Nat /\ Low(n) \in 0 .. LowSize - 1
    BY <2>1, Parts
  <2>4. CASE r.pc = "store high1" /\ r.word = "tick"
    <3>1. Writing(Clock, "tick")
      BY <2>1, <2>4 DEF Writing, TasksOf
    <3>2. h = High(r.new - 1) /\ r.new = n /\ n - 1 \in Nat
      BY <1>1, <2>1, <2>4, <3>1 DEF WordInv, SeesWord, Old
    <3>3. h = IF Low(n) = 0 THEN High(n) - 1 ELSE High(n)
      <4>1. (n - 1) + 1 = n
        BY <2>1
      <4> QED BY <3>2, <4>1, HighNext
    <3>4. CASE Low(n) = 0
      <4>1. (High(n) - 1) * LowSize = High(n) * LowSize - LowSize
        BY <2>3
      <4>2. TickQuadword = n - LowSize
        BY <2>2, <2>3, <3>3, <3>4, <4>1
      <4>3. TickCarries
        BY <2>4, <3>4 DEF TickCarries, Low
      <4> QED BY <2>1, <4>2, <4>3 DEF TickCountExact
    <3>5. CASE Low(n) # 0
      <4>1. TickQuadword = n /\ ~TickCarries
        BY <2>2, <2>3, <3>3, <3>5 DEF TickCarries, Low
      <4> QED BY <2>1, <4>1 DEF TickCountExact
    <3> QED BY <3>4, <3>5
  <2>5. CASE ~(r.pc = "store high1" /\ r.word = "tick")
    <3>1. h = High(n)
      <4>1. CASE Writing(Clock, "tick")
        <5>1. r.pc = "store low" /\ SeesWord(r, shared["tick"], n)
          BY <1>1, <2>1, <2>5, <4>1 DEF Writing, TasksOf, WordInv
        <5> QED BY <5>1 DEF SeesWord
      <4>2. CASE ~Writing(Clock, "tick")
        <5>1. \A a \in Actors : ~Writing(a, "tick")
          BY <2>1, <4>2 DEF Writing, TasksOf
        <5> QED BY <1>1, <5>1 DEF WordInv
      <4> QED BY <4>1, <4>2
    <3>2. TickQuadword = n /\ ~TickCarries
      BY <2>2, <2>3, <2>5, <3>1 DEF TickCarries
    <3> QED BY <2>1, <3>2 DEF TickCountExact
  <2> QED BY <2>4, <2>5
<1> QED BY <1>1, TickWord, PTL

-----------------------------------------------------------------------------
(* What a reader may have seen.  n is the time of the word it reads, back  *)
(* whether a store under way sets it back.                                 *)

Loading(r) == r.pc \in {"high1", "low", "high2"}

ReadOK(r, n, back) ==
  r.word # "tick" =>
    /\ Loading(r) => /\ r.from <= n /\ n <= r.upto
                     /\ ~r.back => ~back
    /\ ~r.back =>
         /\ r.pc = "low" => r.high <= High(n)
         /\ r.pc = "high2" =>
              \E m \in r.from .. r.upto : r.low = Low(m) /\ r.high <= High(m) /\ m <= n
         /\ r.pc = "got" => r.value \in r.from .. r.upto

Reads == \A a \in Actors : ReadOK(act[a], now[act[a].word], SettingBack(act[a].word))

(* A read whose bounds are widened, while the time goes on.                *)
LEMMA ReadKept ==
  ASSUME NEW r \in Activity, NEW s \in Activity, Like(s, r), NEW n \in Nat, NEW m \in Nat,
         NEW b \in BOOLEAN, NEW c \in BOOLEAN, ReadOK(r, n, b),
         s.from <= r.from, r.upto <= s.upto, r.back => s.back,
         Loading(r) /\ r.word # "tick" =>
           s.from <= m /\ m <= s.upto /\ (~s.back => n <= m /\ (c => b))
  PROVE  ReadOK(s, m, c)
<1>1. /\ s.from \in Nat /\ s.upto \in Nat /\ s.back \in BOOLEAN /\ s.high \in Nat
      /\ r.from \in Nat /\ r.upto \in Nat /\ r.back \in BOOLEAN /\ r.high \in Nat
      /\ r.value \in Nat
  BY DEF Activity
<1>2. /\ s.pc = r.pc /\ s.word = r.word /\ s.high = r.high /\ s.low = r.low
      /\ s.value = r.value
  BY DEF Like
<1> SUFFICES ASSUME s.word # "tick"
             PROVE  /\ Loading(s) => /\ s.from <= m /\ m <= s.upto
                                     /\ ~s.back => ~c
                    /\ ~s.back =>
                         /\ s.pc = "low" => s.high <= High(m)
                         /\ s.pc = "high2" =>
                              \E k \in s.from .. s.upto : s.low = Low(k) /\ s.high <= High(k) /\ k <= m
                         /\ s.pc = "got" => s.value \in s.from .. s.upto
  BY DEF ReadOK
<1>3. Loading(s) => /\ s.from <= m /\ m <= s.upto
                    /\ ~s.back => ~c
  BY <1>1, <1>2 DEF ReadOK, Loading
<1>4. ASSUME ~s.back, s.pc = "low" PROVE s.high <= High(m)
  <2>1. n <= m /\ r.high <= High(n)
    BY <1>1, <1>2, <1>4 DEF ReadOK, Loading
  <2>2. High(n) <= High(m) /\ High(n) \in Nat /\ High(m) \in Nat
    BY <2>1, HighMonotonic, Parts
  <2> QED BY <1>1, <1>2, <2>1, <2>2
<1>5. ASSUME ~s.back, s.pc = "high2"
      PROVE  \E k \in s.from .. s.upto : s.low = Low(k) /\ s.high <= High(k) /\ k <= m
  <2>1. n <= m /\ \E k \in r.from .. r.upto : r.low = Low(k) /\ r.high <= High(k) /\ k <= n
    BY <1>1, <1>2, <1>5 DEF ReadOK, Loading
  <2>2. PICK k \in r.from .. r.upto : r.low = Low(k) /\ r.high <= High(k) /\ k <= n
    BY <2>1
  <2>3. k \in s.from .. s.upto /\ k <= m
    BY <1>1, <2>1, <2>2
  <2> QED BY <1>2, <2>2, <2>3
<1>6. ASSUME ~s.back, s.pc = "got" PROVE s.value \in s.from .. s.upto
  <2>1. r.value \in r.from .. r.upto
    BY <1>1, <1>2, <1>6 DEF ReadOK
  <2> QED BY <1>1, <1>2, <2>1
<1> QED BY <1>3, <1>4, <1>5, <1>6

(* What a store notes in the bounds of a read.                             *)
Notes(s, r, a, w, t, current) ==
  /\ s \in Activity /\ Like(s, r)
  /\ s.from <= r.from /\ r.upto <= s.upto /\ (r.back => s.back)
  /\ Loading(r) /\ r.word = w =>
       s.from <= current /\ current <= s.upto /\ (~s.back => act[a].value <= t)
  /\ ~(Loading(r) /\ r.word = w) => s = r

(* A store is noted in the bounds of a read as the time it stands for.     *)
LEMMA NotedBounds ==
  ASSUME NEW r \in Activity, NEW a \in Actors, NEW w \in Words, NEW t \in Nat,
         NEW current \in Nat, act[a] \in Activity
  PROVE  Notes(Noted(r, a, w, t, current), r, a, w, t, current)
<1> DEFINE s == Noted(r, a, w, t, current)
<1>0. /\ r.from \in Nat /\ r.upto \in Nat /\ r.back \in BOOLEAN /\ act[a].value \in Nat
      /\ s \in Activity /\ Like(s, r)
  BY NotedLike DEF Activity
<1>1. ASSUME Loading(r), r.word = w
      PROVE  /\ s.from = IF current < r.from THEN current ELSE r.from
             /\ s.upto = IF current > r.upto THEN current ELSE r.upto
             /\ r.back => s.back
             /\ t < act[a].value => s.back
  BY <1>1 DEF Noted, Loading, Activity
<1>2. ~(Loading(r) /\ r.word = w) => s = r
  BY DEF Noted, Loading
<1> HIDE DEF s
<1>3. s.from <= r.from /\ r.upto <= s.upto /\ (r.back => s.back)
  BY <1>0, <1>1, <1>2
<1>4. Loading(r) /\ r.word = w =>
        s.from <= current /\ current <= s.upto /\ (~s.back => act[a].value <= t)
  BY <1>0, <1>1
<1> QED BY <1>0, <1>2, <1>3, <1>4 DEF Notes, s

(* A step of one actor that stores nothing leaves what others have read.   *)
LEMMA OnlySetting ==
  ASSUME TypeOK, NEW x \in Actors, NEW r \in Activity, Only(x, r),
         r.pc \notin {"store low", "store high1"}
  PROVE  \A w \in Words : SettingBack(w)' => SettingBack(w)
BY DEF Only, SettingBack

(* SettingBack depends on an actor only through the word that it reads.    *)
LEMMA BackWord ==
  ASSUME NEW a \in Actors, NEW w, act'[a].word = w
  PROVE  SettingBack(act[a].word)' = SettingBack(w)'
BY DEF SettingBack

(* Such a step keeps the invariant of the reads if it does so for its own. *)
LEMMA OnlyReads ==
  ASSUME TaskInv, TaskInv', Reads, UNCHANGED now, NEW x \in Actors, NEW r \in Activity, Only(x, r),
         r.pc \notin {"store low", "store high1"},
         ReadOK(r, now[r.word], SettingBack(r.word)')
  PROVE  Reads'
<1>1. \A a \in Actors : act[a] \in Activity /\ act[a].word \in Words
  BY DEF TaskInv, TypeOK, Activity
<1>2. \A w \in Words : now[w] \in Nat
  BY DEF TaskInv, TypeOK
<1>3. \A w \in Words : SettingBack(w)' => SettingBack(w)
  BY OnlySetting DEF TaskInv
<1>4. ASSUME NEW a \in Actors, a # x
      PROVE  ReadOK(act[a], now[act[a].word], SettingBack(act[a].word))'
  <2>1. PICK s \in Activity : s = act[a]
    BY <1>1
  <2>2. PICK w \in Words : w = s.word
    BY <1>1, <2>1
  <2>3. act'[a] = s /\ now' = now
    BY <1>4, <2>1 DEF Only
  <2>4. SettingBack(act[a].word)' = SettingBack(w)'
    BY <2>2, <2>3, BackWord
  <2>5. ReadOK(s, now[w], SettingBack(w))
    BY <2>1, <2>2 DEF Reads
  <2>6. ReadOK(s, now[w], SettingBack(w)')
    BY <1>3, <2>5 DEF ReadOK
  <2> QED BY <2>2, <2>3, <2>4, <2>6
<1>5. ReadOK(act[x], now[act[x].word], SettingBack(act[x].word))'
  <2>1. act'[x] = r
    BY DEF Only
  <2>2. SettingBack(act[x].word)' = SettingBack(r.word)'
    BY <2>1, BackWord
  <2> QED BY <2>1, <2>2
<1> QED BY <1>4, <1>5 DEF Reads

(* Loads: equal high parts mean that no carry came between the two loads,  *)
(* so the parts that were loaded are those of one time.                    *)
LEMMA LoadReads ==
  ASSUME TaskInv, TaskInv', \A w \in Words : WordInv(w), Reads, Setters \subseteq {Boot},
         NEW x \in Actors, Loads(x)
  PROVE  Reads'
<1> DEFINE w == act[x].word
           n == now[w]
           b == SettingBack(w)
<1>0. /\ TypeOK /\ act[x] \in Activity /\ TasksOf(act[x], x) /\ w \in Words /\ n \in Nat
      /\ shared[w] \in Time /\ UNCHANGED now
  BY DEF TaskInv, TypeOK, Tasks, Activity, Loads, times
<1>1. ReadOK(act[x], n, b) /\ b \in BOOLEAN
  BY DEF Reads, SettingBack
(* What a reader finds in the two high parts, unless the time is set back. *)
<1>2. ASSUME w # "tick", ~b
      PROVE  shared[w].high1 <= High(n) /\ High(n) <= shared[w].high2
  <2>1. /\ High(n) \in Nat /\ shared[w].high1 \in Nat /\ shared[w].high2 \in Nat
    BY <1>0, Parts DEF Time
  <2>2. ASSUME NEW a \in Actors, Writing(a, w)
        PROVE  shared[w].high1 <= High(n) /\ High(n) <= shared[w].high2
    <3>0. PICK s \in Activity : s = act[a]
      BY <1>0 DEF TypeOK
    <3>1. SeesWord(s, shared[w], n) /\ s.word = w
      BY <1>0, <2>2, <3>0 DEF WordInv, Writing
    <3>2. s.new \in Nat /\ s.value \in Nat
      BY <3>1 DEF Activity
    <3>3. s.pc \in {"store low", "store high1"} => s.value <= s.new
      <4>1. s.pc \in {"store low", "store high1"} => ~(s.new < s.value)
        BY <1>2, <3>0, <3>1 DEF SettingBack
      <4>2. s.value <= s.new \/ s.new < s.value
        <5>1. PICK i \in Nat : i = s.value
          BY <3>2
        <5>2. PICK j \in Nat : j = s.new
          BY <3>2
        <5> QED BY <5>1, <5>2
      <4> QED BY <4>1, <4>2
    <3>4. CASE s.pc = "store low"
      <4>1. shared[w].high1 = High(n) /\ shared[w].high2 = High(s.new) /\ n = s.value
        BY <1>2, <3>1, <3>4 DEF SeesWord, Old
      <4>2. High(n) <= High(s.new)
        BY <1>0, <3>2, <3>3, <3>4, <4>1, HighMonotonic
      <4> QED BY <2>1, <4>1, <4>2
    <3>5. CASE s.pc = "store high1"
      <4>1. shared[w].high1 = High(s.value) /\ shared[w].high2 = High(n) /\ n = s.new
        BY <1>2, <3>1, <3>5 DEF SeesWord, Old
      <4>2. High(s.value) <= High(n)
        BY <1>0, <3>2, <3>3, <3>5, <4>1, HighMonotonic
      <4> QED BY <2>1, <4>1, <4>2
    <3>6. CASE s.pc \notin {"store low", "store high1"}
      <4>1. shared[w].high1 = High(n) /\ shared[w].high2 = High(n)
        BY <3>1, <3>6 DEF SeesWord
      <4> QED BY <2>1, <4>1
    <3> QED BY <3>4, <3>5, <3>6
  <2>3. CASE \A a \in Actors : ~Writing(a, w)
    BY <1>0, <2>1, <2>3 DEF WordInv
  <2> QED BY <2>2, <2>3
<1>3. shared[w].low = Low(n)
  BY <1>0 DEF WordInv
<1> HIDE DEF w, n, b
<1>4. ASSUME NEW r \in Activity, Only(x, r), r.word = w,
             r.pc \notin {"store low", "store high1"},
             ASSUME NEW c \in BOOLEAN, c => b PROVE ReadOK(r, n, c)
      PROVE  Reads'
  <2>1. SettingBack(r.word)' => b
    BY <1>0, <1>4, OnlySetting DEF w, b
  <2>2. SettingBack(r.word)' \in BOOLEAN
    BY DEF SettingBack
  <2>3. ReadOK(r, n, SettingBack(r.word)')
    BY <1>4, <2>1, <2>2
  <2>4. n = now[r.word]
    BY <1>4 DEF n
  <2> QED BY <1>0, <1>4, <2>3, <2>4, OnlyReads
<1>5. CASE ReadHigh1(x)
  <2> DEFINE r == [act[x] EXCEPT !.pc = "low", !.high = shared[act[x].word].high1]
  <2>1. act[x].pc = "high1" /\ Only(x, r) /\ r \in Activity
    BY <1>0, <1>5, ReadHigh1Effect DEF Only
  <2>2. /\ r.pc = "low" /\ r.high = shared[w].high1 /\ r.word = w
        /\ r.from = act[x].from /\ r.upto = act[x].upto /\ r.back = act[x].back
    BY <1>0 DEF Activity, w
  <2> HIDE DEF r
  <2>3. ASSUME NEW c \in BOOLEAN, c => b PROVE ReadOK(r, n, c)
    BY <1>1, <1>2, <2>1, <2>2, <2>3 DEF ReadOK, Loading, w
  <2> QED BY <1>4, <2>1, <2>2, <2>3
<1>6. CASE ReadLow(x)
  <2> DEFINE r == [act[x] EXCEPT !.pc = "high2", !.low = shared[act[x].word].low]
  <2>1. act[x].pc = "low" /\ Only(x, r) /\ r \in Activity
    BY <1>0, <1>6, ReadLowEffect DEF Only
  <2>2. /\ r.pc = "high2" /\ r.low = Low(n) /\ r.high = act[x].high /\ r.word = w
        /\ r.from = act[x].from /\ r.upto = act[x].upto /\ r.back = act[x].back
        /\ act[x].word = w /\ act[x].from \in Nat /\ act[x].upto \in Nat
    BY <1>0, <1>3 DEF Activity, w
  <2> HIDE DEF r
  <2>3. ASSUME NEW c \in BOOLEAN, c => b PROVE ReadOK(r, n, c)
    <3> SUFFICES ASSUME w # "tick" PROVE ReadOK(r, n, c)
      BY <2>2 DEF ReadOK
    <3>1. r.from <= n /\ n <= r.upto /\ (~r.back => ~c)
      BY <1>1, <2>1, <2>2, <2>3 DEF ReadOK, Loading
    <3>2. ~r.back => r.low = Low(n) /\ r.high <= High(n) /\ n <= n
      BY <1>0, <1>1, <2>1, <2>2 DEF ReadOK
    <3>3. n \in r.from .. r.upto
      BY <1>0, <2>2, <3>1
    <3> QED BY <2>2, <3>1, <3>2, <3>3 DEF ReadOK
  <2> QED BY <1>4, <2>1, <2>2, <2>3
<1>7. CASE CompareHigh2(x)
  <2> DEFINE r == Compared(x)
             s == act[x]
  <2>1. s.pc = "high2" /\ Only(x, r) /\ r \in Activity
    BY <1>0, <1>7, CompareEffect DEF Only
  <2>2. /\ \/ r.pc = "high1"
           \/ r.pc = "got" /\ s.high = shared[w].high2 /\ r.value = s.high * LowSize + s.low
        /\ r.word = w /\ s.word = w
        /\ r.from = s.from /\ r.upto = s.upto /\ r.back = s.back
    BY <1>0 DEF Activity, Compared, w
  <2>3. s.high \in Nat /\ s.from \in Nat /\ s.upto \in Nat
    BY <1>0 DEF Activity
  <2>4. ReadOK(s, n, b)
    BY <1>1
  <2> HIDE DEF r, s
  <2>5. ASSUME NEW c \in BOOLEAN, c => b PROVE ReadOK(r, n, c)
    <3> SUFFICES ASSUME w # "tick" PROVE ReadOK(r, n, c)
      BY <2>2 DEF ReadOK
    <3>1. r.from <= n /\ n <= r.upto /\ (~r.back => ~c)
      BY <2>1, <2>2, <2>4, <2>5 DEF ReadOK, Loading
    <3>2. ASSUME ~r.back, r.pc = "got" PROVE r.value \in r.from .. r.upto
      <4>1. PICK m \in s.from .. s.upto : s.low = Low(m) /\ s.high <= High(m) /\ m <= n
        BY <2>1, <2>2, <2>4, <3>2 DEF ReadOK
      <4>2. m \in Nat /\ High(m) \in Nat /\ High(n) \in Nat
        BY <1>0, <2>3, <4>1, Parts, SMTT(30)
      <4>3. High(m) <= High(n)
        BY <1>0, <4>1, <4>2, HighMonotonic
      <4>4. ~b
        BY <2>1, <2>2, <2>4, <3>2 DEF ReadOK, Loading
      <4>5. High(n) <= s.high
        BY <1>2, <2>2, <3>2, <4>4
      <4>6. s.high = High(m)
        BY <2>3, <4>1, <4>2, <4>3, <4>5
      <4>7. r.value = m
        BY <2>2, <3>2, <4>1, <4>2, <4>6, Parts
      <4> QED BY <2>2, <4>1, <4>7
    <3> QED BY <2>2, <3>1, <3>2 DEF ReadOK, Loading
  <2> QED BY <1>4, <2>1, <2>2, <2>5
<1> QED BY <1>5, <1>6, <1>7 DEF Loads

(* The first store leaves every read as it is, and tells it if the time    *)
(* goes back.                                                              *)
LEMMA StoreHigh2Reads ==
  ASSUME TaskInv, TaskInv', Reads,
         NEW x \in Actors, NEW v \in Words, NEW t \in Nat, StoresHigh2(x, v, t)
  PROVE  Reads'
<1> DEFINE r == [act[x] EXCEPT !.pc = "store low", !.word = v, !.new = t]
<1>0. /\ TypeOK /\ \A a \in Actors : act[a] \in Activity /\ act[a].word \in Words
      /\ \A w \in Words : now[w] \in Nat
  BY DEF TaskInv, TypeOK, Activity
<1>1. Storing(x, r, v, t, now[v]) /\ act'[x] \in Activity /\ now' = now
  BY <1>0, StoreHigh2Effect DEF StoresHigh2, StoreHigh2
<1>2. /\ r.pc = "store low" /\ r.word = v /\ r.new = t /\ r.value = act[x].value
      /\ act[x].pc \in {"got", "count"}
  BY <1>0 DEF Activity, StoresHigh2
<1> HIDE DEF r
<1>3. act'[x] = r /\ \A a \in Actors : a # x => Like(act'[a], act[a])
  BY <1>1 DEF Storing
<1>4. ASSUME NEW w \in Words, SettingBack(w)'
      PROVE  SettingBack(w) \/ (w = v /\ t < act[x].value)
  <2>1. PICK a \in Actors : /\ act'[a].pc \in {"store low", "store high1"} /\ act'[a].word = w
                            /\ act'[a].new < act'[a].value
    BY <1>4 DEF SettingBack
  <2>2. CASE a = x
    BY <1>2, <1>3, <2>1, <2>2
  <2>3. CASE a # x
    BY <1>3, <2>1, <2>3 DEF Like, SettingBack
  <2> QED BY <2>2, <2>3
<1>5. ASSUME NEW a \in Actors
      PROVE  ReadOK(act[a], now[act[a].word], SettingBack(act[a].word))'
  <2>1. PICK s \in Activity : s = act'[a]
    BY <1>1 DEF Storing
  <2>2. CASE a = x
    <3>1. s.pc = "store low"
      BY <1>2, <1>3, <2>1, <2>2
    <3> QED BY <2>1, <3>1 DEF ReadOK, Loading
  <2>3. CASE a # x
    <3>1. PICK q \in Activity : q = act[a]
      BY <1>0
    <3>2. PICK w \in Words : w = q.word
      BY <1>0, <3>1
    <3>3. Notes(s, q, x, v, t, now[v])
      <4>1. s = Noted(q, x, v, t, now[v])
        BY <1>1, <2>1, <2>3, <3>1 DEF Storing
      <4> QED BY <1>0, <4>1, NotedBounds
    <3>4. SettingBack(act[a].word)' = SettingBack(w)' /\ s.word = w
      BY <2>1, <3>2, <3>3, BackWord DEF Notes, Like
    <3>5. ReadOK(q, now[w], SettingBack(w))
      BY <3>1, <3>2 DEF Reads
    <3>6. ReadOK(s, now[w], SettingBack(w)')
      <4>1. SettingBack(w) \in BOOLEAN /\ SettingBack(w)' \in BOOLEAN
        BY DEF SettingBack
      <4>2. /\ s.from \in Nat /\ s.upto \in Nat /\ q.from \in Nat /\ q.upto \in Nat
            /\ act[x].value \in Nat
        BY <1>0 DEF Activity
      <4>3. CASE Loading(q) /\ w # "tick"
        <5>1. q.from <= now[w] /\ now[w] <= q.upto
          BY <3>2, <3>5, <4>3 DEF ReadOK
        <5>2. s.from <= now[w] /\ now[w] <= s.upto
          BY <1>0, <3>3, <4>2, <5>1 DEF Notes
        <5>3. ~s.back /\ SettingBack(w)' => SettingBack(w)
          BY <1>4, <3>2, <3>3, <4>2, <4>3 DEF Notes
        <5>4. now[w] <= now[w]
          BY <1>0
        <5>5. s.from <= q.from /\ q.upto <= s.upto /\ (q.back => s.back) /\ Like(s, q)
          BY <3>3 DEF Notes
        <5> QED BY <1>0, <3>5, <4>1, <5>2, <5>3, <5>4, <5>5, ReadKept
      <4>4. CASE ~(Loading(q) /\ w # "tick")
        <5>1. s.from <= q.from /\ q.upto <= s.upto /\ (q.back => s.back) /\ Like(s, q)
          BY <3>3 DEF Notes
        <5> QED BY <1>0, <3>2, <3>5, <4>1, <4>4, <5>1, ReadKept
      <4> QED BY <4>3, <4>4
    <3> QED BY <1>1, <2>1, <3>4, <3>6
  <2> QED BY <2>2, <2>3
<1> QED BY <1>5 DEF Reads

(* The second store changes the time, and widens the bounds of its reads.  *)
LEMMA StoreLowReads ==
  ASSUME TaskInv, TaskInv', \A w \in Words : WordInv(w), Reads,
         NEW x \in Actors, StoresLow(x)
  PROVE  Reads'
<1> DEFINE r == [act[x] EXCEPT !.pc = "store high1"]
<1>0. /\ TypeOK /\ \A a \in Actors : act[a] \in Activity /\ act[a].word \in Words
      /\ \A w \in Words : now[w] \in Nat
      /\ TasksOf(act[x], x) /\ now \in [Words -> Nat]
  BY DEF TaskInv, TypeOK, Activity, Tasks
<1>00. PICK v \in Words : v = act[x].word
  BY <1>0
<1>01. PICK t \in Nat : t = act[x].new
  BY <1>0 DEF Activity
<1>1. /\ act[x].pc = "store low" /\ Storing(x, r, v, t, t) /\ act'[x] \in Activity
      /\ now' = [now EXCEPT ![v] = t]
  BY <1>0, <1>00, <1>01, StoreLowEffect DEF StoresLow, StoreLow
<1>2. /\ r.pc = "store high1" /\ r.word = v /\ r.new = t /\ r.value = act[x].value
  BY <1>0, <1>00, <1>01 DEF Activity
<1> HIDE DEF r
<1>3. act'[x] = r /\ \A a \in Actors : a # x => Like(act'[a], act[a])
  BY <1>1 DEF Storing
<1>4. ASSUME NEW w \in Words, SettingBack(w)' PROVE SettingBack(w)
  <2>1. PICK a \in Actors : /\ act'[a].pc \in {"store low", "store high1"} /\ act'[a].word = w
                            /\ act'[a].new < act'[a].value
    BY <1>4 DEF SettingBack
  <2>2. CASE a = x
    BY <1>00, <1>01, <1>1, <1>2, <1>3, <2>1, <2>2 DEF SettingBack
  <2>3. CASE a # x
    BY <1>3, <2>1, <2>3 DEF Like, SettingBack
  <2> QED BY <2>2, <2>3
<1>5. v # "tick" => now[v] = act[x].value
  <2>1. Writing(x, v)
    BY <1>0, <1>00, <1>1 DEF Writing, TasksOf, Actors
  <2>2. SeesWord(act[x], shared[v], now[v])
    BY <2>1 DEF WordInv
  <2> QED BY <1>00, <1>1, <2>2 DEF SeesWord, Old
<1>6. \A w \in Words : now'[w] \in Nat /\ (w # v => now'[w] = now[w]) /\ now'[v] = t
  BY <1>0, <1>1
<1>7. ASSUME NEW a \in Actors
      PROVE  ReadOK(act[a], now[act[a].word], SettingBack(act[a].word))'
  <2>1. PICK s \in Activity : s = act'[a]
    BY <1>1 DEF Storing
  <2>2. CASE a = x
    <3>1. s.pc = "store high1"
      BY <1>2, <1>3, <2>1, <2>2
    <3> QED BY <2>1, <3>1 DEF ReadOK, Loading
  <2>3. CASE a # x
    <3>1. PICK q \in Activity : q = act[a]
      BY <1>0
    <3>2. PICK w \in Words : w = q.word
      BY <1>0, <3>1
    <3>3. Notes(s, q, x, v, t, t)
      <4>1. s = Noted(q, x, v, t, t)
        BY <1>1, <2>1, <2>3, <3>1 DEF Storing
      <4> QED BY <1>0, <4>1, NotedBounds
    <3>4. SettingBack(act[a].word)' = SettingBack(w)' /\ s.word = w
      BY <2>1, <3>2, <3>3, BackWord DEF Notes, Like
    <3>5. ReadOK(q, now[w], SettingBack(w))
      BY <3>1, <3>2 DEF Reads
    <3>6. ReadOK(s, now'[w], SettingBack(w)')
      <4>1. SettingBack(w) \in BOOLEAN /\ SettingBack(w)' \in BOOLEAN
        BY DEF SettingBack
      <4>2. /\ s.from \in Nat /\ s.upto \in Nat /\ q.from \in Nat /\ q.upto \in Nat
            /\ act[x].value \in Nat /\ now'[w] \in Nat /\ now[w] \in Nat
        BY <1>0, <1>6 DEF Activity
      <4>3. s.from <= q.from /\ q.upto <= s.upto /\ (q.back => s.back) /\ Like(s, q)
        BY <3>3 DEF Notes
      <4>4. CASE Loading(q) /\ w # "tick"
        <5>1. q.from <= now[w] /\ now[w] <= q.upto
          BY <3>2, <3>5, <4>4 DEF ReadOK
        <5>2. s.from <= now'[w] /\ now'[w] <= s.upto /\ (~s.back => now[w] <= now'[w])
          <6>1. CASE w = v
            <7>1. s.from <= t /\ t <= s.upto /\ (~s.back => act[x].value <= t)
              BY <3>2, <3>3, <4>4, <6>1 DEF Notes
            <7>2. now'[w] = t /\ now[w] = act[x].value
              BY <1>5, <1>6, <4>4, <6>1
            <7> QED BY <7>1, <7>2
          <6>2. CASE w # v
            <7>1. s = q /\ now'[w] = now[w]
              BY <1>6, <3>2, <3>3, <6>2 DEF Notes
            <7> QED BY <4>2, <5>1, <7>1
          <6> QED BY <6>1, <6>2
        <5>3. SettingBack(w)' => SettingBack(w)
          BY <1>4
        <5> QED BY <3>5, <4>1, <4>2, <4>3, <5>2, <5>3, ReadKept
      <4>5. CASE ~(Loading(q) /\ w # "tick")
        BY <3>2, <3>5, <4>1, <4>2, <4>3, <4>5, ReadKept
      <4> QED BY <4>4, <4>5
    <3> QED BY <2>1, <3>4, <3>6
  <2> QED BY <2>2, <2>3
<1> QED BY <1>7 DEF Reads

(* A read that starts has bounds around the time, and one that ends none   *)
(* to keep.                                                                *)
LEMMA ReadsKept ==
  ASSUME TaskInv, TaskInv', \A w \in Words : WordInv(w), Reads, Setters \subseteq {Boot},
         [Next]_vars
  PROVE  Reads'
<1>0. \A a \in Actors : act[a] \in Activity /\ act[a].word \in Words /\ TasksOf(act[a], a)
  BY DEF TaskInv, TypeOK, Activity, Tasks
<1>1. CASE Quiet
  BY <1>1 DEF Quiet, times, Reads, SettingBack
<1>2. ASSUME NEW x \in Actors, NEW r \in Activity, Begins(x, r) PROVE Reads'
  <2>1. /\ Only(x, r) /\ UNCHANGED now /\ r.pc = "high1" /\ r.word \in Words
        /\ r.from = now[r.word] /\ r.upto = now[r.word] /\ r.back = SettingBack(r.word)
    BY <1>2 DEF Begins, Fresh, times, Activity
  <2>2. SettingBack(r.word)' => SettingBack(r.word)
    BY <2>1, OnlySetting DEF TaskInv
  <2>3. now[r.word] \in Nat
    BY <2>1 DEF TaskInv, TypeOK
  <2>4. ReadOK(r, now[r.word], SettingBack(r.word)')
    BY <2>1, <2>2, <2>3 DEF ReadOK, Loading
  <2> QED BY <2>1, <2>4, OnlyReads
<1>3. ASSUME NEW x \in Actors, NEW r \in Activity, Stops(x, r) PROVE Reads'
  <2>1. Only(x, r) /\ UNCHANGED now
    BY <1>3 DEF Stops, times
  <2>2. r.pc \in {"idle", "got"} /\ (r.pc = "got" => r.word = "tick")
    BY <1>3 DEF Stops, Idle
  <2>3. ReadOK(r, now[r.word], SettingBack(r.word)')
    BY <2>2 DEF ReadOK, Loading
  <2> QED BY <2>1, <2>2, <2>3, OnlyReads
<1>4. ASSUME NEW x \in Actors, NEW r \in Activity, StoresHigh1(x, r) PROVE Reads'
  <2>1. Only(x, r) /\ UNCHANGED now
    BY <1>0, <1>4, StoreHigh1Effect DEF StoresHigh1, StoreHigh1, TaskInv
  <2>2. r.pc \in {"idle", "budget", "count"}
    <3>0. act[x] \in Activity
      BY <1>0
    <3>1. CASE r = Idle
      BY <3>1 DEF Idle
    <3>2. CASE r = [act[x] EXCEPT !.pc = "budget"]
      BY <3>0, <3>2 DEF Activity
    <3>3. CASE r = [act[x] EXCEPT !.pc = "count"]
      BY <3>0, <3>3 DEF Activity
    <3> QED BY <1>4, <3>1, <3>2, <3>3 DEF StoresHigh1
  <2>3. ReadOK(r, now[r.word], SettingBack(r.word)')
    BY <2>2 DEF ReadOK, Loading
  <2> QED BY <2>1, <2>2, <2>3, OnlyReads
<1> QED BY <1>1, <1>2, <1>3, <1>4, LoadReads, StoreHigh2Reads, StoreLowReads, StepKinds

ClockInv == TaskInv /\ (\A w \in Words : WordInv(w)) /\ Reads

(* Initially nothing is read.                                              *)
LEMMA InitClock == Init => ClockInv
<1>1. Init => Reads
  BY DEF Init, Reads, ReadOK, Loading, Idle
<1> QED BY <1>1, InitTasks, InitWords DEF ClockInv

(* The invariant of the clock is inductive when only the boot processor    *)
(* sets.                                                                   *)
LEMMA NextClock ==
  ASSUME Setters \subseteq {Boot}
  PROVE  ClockInv /\ [Next]_vars => ClockInv'
<1> SUFFICES ASSUME ClockInv, [Next]_vars PROVE ClockInv'
  OBVIOUS
<1>1. TaskInv /\ TaskInv'
  BY NextTasks DEF ClockInv
<1>2. (\A w \in Words : WordInv(w))'
  <2>1. \A w \in Words : WordInv(w)'
    BY <1>1, WordsKept DEF ClockInv, SetOnBoot
  <2>2. Words' = Words
    BY DEF Words
  <2> QED BY <2>1
<1>3. Reads'
  BY <1>1, ReadsKept DEF ClockInv
<1> QED BY <1>1, <1>2, <1>3 DEF ClockInv

(* GetInterruptTime and GetSystemTime never mix the parts of two times:    *)
(* what they return lies within the times there were during the call,      *)
(* unless the time was set back meanwhile.                                 *)
THEOREM ReadTimes ==
  ASSUME Setters \subseteq {Boot}
  PROVE  Spec => []ReadsUntorn
<1>1. Spec => []ClockInv
  BY InitClock, NextClock, PTL DEF Spec
<1>2. ClockInv => ReadsUntorn
  BY DEF ClockInv, Reads, ReadOK, ReadsUntorn
<1> QED BY <1>1, <1>2, PTL

-----------------------------------------------------------------------------
(* The system time, the boot time and the ticks.                           *)

(* The handler has advanced the system time and not yet the tick count.    *)
Ahead(r) ==
  \/ r.word = "system" /\ r.pc \in {"store high1", "count"}
  \/ r.word = "tick" /\ r.pc = "store low"
Lead(r) == IF Ahead(r) THEN TimeAdjustment ELSE 0

(* A thread has set the system time and not yet moved the boot time.       *)
Owed(r) == IF r.task = "set" /\ r.pc = "store high1" THEN r.new - r.value ELSE 0

Uptime ==
  now["system"] - bootTime =
    TimeAdjustment * now["tick"] + Lead(act[Clock]) + Owed(act[Boot])
ClockSum(r) ==
  r.pc = "store low" /\ r.word = "system" => r.new = r.value + TimeAdjustment

UptimeInv == ClockInv /\ Uptime /\ ClockSum(act[Clock])

(* Initially there is neither time nor tick.                               *)
LEMMA InitUptime == Init => UptimeInv
<1> SUFFICES ASSUME Init PROVE UptimeInv
  OBVIOUS
<1>1. now["system"] = 0 /\ now["tick"] = 0 /\ bootTime = 0
  BY DEF Init, Words
<1>2. act[Clock] = Idle /\ act[Boot] = Idle
  BY DEF Init, Actors
<1>3. Lead(Idle) = 0 /\ Owed(Idle) = 0 /\ ClockSum(Idle)
  BY DEF Lead, Ahead, Owed, ClockSum, Idle
<1>4. TimeAdjustment * 0 = 0
  BY DEF TimeAdjustment
<1> QED BY <1>1, <1>2, <1>3, <1>4, InitClock DEF UptimeInv, Uptime

(* A step that stores nothing of the two.                                  *)
LEMMA SumKept ==
  ASSUME UptimeInv, now'["system"] = now["system"], now'["tick"] = now["tick"],
         UNCHANGED bootTime, Lead(act'[Clock]) = Lead(act[Clock]),
         Owed(act'[Boot]) = Owed(act[Boot]), ClockSum(act'[Clock])
  PROVE  Uptime' /\ ClockSum(act[Clock])'
<1>1. Lead(act[Clock])' = Lead(act'[Clock])
  BY DEF Lead, Ahead, TimeAdjustment
<1>2. Owed(act[Boot])' = Owed(act'[Boot])
  BY DEF Owed
<1>3. TimeAdjustment' = TimeAdjustment
  BY DEF TimeAdjustment
<1> QED BY <1>1, <1>2, <1>3 DEF UptimeInv, Uptime, ClockSum

(* A step that loads or begins something stores nothing of the two.        *)
LEMMA OnlySums ==
  ASSUME UptimeInv, NEW x \in Actors, NEW r \in Activity, Only(x, r),
         UNCHANGED <<times, bootTime>>,
         act[x].pc \notin {"store low", "store high1", "count"},
         r.pc \notin {"store low", "store high1", "count"}
  PROVE  Uptime' /\ ClockSum(act[Clock])'
<1>1. Lead(act'[Clock]) = Lead(act[Clock]) /\ ClockSum(act'[Clock])
  <2>1. CASE x = Clock
    BY <2>1 DEF Only, Lead, Ahead, ClockSum
  <2>2. CASE x # Clock
    BY <2>2 DEF Only, UptimeInv, Actors
  <2> QED BY <2>1, <2>2
<1>2. Owed(act'[Boot]) = Owed(act[Boot])
  <2>1. CASE x = Boot
    BY <2>1 DEF Only, Owed
  <2>2. CASE x # Boot
    BY <2>2 DEF Only, Actors
  <2> QED BY <2>1, <2>2
<1> QED BY <1>1, <1>2, SumKept DEF times

(* Every store of the handler and of SetSystemTime pays what it owes.      *)
LEMMA UptimeStep ==
  ASSUME Setters \subseteq {Boot}, UptimeInv, [Next]_vars
  PROVE  Uptime' /\ ClockSum(act[Clock])'
<1> DEFINE Goal == Uptime' /\ ClockSum(act[Clock])'
<1>0. /\ TaskInv /\ TypeOK
      /\ \A a \in Actors : act[a] \in Activity /\ TasksOf(act[a], a)
      /\ Clock \in Actors /\ Boot \in Actors /\ Clock # Boot
      /\ \A w \in Words : WordInv(w) /\ now[w] \in Nat
      /\ now \in [Words -> Nat] /\ Words = {"interrupt", "system", "tick"}
      /\ TimeAdjustment \in Nat
  BY DEF UptimeInv, ClockInv, TaskInv, TypeOK, Tasks, Actors, Words, TimeAdjustment
<1>00. act[Clock] \in Activity /\ act[Boot] \in Activity /\ bootTime \in Int
  BY <1>0 DEF TypeOK
<1>01. Uptime /\ ClockSum(act[Clock])
  BY DEF UptimeInv
<1>03. PICK b \in Int : b = bootTime
  BY <1>00
<1>04. PICK n \in Nat : n = now["tick"]
  BY <1>0
<1>05. PICK p \in Int : p = TimeAdjustment * n
  BY <1>0
<1>06. PICK o \in Int : o = Owed(act[Boot])
  <2>1. act[Boot].new \in Nat /\ act[Boot].value \in Nat
    BY <1>00 DEF Activity
  <2>2. act[Boot].new - act[Boot].value \in Int
    BY <2>1
  <2>3. Owed(act[Boot]) \in Int
    <3>1. CASE act[Boot].task = "set" /\ act[Boot].pc = "store high1"
      <4>1. Owed(act[Boot]) = act[Boot].new - act[Boot].value
        BY <3>1 DEF Owed
      <4> QED BY <2>2, <4>1
    <3>2. CASE ~(act[Boot].task = "set" /\ act[Boot].pc = "store high1")
      <4>1. Owed(act[Boot]) = 0
        BY <3>2 DEF Owed
      <4> QED BY <4>1
    <3> QED BY <3>1, <3>2
  <2> QED BY <2>3
<1>07. PICK l \in Int : l = Lead(act[Clock])
  BY <1>0 DEF Lead
<1>08. now["system"] - b = p + l + o /\ now["system"] \in Nat /\ TimeAdjustment' = TimeAdjustment
  BY <1>0, <1>01, <1>03, <1>04, <1>05, <1>06, <1>07 DEF Uptime, TimeAdjustment
(* A thread that stores is one of the boot processor that sets the time.   *)
<1>02. ASSUME NEW x \in Actors, x # Clock, act[x].task \in {"set", "clock"}
       PROVE  x = Boot /\ act[x].task = "set" /\ act[x].word = "system"
  <2>1. x \in Cpus /\ TasksOf(act[x], x)
    BY <1>0, <1>02 DEF Actors
  <2> QED BY <1>02, <2>1 DEF TasksOf
<1>1. CASE Quiet
  BY <1>01, <1>1, SumKept DEF Quiet, times
<1>2. ASSUME NEW x \in Actors, Loads(x) PROVE Goal
  <2>1. UNCHANGED <<times, bootTime>>
    BY <1>2 DEF Loads
  <2>2. \E r \in Activity : /\ Only(x, r) /\ act[x].pc \in {"high1", "low", "high2"}
                            /\ r.pc \in {"high1", "low", "high2", "got"}
    <3>0. act[x] \in Activity
      BY <1>0
    <3>1. CASE ReadHigh1(x)
      <4> DEFINE r == [act[x] EXCEPT !.pc = "low", !.high = shared[act[x].word].high1]
      <4>1. act[x].pc = "high1" /\ Only(x, r) /\ r \in Activity
        BY <1>0, <3>1, ReadHigh1Effect DEF Only
      <4>2. r.pc = "low"
        BY <3>0 DEF Activity
      <4> QED BY <4>1, <4>2
    <3>2. CASE ReadLow(x)
      <4> DEFINE r == [act[x] EXCEPT !.pc = "high2", !.low = shared[act[x].word].low]
      <4>1. act[x].pc = "low" /\ Only(x, r) /\ r \in Activity
        BY <1>0, <3>2, ReadLowEffect DEF Only
      <4>2. r.pc = "high2"
        BY <3>0 DEF Activity
      <4> QED BY <4>1, <4>2
    <3>3. CASE CompareHigh2(x)
      <4>1. act[x].pc = "high2" /\ Only(x, Compared(x)) /\ Compared(x) \in Activity
        BY <1>0, <3>3, CompareEffect DEF Only
      <4>2. Compared(x).pc \in {"got", "high1"}
        BY <3>0 DEF Activity, Compared
      <4> QED BY <4>1, <4>2
    <3> QED BY <1>2, <3>1, <3>2, <3>3 DEF Loads
  <2> QED BY <2>1, <2>2, OnlySums
<1>3. ASSUME NEW x \in Actors, NEW r \in Activity, Begins(x, r) PROVE Goal
  BY <1>3, OnlySums DEF Begins, Fresh
<1>4. ASSUME NEW x \in Actors, NEW r \in Activity, Stops(x, r) PROVE Goal
  <2>1. r.pc \in {"idle", "got"}
    BY <1>4 DEF Stops, Idle
  <2> QED BY <1>4, <2>1, OnlySums DEF Stops
<1>5. ASSUME NEW x \in Actors, NEW v \in Words, NEW t \in Nat, StoresHigh2(x, v, t) PROVE Goal
  <2> DEFINE r == [act[x] EXCEPT !.pc = "store low", !.word = v, !.new = t]
  <2>1. Storing(x, r, v, t, now[v]) /\ now' = now /\ bootTime' = bootTime
    BY <1>0, <1>5, StoreHigh2Effect DEF StoresHigh2, StoreHigh2
  <2>2. /\ r.pc = "store low" /\ r.word = v /\ r.new = t /\ r.value = act[x].value
    <3>1. StoreOf(act[x], v, t, r)
      BY <1>0 DEF StoreOf
    <3> HIDE DEF r
    <3>2. PICK e, s : e = act[x] /\ s = r
      OBVIOUS
    <3>3. StoreOf(e, v, t, s)
      BY <3>1, <3>2
    <3>4. Storer(e, v, t, s)
      BY <3>3, StoreFields, Zenon
    <3> QED BY <3>2, <3>4 DEF Storer
  <2> HIDE DEF r
  <2>3. act'[x] = r /\ \A a \in Actors : a # x => Like(act'[a], act[a])
    BY <2>1 DEF Storing
  <2>4. CASE x = Clock
    <3>1. Owed(act'[Boot]) = Owed(act[Boot])
      BY <1>0, <2>3, <2>4 DEF Owed, Like
    <3>2. Lead(act'[Clock]) = Lead(act[Clock]) /\ ClockSum(act'[Clock])
      <4>1. CASE v # "tick"
        BY <1>5, <2>2, <2>3, <2>4, <4>1 DEF Lead, Ahead, ClockSum, StoresHigh2
      <4>2. CASE v = "tick"
        <5>1. act[Clock].pc = "count" /\ act[Clock].word = "system"
          BY <1>0, <1>5, <4>2 DEF StoresHigh2, TasksOf
        <5> QED BY <2>2, <2>3, <2>4, <4>2, <5>1 DEF Lead, Ahead, ClockSum
      <4> QED BY <4>1, <4>2
    <3> QED BY <2>1, <3>1, <3>2, SumKept
  <2>5. CASE x # Clock
    <3>1. Lead(act'[Clock]) = Lead(act[Clock]) /\ ClockSum(act'[Clock])
      BY <1>0, <1>01, <2>3, <2>5 DEF Lead, Ahead, ClockSum, Like
    <3>2. x = Boot /\ act[x].pc = "got"
      BY <1>02, <1>5, <2>5 DEF StoresHigh2
    <3>3. Owed(act'[Boot]) = Owed(act[Boot])
      BY <2>2, <2>3, <3>2 DEF Owed
    <3> QED BY <2>1, <3>1, <3>3, SumKept
  <2> QED BY <2>4, <2>5
<1>6. ASSUME NEW x \in Actors, StoresLow(x) PROVE Goal
  <2> DEFINE r == [act[x] EXCEPT !.pc = "store high1"]
  <2>00. PICK v \in Words : v = act[x].word
    BY <1>0 DEF Activity
  <2>01. PICK t \in Nat : t = act[x].new
    BY <1>0 DEF Activity
  <2>02. PICK u \in Nat : u = act[x].value
    BY <1>0 DEF Activity
  <2>1. /\ act[x].pc = "store low" /\ Storing(x, r, v, t, t)
        /\ now' = [now EXCEPT ![v] = t] /\ bootTime' = bootTime
    BY <1>0, <1>6, <2>00, <2>01, StoreLowEffect DEF StoresLow, StoreLow
  <2>2. /\ r.pc = "store high1" /\ r.word = v /\ r.new = t /\ r.value = u
        /\ r.task = act[x].task
    <3>1. act[x] \in Activity
      BY <1>0
    <3>2. /\ r.pc = "store high1" /\ r.word = act[x].word /\ r.new = act[x].new
          /\ r.value = act[x].value /\ r.task = act[x].task
      BY <3>1, StoreGoesOn, Zenon
    <3> QED BY <2>00, <2>01, <2>02, <3>2
  <2> HIDE DEF r
  <2>3. act'[x] = r /\ \A a \in Actors : a # x => Like(act'[a], act[a])
    BY <2>1 DEF Storing
  <2>4. act[x].task \in {"set", "clock"}
    <3>1. TasksOf(act[x], x) /\ act[x].pc = "store low"
      BY <1>0, <2>1
    <3> QED BY <3>1 DEF TasksOf, Actors
  <2>5. now[v] = Old(act[x])
    <3>1. SeesWord(act[x], shared[v], now[v])
      BY <1>0, <2>00, <2>4 DEF Writing, WordInv
    <3> QED BY <2>1, <3>1 DEF SeesWord
  <2>6. \A w \in Words : now'[w] = IF w = v THEN t ELSE now[w]
    BY <1>0, <2>1
  <2>7. CASE x = Clock
    <3>1. Owed(act'[Boot]) = Owed(act[Boot])
      BY <1>0, <2>3, <2>7 DEF Owed, Like
    <3>2. ClockSum(act'[Clock])
      BY <2>2, <2>3, <2>7 DEF ClockSum
    <3>3. CASE v = "interrupt"
      <4>1. Lead(act'[Clock]) = Lead(act[Clock])
        BY <2>00, <2>2, <2>3, <2>7, <3>3 DEF Lead, Ahead
      <4> QED BY <1>0, <2>1, <2>6, <3>1, <3>2, <3>3, <4>1, SumKept
    <3>4. CASE v = "system"
      <4>1. t = u + TimeAdjustment /\ now["system"] = u
        BY <1>01, <2>00, <2>01, <2>02, <2>1, <2>5, <2>7, <3>4 DEF ClockSum, Old
      <4>2. Lead(act[Clock]) = 0 /\ Lead(act[Clock])' = TimeAdjustment
        BY <2>00, <2>1, <2>2, <2>3, <2>7, <3>4 DEF Lead, Ahead, TimeAdjustment
      <4>3. Owed(act[Boot])' = Owed(act[Boot])
        BY <3>1 DEF Owed
      <4>4. now'["system"] = t /\ now'["tick"] = now["tick"]
        BY <1>0, <2>6, <3>4
      <4>5. t - b = p + TimeAdjustment + o
        BY <1>0, <1>07, <1>08, <4>1, <4>2
      <4>6. Uptime'
        BY <1>03, <1>04, <1>05, <1>06, <1>08, <2>1, <4>2, <4>3, <4>4, <4>5 DEF Uptime
      <4> QED BY <3>2, <4>6 DEF ClockSum
    <3>5. CASE v = "tick"
      <4>1. t = now["tick"] + 1
        BY <1>0, <2>00, <2>01, <2>5, <3>5 DEF Old
      <4>2. Lead(act[Clock]) = TimeAdjustment /\ Lead(act[Clock])' = 0
        BY <2>00, <2>1, <2>2, <2>3, <2>7, <3>5 DEF Lead, Ahead, TimeAdjustment
      <4>3. Owed(act[Boot])' = Owed(act[Boot])
        BY <3>1 DEF Owed
      <4>4. now'["system"] = now["system"] /\ now'["tick"] = now["tick"] + 1
        BY <1>0, <2>6, <3>5, <4>1
      <4>5. TimeAdjustment * (n + 1) = p + TimeAdjustment
        BY <1>0, <1>05
      <4>6. now["system"] - b = TimeAdjustment * (n + 1) + 0 + o
        BY <1>0, <1>07, <1>08, <4>2, <4>5
      <4>7. Uptime'
        BY <1>03, <1>04, <1>06, <1>08, <2>1, <4>2, <4>3, <4>4, <4>6 DEF Uptime
      <4> QED BY <3>2, <4>7 DEF ClockSum
    <3> QED BY <1>0, <3>3, <3>4, <3>5
  <2>8. CASE x # Clock
    <3>1. x = Boot /\ act[x].task = "set" /\ v = "system"
      BY <1>02, <2>00, <2>4, <2>8
    <3>2. Lead(act[Clock])' = Lead(act[Clock]) /\ ClockSum(act'[Clock])
      BY <1>0, <1>01, <2>3, <2>8 DEF Lead, Ahead, ClockSum, Like, TimeAdjustment
    <3>3. Owed(act[Boot]) = 0 /\ Owed(act[Boot])' = t - u
      BY <2>1, <2>2, <2>3, <3>1 DEF Owed
    <3>4. now'["system"] = t /\ now["system"] = u /\ now'["tick"] = now["tick"]
      BY <1>0, <2>00, <2>02, <2>5, <2>6, <3>1 DEF Old
    <3>5. t - b = p + l + (t - u)
      BY <1>06, <1>08, <3>3, <3>4
    <3>6. Uptime'
      BY <1>03, <1>04, <1>05, <1>07, <1>08, <2>1, <3>2, <3>3, <3>4, <3>5 DEF Uptime
    <3> QED BY <3>2, <3>6 DEF ClockSum
  <2> QED BY <2>7, <2>8
<1>7. ASSUME NEW x \in Actors, NEW r \in Activity, StoresHigh1(x, r) PROVE Goal
  <2>0. act[x].word \in Words
    <3>1. act[x] \in Activity
      BY <1>0
    <3> QED BY <3>1 DEF Activity
  <2>1. act[x].pc = "store high1" /\ Only(x, r) /\ now' = now
    BY <1>0, <1>7, <2>0, StoreHigh1Effect DEF StoresHigh1, StoreHigh1
  <2>2. act[x].task \in {"set", "clock"}
    <3>1. TasksOf(act[x], x)
      BY <1>0
    <3> QED BY <2>1, <3>1 DEF TasksOf, Actors
  <2>3. /\ r.pc \in {"idle", "budget", "count"}
        /\ r.pc = "idle" => (x = Clock => act[x].word = "tick")
        /\ r.pc = "budget" => act[x].word = "interrupt" /\ r.word = "interrupt"
        /\ r.pc = "count" => act[x].word = "system" /\ r.word = "system"
    <3>0. act[x] \in Activity
      BY <1>0
    <3>1. CASE r = Idle /\ (x = Clock => act[x].word = "tick")
      BY <3>1 DEF Idle
    <3>2. CASE r = [act[x] EXCEPT !.pc = "budget"] /\ act[x].word = "interrupt"
      BY <3>0, <3>2 DEF Activity
    <3>3. CASE r = [act[x] EXCEPT !.pc = "count"] /\ act[x].word = "system"
      BY <3>0, <3>3 DEF Activity
    <3> QED BY <1>7, <3>1, <3>2, <3>3 DEF StoresHigh1
  <2>4. CASE x = Clock
    <3>1. act[x].task = "clock"
      BY <1>0, <2>2, <2>4 DEF TasksOf
    <3>2. bootTime' = bootTime
      BY <1>7, <3>1 DEF StoresHigh1
    <3>3. Lead(act'[Clock]) = Lead(act[Clock]) /\ ClockSum(act'[Clock])
      BY <2>1, <2>3, <2>4 DEF Only, Lead, Ahead, ClockSum
    <3>4. Owed(act'[Boot]) = Owed(act[Boot])
      BY <1>0, <2>1, <2>4 DEF Only
    <3> QED BY <2>1, <3>2, <3>3, <3>4, SumKept
  <2>5. CASE x # Clock
    <3>1. x = Boot /\ act[x].task = "set"
      BY <1>02, <2>2, <2>5
    <3>2. bootTime' = bootTime + (act[Boot].new - act[Boot].value)
      BY <1>7, <3>1 DEF StoresHigh1
    <3>3. Lead(act[Clock])' = Lead(act[Clock]) /\ ClockSum(act'[Clock])
      BY <1>0, <1>01, <2>1, <2>5 DEF Only, Lead, Ahead, TimeAdjustment
    <3>4. Owed(act[Boot]) = act[Boot].new - act[Boot].value /\ Owed(act[Boot])' = 0
      BY <1>0, <2>1, <2>3, <3>1 DEF Only, Owed
    <3>5. now["system"] - (b + o) = p + l + 0
      BY <1>08
    <3>6. bootTime' = b + o
      BY <1>03, <1>06, <3>2, <3>4
    <3>7. Uptime'
      BY <1>04, <1>05, <1>07, <1>08, <2>1, <3>3, <3>4, <3>5, <3>6 DEF Uptime
    <3> QED BY <3>3, <3>7 DEF ClockSum
  <2> QED BY <2>4, <2>5
<1> HIDE DEF Goal
<1>8. Goal
  BY <1>0, <1>1, <1>2, <1>3, <1>4, <1>5, <1>6, <1>7, StepKinds DEF Goal
<1> QED BY <1>8 DEF Goal

(* When no interrupt and no SetSystemTime is under way, the system time is *)
(* the boot time and one adjustment for each tick: neither overwrites the  *)
(* other.                                                                  *)
THEOREM Uptimes ==
  ASSUME Setters \subseteq {Boot}
  PROVE  Spec => []UptimeKept
<1>1. UptimeInv /\ [Next]_vars => UptimeInv'
  BY NextClock, UptimeStep DEF UptimeInv
<1>2. Spec => []UptimeInv
  BY <1>1, InitUptime, PTL DEF Spec
<1>3. ASSUME UptimeInv PROVE UptimeKept
  <2> SUFFICES ASSUME act[Clock].pc = "idle", \A a \in Setters : act[a].task # "set"
               PROVE  now["system"] - bootTime = TimeAdjustment * now["tick"]
    BY DEF UptimeKept
  <2>1. Lead(act[Clock]) = 0
    BY DEF Lead, Ahead
  <2>2. TasksOf(act[Boot], Boot)
    BY <1>3 DEF UptimeInv, ClockInv, TaskInv, Tasks, Actors
  <2>3. Owed(act[Boot]) = 0
    BY <2>2 DEF TasksOf, Owed
  <2>4. TimeAdjustment * now["tick"] \in Int
    BY <1>3 DEF UptimeInv, ClockInv, TaskInv, TypeOK, Words, TimeAdjustment
  <2> QED BY <1>3, <2>1, <2>3, <2>4 DEF UptimeInv, Uptime
<1> QED BY <1>2, <1>3, PTL
=============================================================================
