----------------------------- MODULE SynchProofs ----------------------------
(***************************************************************************)
(* The operations of the scheduler keep its ready list exact, and every    *)
(* operation of threads/synch.cc, the time slice and the idle loop keep    *)
(* the wait queues consistent and lose no thread.  The proofs of the       *)
(* components that use them cite these lemmas.                             *)
(***************************************************************************)
EXTENDS Synch, TLAPS

\* List::Append adds one thread to those on the list.
LEMMA AppendOn ==
  ASSUME NEW S, NEW q \in Seq(S), NEW x \in S
  PROVE  /\ Append(q, x) \in Seq(S)
         /\ On(Append(q, x)) = On(q) \cup {x}
         /\ Append(q, x) # << >>
<1>1. Len(Append(q, x)) = Len(q) + 1 /\ Append(q, x) \in Seq(S)
  OBVIOUS
<1>2. \A i \in 1..Len(q) : Append(q, x)[i] = q[i]
  OBVIOUS
<1>3. Append(q, x)[Len(q) + 1] = x
  OBVIOUS
<1>4. On(Append(q, x)) = On(q) \cup {x}
  BY <1>1, <1>2, <1>3 DEF On
<1>5. Append(q, x) # << >>
  <2>1. Len(q) \in Nat
    OBVIOUS
  <2>2. Len(Append(q, x)) # 0
    BY <1>1, <2>1
  <2>3. Len(<< >>) = 0
    OBVIOUS
  <2> QED BY <2>2, <2>3, Zenon
<1> QED
  BY <1>1, <1>4, <1>5

\* Appending a thread that is not on the list duplicates nobody.
LEMMA AppendNoDuplicates ==
  ASSUME NEW S, NEW q \in Seq(S), NEW x \in S, NoDuplicates(q), x \notin On(q)
  PROVE  NoDuplicates(Append(q, x))
<1>1. Len(Append(q, x)) = Len(q) + 1
  OBVIOUS
<1>2. \A i \in 1..Len(q) : Append(q, x)[i] = q[i]
  OBVIOUS
<1>3. Append(q, x)[Len(q) + 1] = x
  OBVIOUS
<1> QED
  BY <1>1, <1>2, <1>3 DEF On, NoDuplicates

\* List::Remove takes the first thread and leaves the others.
LEMMA TailOn ==
  ASSUME NEW S, NEW q \in Seq(S), q # << >>
  PROVE  /\ Tail(q) \in Seq(S)
         /\ Head(q) \in On(q)
         /\ Head(q) \in S
         /\ On(q) = {Head(q)} \cup On(Tail(q))
<1>1. Len(Tail(q)) = Len(q) - 1 /\ Tail(q) \in Seq(S) /\ Len(q) \in Nat /\ Len(q) > 0
  OBVIOUS
<1>2. \A i \in 1..Len(Tail(q)) : Tail(q)[i] = q[i + 1]
  OBVIOUS
<1>3. Head(q) = q[1]
  OBVIOUS
<1>4. ASSUME NEW y \in On(q) PROVE y \in {Head(q)} \cup On(Tail(q))
  <2>1. PICK i \in 1..Len(q) : y = q[i]
    BY <1>4 DEF On
  <2>2. CASE i = 1
    BY <2>1, <2>2, <1>3
  <2>3. CASE i # 1
    <3>1. i - 1 \in 1..Len(Tail(q)) /\ Tail(q)[i - 1] = q[i]
      BY <2>3, <1>1, <1>2
    <3> QED BY <3>1, <2>1 DEF On
  <2> QED BY <2>2, <2>3
<1>5. ASSUME NEW y \in On(Tail(q)) PROVE y \in On(q)
  <2>1. PICK i \in 1..Len(Tail(q)) : y = Tail(q)[i]
    BY <1>5 DEF On
  <2>2. i + 1 \in 1..Len(q) /\ y = q[i + 1]
    BY <2>1, <1>1, <1>2
  <2> QED BY <2>2 DEF On
<1>6. Head(q) \in On(q)
  BY <1>1, <1>3 DEF On
<1> QED
  BY <1>1, <1>3, <1>4, <1>5, <1>6

\* On a list without duplicates the thread removed is gone from it.
LEMMA TailNoDuplicates ==
  ASSUME NEW S, NEW q \in Seq(S), q # << >>, NoDuplicates(q)
  PROVE  NoDuplicates(Tail(q)) /\ Head(q) \notin On(Tail(q))
<1>1. Len(Tail(q)) = Len(q) - 1 /\ Tail(q) \in Seq(S) /\ Len(q) \in Nat /\ Len(q) > 0
  OBVIOUS
<1>2. \A i \in 1..Len(Tail(q)) : Tail(q)[i] = q[i + 1]
  OBVIOUS
<1>3. Head(q) = q[1]
  OBVIOUS
<1> QED
  BY <1>1, <1>2, <1>3 DEF On, NoDuplicates

\* A queue moved whole behind the ready list (the wake-all loops).
LEMMA ConcatOn ==
  ASSUME NEW S, NEW q \in Seq(S), NEW r \in Seq(S)
  PROVE  /\ q \o r \in Seq(S)
         /\ On(q \o r) = On(q) \cup On(r)
<1>1. Len(q \o r) = Len(q) + Len(r) /\ q \o r \in Seq(S) /\ Len(q) \in Nat /\ Len(r) \in Nat
  OBVIOUS
<1>2. \A i \in 1..Len(q) : (q \o r)[i] = q[i]
  OBVIOUS
<1>3. \A i \in 1..Len(r) : (q \o r)[Len(q) + i] = r[i]
  OBVIOUS
<1>4. \A i \in 1..Len(q \o r) : i \in 1..Len(q) \/ (i - Len(q) \in 1..Len(r) /\ i = Len(q) + (i - Len(q)))
  BY <1>1
<1>5. ASSUME NEW y \in On(q \o r) PROVE y \in On(q) \cup On(r)
  BY <1>1, <1>2, <1>3, <1>4, <1>5 DEF On
<1>6. ASSUME NEW y \in On(q) PROVE y \in On(q \o r)
  BY <1>1, <1>2, <1>6 DEF On
<1>7. ASSUME NEW y \in On(r) PROVE y \in On(q \o r)
  <2>1. PICK i \in 1..Len(r) : y = r[i]
    BY <1>7 DEF On
  <2>2. Len(q) + i \in 1..Len(q \o r)
    BY <1>1
  <2> QED BY <2>1, <2>2, <1>3, Zenon DEF On
<1> QED
  BY <1>1, <1>5, <1>6, <1>7

\* Two disjoint lists without duplicates have none together.
LEMMA ConcatNoDuplicates ==
  ASSUME NEW S, NEW q \in Seq(S), NEW r \in Seq(S),
         NoDuplicates(q), NoDuplicates(r), On(q) \cap On(r) = {}
  PROVE  NoDuplicates(q \o r)
<1>1. Len(q \o r) = Len(q) + Len(r) /\ Len(q) \in Nat /\ Len(r) \in Nat
  OBVIOUS
<1>2. \A i \in 1..Len(q) : (q \o r)[i] = q[i]
  OBVIOUS
<1>3. \A i \in 1..Len(r) : (q \o r)[Len(q) + i] = r[i]
  OBVIOUS
<1>4. \A i \in 1..Len(q \o r) : i \in 1..Len(q) \/ i - Len(q) \in 1..Len(r)
  BY <1>1
<1>5. SUFFICES ASSUME NEW i \in 1..Len(q \o r), NEW j \in 1..Len(q \o r), i # j
               PROVE  (q \o r)[i] # (q \o r)[j]
  BY DEF NoDuplicates
<1>6. CASE i \in 1..Len(q) /\ j \in 1..Len(q)
  BY <1>2, <1>5, <1>6 DEF NoDuplicates
<1>7. \A a \in 1..Len(q), b \in 1..Len(r) : q[a] # r[b]
  BY Zenon DEF On
<1>8. CASE i \in 1..Len(q) /\ j - Len(q) \in 1..Len(r)
  BY <1>1, <1>2, <1>3, <1>7, <1>8
<1>9. CASE j \in 1..Len(q) /\ i - Len(q) \in 1..Len(r)
  BY <1>1, <1>2, <1>3, <1>7, <1>9
<1>10. CASE i - Len(q) \in 1..Len(r) /\ j - Len(q) \in 1..Len(r)
  <2>1. (q \o r)[i] = r[i - Len(q)] /\ (q \o r)[j] = r[j - Len(q)] /\ i - Len(q) # j - Len(q)
    BY <1>1, <1>3, <1>5, <1>10
  <2> QED BY <2>1, <1>10, Zenon DEF NoDuplicates
<1> QED
  BY <1>4, <1>6, <1>8, <1>9, <1>10

\* The empty list, and that only it has nobody on it.
LEMMA EmptyOn ==
  /\ On(<< >>) = {}
  /\ NoDuplicates(<< >>)
  /\ \A S : \A q \in Seq(S) : On(q) = {} => q = << >>
<1>1. On(<< >>) = {} /\ NoDuplicates(<< >>)
  BY DEF On, NoDuplicates
<1>2. ASSUME NEW S, NEW q \in Seq(S), q # << >> PROVE On(q) # {}
  BY <1>2, TailOn
<1> QED BY <1>1, <1>2
-----------------------------------------------------------------------------
\* No thread has the CPU: what Scheduler::Run assumes of its caller.
CPUFree(s) == \A t \in Threads : s.status[t] # "RUNNING"

\* Scheduler::Run takes the first thread off the list and blocks nobody.
LEMMA RunKeeps ==
  ASSUME NEW s \in SchedulerState, ReadyExact(s), CPUFree(s), s.readyList # << >>
  PROVE  /\ Run(s) \in SchedulerState
         /\ ReadyExact(Run(s))
         /\ Blocked(Run(s)) = Blocked(s)
         /\ Run(s).status[Run(s).currentThread] = "RUNNING"
         /\ \A u \in Threads : Run(s).status[u] = "JUST_CREATED" <=> s.status[u] = "JUST_CREATED"
<1> DEFINE h == Head(s.readyList)
<1>1. /\ s.readyList \in Seq(Threads)
      /\ s.status \in [Threads -> Status]
      /\ s.currentThread \in Threads
  BY DEF SchedulerState
<1>2. /\ Tail(s.readyList) \in Seq(Threads)
      /\ h \in Threads
      /\ h \in On(s.readyList)
      /\ On(s.readyList) = {h} \cup On(Tail(s.readyList))
  BY <1>1, TailOn
<1>3. NoDuplicates(Tail(s.readyList)) /\ h \notin On(Tail(s.readyList))
  BY <1>1, TailNoDuplicates DEF ReadyExact
<1>4. s.status[h] = "READY"
  BY <1>2 DEF ReadyExact
<1>5. /\ Run(s).currentThread = h
      /\ Run(s).readyList = Tail(s.readyList)
      /\ Run(s).status = [s.status EXCEPT ![h] = "RUNNING"]
      /\ Run(s) \in SchedulerState
  BY <1>1, <1>2, Zenon DEF Run, SchedulerState, Status
<1> HIDE DEF h
<1>6. \A u \in Threads : Run(s).status[u] = IF u = h THEN "RUNNING" ELSE s.status[u]
  BY <1>1, <1>5
<1>7. ReadyExact(Run(s))
  BY <1>2, <1>3, <1>5, <1>6 DEF ReadyExact, CPUFree
<1> QED
  BY <1>2, <1>4, <1>5, <1>6, <1>7 DEF Blocked

\* Scheduler::ReadyToRun lists a thread that was not listed, and nobody else.
LEMMA ReadyToRunKeeps ==
  ASSUME NEW s \in SchedulerState, ReadyExact(s),
         NEW t \in Threads, s.status[t] # "READY"
  PROVE  /\ ReadyToRun(s, t) \in SchedulerState
         /\ ReadyExact(ReadyToRun(s, t))
         /\ Blocked(ReadyToRun(s, t)) = Blocked(s) \ {t}
         /\ ReadyToRun(s, t).currentThread = s.currentThread
         /\ ReadyToRun(s, t).readyList # << >>
         /\ \A u \in Threads :
              ReadyToRun(s, t).status[u] = IF u = t THEN "READY" ELSE s.status[u]
<1>1. /\ s.readyList \in Seq(Threads)
      /\ s.status \in [Threads -> Status]
      /\ s.currentThread \in Threads
  BY DEF SchedulerState
<1>2. /\ Append(s.readyList, t) \in Seq(Threads)
      /\ On(Append(s.readyList, t)) = On(s.readyList) \cup {t}
      /\ Append(s.readyList, t) # << >>
  BY <1>1, AppendOn
<1>3. NoDuplicates(Append(s.readyList, t))
  BY <1>1, AppendNoDuplicates DEF ReadyExact
<1>4. /\ ReadyToRun(s, t).currentThread = s.currentThread
      /\ ReadyToRun(s, t).readyList = Append(s.readyList, t)
      /\ ReadyToRun(s, t).status = [s.status EXCEPT ![t] = "READY"]
      /\ ReadyToRun(s, t) \in SchedulerState
  BY <1>1, <1>2, Zenon DEF ReadyToRun, SchedulerState, Status
<1>5. \A u \in Threads : ReadyToRun(s, t).status[u] = IF u = t THEN "READY" ELSE s.status[u]
  BY <1>1, <1>4
<1>6. ReadyExact(ReadyToRun(s, t))
  BY <1>2, <1>3, <1>4, <1>5 DEF ReadyExact
<1> QED
  BY <1>2, <1>4, <1>5, <1>6 DEF Blocked

\* Thread::Yield blocks nobody.
LEMMA YieldKeeps ==
  ASSUME NEW s \in SchedulerState, ReadyExact(s), s.status[s.currentThread] = "RUNNING"
  PROVE  /\ Yield(s) \in SchedulerState
         /\ ReadyExact(Yield(s))
         /\ Blocked(Yield(s)) = Blocked(s)
         /\ Yield(s).status[Yield(s).currentThread] = "RUNNING"
         /\ \A u \in Threads : Yield(s).status[u] = "JUST_CREATED" <=> s.status[u] = "JUST_CREATED"
<1>1. CASE s.readyList = << >>
  BY <1>1 DEF Yield
<1>2. CASE s.readyList # << >>
  <2> DEFINE r == ReadyToRun(s, s.currentThread)
  <2>0. s.currentThread \in Threads
    BY DEF SchedulerState
  <2>1. /\ r \in SchedulerState
        /\ ReadyExact(r)
        /\ Blocked(r) = Blocked(s) \ {s.currentThread}
        /\ r.readyList # << >>
        /\ \A u \in Threads : r.status[u] = IF u = s.currentThread THEN "READY" ELSE s.status[u]
    BY <2>0, ReadyToRunKeeps
  <2>2. CPUFree(r)
    BY <2>1 DEF CPUFree, ReadyExact
  <2>3. Blocked(s) \ {s.currentThread} = Blocked(s)
    BY DEF Blocked
  <2>4. Yield(s) = Run(r)
    BY <1>2 DEF Yield
  <2> HIDE DEF r
  <2>5. /\ Run(r) \in SchedulerState
        /\ ReadyExact(Run(r))
        /\ Blocked(Run(r)) = Blocked(r)
        /\ Run(r).status[Run(r).currentThread] = "RUNNING"
        /\ \A u \in Threads : Run(r).status[u] = "JUST_CREATED" <=> r.status[u] = "JUST_CREATED"
    BY <2>1, <2>2, RunKeeps
  <2>6. \A u \in Threads : r.status[u] = "JUST_CREATED" <=> s.status[u] = "JUST_CREATED"
    BY <2>1
  <2> QED
    BY <2>1, <2>3, <2>4, <2>5, <2>6
<1> QED
  BY <1>1, <1>2

\* Thread::Sleep blocks the current thread and nobody else.
LEMMA SleepKeeps ==
  ASSUME NEW s \in SchedulerState, ReadyExact(s), s.status[s.currentThread] = "RUNNING"
  PROVE  /\ Sleep(s) \in SchedulerState
         /\ ReadyExact(Sleep(s))
         /\ Blocked(Sleep(s)) = Blocked(s) \cup {s.currentThread}
         /\ \A u \in Threads : Sleep(s).status[u] = "JUST_CREATED" <=> s.status[u] = "JUST_CREATED"
<1> DEFINE b == [s EXCEPT !.status[s.currentThread] = "BLOCKED"]
<1>1. /\ s.readyList \in Seq(Threads)
      /\ s.status \in [Threads -> Status]
      /\ s.currentThread \in Threads
  BY DEF SchedulerState
<1>2. /\ b \in SchedulerState
      /\ b.currentThread = s.currentThread
      /\ b.readyList = s.readyList
      /\ b.status = [s.status EXCEPT ![s.currentThread] = "BLOCKED"]
  BY <1>1 DEF SchedulerState, Status
<1>3. \A u \in Threads : b.status[u] = IF u = s.currentThread THEN "BLOCKED" ELSE s.status[u]
  BY <1>1, <1>2
<1>4. Sleep(s) = IF b.readyList = << >> THEN b ELSE Run(b)
  BY DEF Sleep
<1> HIDE DEF b
<1>5. ReadyExact(b) /\ CPUFree(b)
  BY <1>2, <1>3 DEF ReadyExact, CPUFree
<1>6. Blocked(b) = Blocked(s) \cup {s.currentThread}
  BY <1>1, <1>3 DEF Blocked
<1>7. \A u \in Threads : b.status[u] = "JUST_CREATED" <=> s.status[u] = "JUST_CREATED"
  BY <1>3
<1>8. CASE b.readyList = << >>
  BY <1>2, <1>4, <1>5, <1>6, <1>7, <1>8, Zenon
<1>9. CASE b.readyList # << >>
  <2>1. /\ Run(b) \in SchedulerState
        /\ ReadyExact(Run(b))
        /\ Blocked(Run(b)) = Blocked(b)
        /\ \A u \in Threads : Run(b).status[u] = "JUST_CREATED" <=> b.status[u] = "JUST_CREATED"
    BY <1>2, <1>5, <1>9, RunKeeps, Zenon
  <2> QED
    BY <1>4, <1>6, <1>7, <1>9, <2>1
<1> QED
  BY <1>8, <1>9

\* Waking the first of a queue of blocked threads unblocks that one only.
LEMMA WakeFirstKeeps ==
  ASSUME NEW s \in SchedulerState, ReadyExact(s),
         NEW q \in Seq(Threads), NoDuplicates(q), On(q) \subseteq Blocked(s)
  PROVE  /\ WakeFirst(s, q) \in SchedulerState
         /\ ReadyExact(WakeFirst(s, q))
         /\ Blocked(WakeFirst(s, q)) = Blocked(s) \ (On(q) \ On(DropFirst(q)))
         /\ WakeFirst(s, q).currentThread = s.currentThread
         /\ \A u \in Threads : s.status[u] # "BLOCKED" => WakeFirst(s, q).status[u] = s.status[u]
         /\ \A u \in Threads : WakeFirst(s, q).status[u] = "JUST_CREATED" => s.status[u] = "JUST_CREATED"
         /\ DropFirst(q) \in Seq(Threads)
         /\ NoDuplicates(DropFirst(q))
         /\ On(DropFirst(q)) \subseteq On(q)
<1>1. CASE q = << >>
  BY <1>1 DEF WakeFirst, DropFirst
<1>2. CASE q # << >>
  <2>1. /\ Tail(q) \in Seq(Threads)
        /\ Head(q) \in Threads
        /\ On(q) = {Head(q)} \cup On(Tail(q))
    BY <1>2, TailOn
  <2>2. NoDuplicates(Tail(q)) /\ Head(q) \notin On(Tail(q))
    BY <1>2, TailNoDuplicates
  <2>3. s.status[Head(q)] = "BLOCKED"
    BY <2>1 DEF Blocked
  <2>4. DropFirst(q) = Tail(q) /\ WakeFirst(s, q) = ReadyToRun(s, Head(q))
    BY <1>2 DEF DropFirst, WakeFirst
  <2>5. On(q) \ On(Tail(q)) = {Head(q)}
    BY <2>1, <2>2
  <2>6. /\ ReadyToRun(s, Head(q)) \in SchedulerState
        /\ ReadyExact(ReadyToRun(s, Head(q)))
        /\ Blocked(ReadyToRun(s, Head(q))) = Blocked(s) \ {Head(q)}
        /\ ReadyToRun(s, Head(q)).currentThread = s.currentThread
        /\ \A u \in Threads :
             ReadyToRun(s, Head(q)).status[u] = IF u = Head(q) THEN "READY" ELSE s.status[u]
    BY <2>1, <2>3, ReadyToRunKeeps
  <2> QED
    BY <2>1, <2>2, <2>3, <2>4, <2>5, <2>6
<1> QED
  BY <1>1, <1>2

\* Waking a whole queue of blocked threads unblocks exactly those.
LEMMA WakeAllKeeps ==
  ASSUME NEW s \in SchedulerState, ReadyExact(s),
         NEW q \in Seq(Threads), NoDuplicates(q), On(q) \subseteq Blocked(s)
  PROVE  /\ WakeAll(s, q) \in SchedulerState
         /\ ReadyExact(WakeAll(s, q))
         /\ Blocked(WakeAll(s, q)) = Blocked(s) \ On(q)
         /\ WakeAll(s, q).currentThread = s.currentThread
         /\ \A u \in Threads : WakeAll(s, q).status[u] = IF u \in On(q) THEN "READY" ELSE s.status[u]
<1>1. /\ s.readyList \in Seq(Threads)
      /\ s.status \in [Threads -> Status]
      /\ s.currentThread \in Threads
  BY DEF SchedulerState
<1>2. /\ s.readyList \o q \in Seq(Threads)
      /\ On(s.readyList \o q) = On(s.readyList) \cup On(q)
  BY <1>1, ConcatOn
<1>3. On(s.readyList) \cap On(q) = {}
  BY DEF ReadyExact, Blocked
<1>4. NoDuplicates(s.readyList \o q)
  BY <1>1, <1>3, ConcatNoDuplicates DEF ReadyExact
<1>5. WakeAll(s, q) =
        [s EXCEPT !.readyList = s.readyList \o q,
                  !.status = [t \in Threads |-> IF t \in On(q) THEN "READY" ELSE s.status[t]]]
  <2>1. \A t : (\E i \in 1..Len(q) : q[i] = t) <=> t \in On(q)
    BY DEF On
  <2> QED BY <2>1, Zenon DEF WakeAll
<1>6. /\ WakeAll(s, q).currentThread = s.currentThread
      /\ WakeAll(s, q).readyList = s.readyList \o q
      /\ WakeAll(s, q).status = [t \in Threads |-> IF t \in On(q) THEN "READY" ELSE s.status[t]]
      /\ WakeAll(s, q) \in SchedulerState
  <2> DEFINE st == [t \in Threads |-> IF t \in On(q) THEN "READY" ELSE s.status[t]]
  <2>1. st \in [Threads -> Status]
    BY <1>1 DEF Status
  <2>2. WakeAll(s, q) = [s EXCEPT !.readyList = s.readyList \o q, !.status = st]
    BY <1>5
  <2> HIDE DEF st
  <2>3. /\ WakeAll(s, q).currentThread = s.currentThread
        /\ WakeAll(s, q).readyList = s.readyList \o q
        /\ WakeAll(s, q).status = st
        /\ WakeAll(s, q) \in SchedulerState
    BY <1>1, <1>2, <2>1, <2>2, Zenon DEF SchedulerState
  <2> QED BY <2>3 DEF st
<1>7. \A u \in Threads : WakeAll(s, q).status[u] = IF u \in On(q) THEN "READY" ELSE s.status[u]
  BY <1>6
<1>8. On(q) \subseteq Threads
  BY DEF Blocked
<1>9. ReadyExact(WakeAll(s, q))
  BY <1>2, <1>4, <1>6, <1>7, <1>8, ZenonT(60) DEF ReadyExact, Blocked
<1> QED
  BY <1>6, <1>7, <1>9 DEF Blocked
-----------------------------------------------------------------------------
\* One semaphore's queue changes: it loses threads, or gets threads that were
\* not blocked.
LEMMA SemaphoreQueueChange ==
  ASSUME NEW sq, NEW sq2, NEW hq, NEW B, NEW B2, NEW s \in Semaphores,
         Apart(sq, hq, B),
         \A r \in Semaphores : r # s => sq2[r] = sq[r],
         NoDuplicates(sq2[s]),
         \A x \in On(sq2[s]) : x \in On(sq[s]) \/ x \notin B,
         (B \ On(sq[s])) \cup On(sq2[s]) \subseteq B2
  PROVE  Apart(sq2, hq, B2)
<1>1. \A r \in Semaphores : r # s => On(sq2[s]) \cap On(sq[r]) = {}
  BY DEF Apart
<1>2. \A c \in Conditions : On(sq2[s]) \cap On(hq[c]) = {}
  BY DEF Apart
<1>3. \A r \in Semaphores : NoDuplicates(sq2[r]) /\ On(sq2[r]) \subseteq B2
  <2> TAKE r \in Semaphores
  <2>1. CASE r = s
    BY <2>1
  <2>2. CASE r # s
    BY <2>2 DEF Apart
  <2> QED BY <2>1, <2>2
<1>4. \A c \in Conditions : NoDuplicates(hq[c]) /\ On(hq[c]) \subseteq B2
  BY DEF Apart
<1>5. \A r, q \in Semaphores : r # q => On(sq2[r]) \cap On(sq2[q]) = {}
  <2> SUFFICES ASSUME NEW r \in Semaphores, NEW q \in Semaphores, r # q
               PROVE  On(sq2[r]) \cap On(sq2[q]) = {}
    OBVIOUS
  <2>1. CASE r = s
    BY <1>1, <2>1
  <2>2. CASE q = s
    BY <1>1, <2>2
  <2>3. CASE r # s /\ q # s
    BY <2>3 DEF Apart
  <2> QED BY <2>1, <2>2, <2>3
<1>6. \A r \in Semaphores, c \in Conditions : On(sq2[r]) \cap On(hq[c]) = {}
  <2> TAKE r \in Semaphores, c \in Conditions
  <2>1. CASE r = s
    BY <1>2, <2>1
  <2>2. CASE r # s
    BY <2>2 DEF Apart
  <2> QED BY <2>1, <2>2
<1> QED
  BY <1>3, <1>4, <1>5, <1>6, Zenon DEF Apart

\* The same for the queue of a condition.
LEMMA ConditionQueueChange ==
  ASSUME NEW sq, NEW hq, NEW hq2, NEW B, NEW B2, NEW c \in Conditions,
         Apart(sq, hq, B),
         \A d \in Conditions : d # c => hq2[d] = hq[d],
         NoDuplicates(hq2[c]),
         \A x \in On(hq2[c]) : x \in On(hq[c]) \/ x \notin B,
         (B \ On(hq[c])) \cup On(hq2[c]) \subseteq B2
  PROVE  Apart(sq, hq2, B2)
<1>1. \A d \in Conditions : d # c => On(hq2[c]) \cap On(hq[d]) = {}
  BY DEF Apart
<1>2. \A s \in Semaphores : On(sq[s]) \cap On(hq2[c]) = {}
  BY DEF Apart
<1>3. \A d \in Conditions : NoDuplicates(hq2[d]) /\ On(hq2[d]) \subseteq B2
  <2> TAKE d \in Conditions
  <2>1. CASE d = c
    BY <2>1
  <2>2. CASE d # c
    BY <2>2 DEF Apart
  <2> QED BY <2>1, <2>2
<1>4. \A s \in Semaphores : NoDuplicates(sq[s]) /\ On(sq[s]) \subseteq B2
  BY DEF Apart
<1>5. \A d, e \in Conditions : d # e => On(hq2[d]) \cap On(hq2[e]) = {}
  <2> SUFFICES ASSUME NEW d \in Conditions, NEW e \in Conditions, d # e
               PROVE  On(hq2[d]) \cap On(hq2[e]) = {}
    OBVIOUS
  <2>1. CASE d = c
    BY <1>1, <2>1
  <2>2. CASE e = c
    BY <1>1, <2>2
  <2>3. CASE d # c /\ e # c
    BY <2>3 DEF Apart
  <2> QED BY <2>1, <2>2, <2>3
<1>6. \A s \in Semaphores, d \in Conditions : On(sq[s]) \cap On(hq2[d]) = {}
  <2> TAKE s \in Semaphores, d \in Conditions
  <2>1. CASE d = c
    BY <1>2, <2>1
  <2>2. CASE d # c
    BY <2>2 DEF Apart
  <2> QED BY <2>1, <2>2
<1> QED
  BY <1>3, <1>4, <1>5, <1>6, Zenon DEF Apart
-----------------------------------------------------------------------------
SynchInv ==
  /\ SynchTypeOK
  /\ ReadyExact(sched)
  /\ WaitersApart

AllForked == \A t \in Threads : sched.status[t] # "JUST_CREATED"

BlockedWait == \A t \in Blocked(sched) : Waits(t)

SemQueues == [s \in Semaphores |-> sem[s].queue]

\* What the operations may assume of the state.
LEMMA SynchInvFacts ==
  ASSUME SynchInv
  PROVE  /\ sched \in SchedulerState
         /\ ReadyExact(sched)
         /\ sem \in [Semaphores -> SemaphoreState]
         /\ hilos \in [Conditions -> Seq(Threads)]
         /\ asleep \in SUBSET Threads
         /\ \A s \in Semaphores : /\ sem[s].value \in Nat
                                  /\ sem[s].queue \in Seq(Threads)
                                  /\ SemQueues[s] = sem[s].queue
                                  /\ NoDuplicates(sem[s].queue)
                                  /\ On(sem[s].queue) \subseteq Blocked(sched)
         /\ \A c \in Conditions : /\ hilos[c] \in Seq(Threads)
                                  /\ NoDuplicates(hilos[c])
                                  /\ On(hilos[c]) \subseteq Blocked(sched)
         /\ Apart(SemQueues, hilos, Blocked(sched))
<1>1. /\ sched \in SchedulerState
      /\ sem \in [Semaphores -> SemaphoreState]
      /\ hilos \in [Conditions -> Seq(Threads)]
      /\ asleep \in SUBSET Threads
      /\ ReadyExact(sched)
      /\ WaitersApart
  BY DEF SynchInv, SynchTypeOK
<1>2. Apart(SemQueues, hilos, Blocked(sched))
  BY <1>1 DEF WaitersApart, SemQueues
<1>3. \A s \in Semaphores : SemQueues[s] = sem[s].queue
  BY DEF SemQueues
<1>4. \A s \in Semaphores : sem[s].value \in Nat /\ sem[s].queue \in Seq(Threads)
  BY <1>1 DEF SemaphoreState
<1> QED
  BY <1>1, <1>2, <1>3, <1>4, Zenon DEF Apart

\* Semaphore::P, taking a unit or going to sleep.
LEMMA PKeeps ==
  ASSUME NEW t \in Threads, NEW s \in Semaphores, NEW next,
         SynchInv, Executing(sched, t), P(t, s, next), UNCHANGED hilos
  PROVE  /\ SynchInv'
         /\ AllForked => AllForked'
         /\ BlockedWait => BlockedWait'
<1>1. CASE sem[s].value = 0
  <2>1. /\ sem' = [sem EXCEPT ![s].queue = Append(@, t)]
        /\ sched' = Sleep(sched)
        /\ asleep' = asleep \cup {t}
    BY <1>1 DEF P
  <2>2. t = sched.currentThread /\ t \notin Blocked(sched)
    BY DEF Executing, Blocked
  <2>3. /\ sched' \in SchedulerState
        /\ ReadyExact(sched')
        /\ Blocked(sched') = Blocked(sched) \cup {t}
        /\ \A u \in Threads : sched'.status[u] = "JUST_CREATED" <=> sched.status[u] = "JUST_CREATED"
    BY <2>1, <2>2, SynchInvFacts, SleepKeeps DEF Executing
  <2>4. t \notin On(sem[s].queue)
    BY <2>2, SynchInvFacts
  <2>5. /\ Append(sem[s].queue, t) \in Seq(Threads)
        /\ On(Append(sem[s].queue, t)) = On(sem[s].queue) \cup {t}
        /\ NoDuplicates(Append(sem[s].queue, t))
    BY <2>4, SynchInvFacts, AppendOn, AppendNoDuplicates
  <2>6. sem' \in [Semaphores -> SemaphoreState]
    BY <2>1, <2>5, SynchInvFacts, ZenonT(60) DEF SemaphoreState
  <2>7. \A r \in Semaphores :
          sem'[r].queue = IF r = s THEN Append(sem[s].queue, t) ELSE sem[r].queue
    BY <2>1, SynchInvFacts DEF SemaphoreState
  <2>8. /\ \A r \in Semaphores : r # s => SemQueues'[r] = SemQueues[r]
        /\ SemQueues'[s] = Append(sem[s].queue, t)
        /\ SemQueues[s] = sem[s].queue
    BY <2>7, Zenon DEF SemQueues
  <2>9. Apart(SemQueues', hilos, Blocked(sched'))
    <3>1. \A x \in On(SemQueues'[s]) : x \in On(SemQueues[s]) \/ x \notin Blocked(sched)
      BY <2>2, <2>5, <2>8
    <3>2. (Blocked(sched) \ On(SemQueues[s])) \cup On(SemQueues'[s]) \subseteq Blocked(sched')
      BY <2>3, <2>5, <2>8, SynchInvFacts
    <3>3. NoDuplicates(SemQueues'[s])
      BY <2>5, <2>8
    <3>4. Apart(SemQueues, hilos, Blocked(sched))
      BY SynchInvFacts
    <3>5. \A r \in Semaphores : r # s => SemQueues'[r] = SemQueues[r]
      BY <2>8
    <3> QED
      BY <3>1, <3>2, <3>3, <3>4, <3>5, SemaphoreQueueChange, ZenonT(60)
  <2>10. WaitersApart'
    BY <2>9 DEF WaitersApart, SemQueues
  <2>11. BlockedWait => BlockedWait'
    BY <2>3, <2>5, <2>7 DEF BlockedWait, Waits
  <2> QED
    BY <2>1, <2>3, <2>6, <2>10, <2>11, SynchInvFacts, Zenon DEF SynchInv, SynchTypeOK, AllForked
<1>2. CASE sem[s].value # 0
  <2>1. /\ sem' = [sem EXCEPT ![s].value = @ - 1]
        /\ asleep' = asleep \ {t}
        /\ sched' = sched
    BY <1>2 DEF P
  <2>2. sem' \in [Semaphores -> SemaphoreState]
    BY <1>2, <2>1, SynchInvFacts DEF SemaphoreState
  <2>3. \A r \in Semaphores : sem'[r].queue = sem[r].queue
    BY <2>1, SynchInvFacts DEF SemaphoreState
  <2>4. WaitersApart'
    BY <2>1, <2>3 DEF SynchInv, WaitersApart
  <2>5. BlockedWait => BlockedWait'
    BY <2>1, <2>3, ZenonT(60) DEF BlockedWait, Waits
  <2> QED
    BY <2>1, <2>2, <2>4, <2>5, SynchInvFacts DEF SynchInv, SynchTypeOK, AllForked
<1> QED
  BY <1>1, <1>2

\* What Semaphore::V leaves behind, for V itself and for the V inside
\* Condition::Wait.
LEMMA VLeaves ==
  ASSUME SynchInv, NEW s \in Semaphores
  PROVE  /\ VWakes(s) \in SchedulerState
         /\ ReadyExact(VWakes(s))
         /\ VWakes(s).currentThread = sched.currentThread
         /\ Blocked(VWakes(s)) = Blocked(sched) \ (On(sem[s].queue) \ On(DropFirst(sem[s].queue)))
         /\ \A u \in Threads : sched.status[u] # "BLOCKED" => VWakes(s).status[u] = sched.status[u]
         /\ \A u \in Threads : VWakes(s).status[u] = "JUST_CREATED" => sched.status[u] = "JUST_CREATED"
         /\ VState(s) \in [Semaphores -> SemaphoreState]
         /\ \A r \in Semaphores :
              VState(s)[r].queue = IF r = s THEN DropFirst(sem[s].queue) ELSE sem[r].queue
         /\ Apart([r \in Semaphores |-> VState(s)[r].queue], hilos, Blocked(VWakes(s)))
<1> DEFINE q == sem[s].queue
<1>1. /\ sched \in SchedulerState /\ ReadyExact(sched)
      /\ q \in Seq(Threads) /\ NoDuplicates(q) /\ On(q) \subseteq Blocked(sched)
  BY SynchInvFacts
<1>2. VWakes(s) = WakeFirst(sched, q)
  BY DEF VWakes
<1> HIDE DEF q
<1>3. /\ VWakes(s) \in SchedulerState
      /\ ReadyExact(VWakes(s))
      /\ VWakes(s).currentThread = sched.currentThread
      /\ Blocked(VWakes(s)) = Blocked(sched) \ (On(q) \ On(DropFirst(q)))
      /\ \A u \in Threads : sched.status[u] # "BLOCKED" => VWakes(s).status[u] = sched.status[u]
      /\ \A u \in Threads : VWakes(s).status[u] = "JUST_CREATED" => sched.status[u] = "JUST_CREATED"
      /\ DropFirst(q) \in Seq(Threads)
      /\ NoDuplicates(DropFirst(q))
      /\ On(DropFirst(q)) \subseteq On(q)
  BY <1>1, <1>2, WakeFirstKeeps
<1>4. DropFirst(sem[s].queue) \in Seq(Threads)
  BY <1>3 DEF q
<1>5. VState(s) \in [Semaphores -> SemaphoreState]
  <2> DEFINE w == [sem EXCEPT ![s].value = sem[s].value + 1]
  <2>1. w \in [Semaphores -> SemaphoreState]
    BY SynchInvFacts, SMTT(60) DEF SemaphoreState
  <2>2. VState(s) = [w EXCEPT ![s].queue = DropFirst(sem[s].queue)]
    BY DEF VState
  <2> HIDE DEF w
  <2> QED BY <1>4, <2>1, <2>2, Zenon DEF SemaphoreState
<1>6. \A r \in Semaphores : VState(s)[r].queue = IF r = s THEN DropFirst(q) ELSE sem[r].queue
  BY SynchInvFacts DEF SemaphoreState, VState, q
<1>7. Apart([r \in Semaphores |-> VState(s)[r].queue], hilos, Blocked(VWakes(s)))
  <2> DEFINE sq2 == [r \in Semaphores |-> VState(s)[r].queue]
  <2>1. \A r \in Semaphores : r # s => sq2[r] = SemQueues[r]
    BY <1>6 DEF SemQueues
  <2>2. sq2[s] = DropFirst(q) /\ SemQueues[s] = q
    BY <1>6 DEF SemQueues, q
  <2> HIDE DEF sq2
  <2>3. \A x \in On(sq2[s]) : x \in On(SemQueues[s]) \/ x \notin Blocked(sched)
    BY <2>2, <1>3
  <2>4. (Blocked(sched) \ On(SemQueues[s])) \cup On(sq2[s]) \subseteq Blocked(VWakes(s))
    BY <2>2, <1>1, <1>3
  <2>5. NoDuplicates(sq2[s])
    BY <2>2, <1>3
  <2>6. Apart(SemQueues, hilos, Blocked(sched))
    BY SynchInvFacts
  <2>7. Apart(sq2, hilos, Blocked(VWakes(s)))
    BY <2>1, <2>3, <2>4, <2>5, <2>6, SemaphoreQueueChange, SMTT(30)
  <2> QED BY <2>7 DEF sq2
<1> QED
  BY <1>3, <1>5, <1>6, <1>7 DEF q

\* Semaphore::V, by a thread or by a handler.
LEMMA VKeeps ==
  ASSUME SynchInv, NEW s \in Semaphores, V(s), UNCHANGED <<hilos, asleep>>
  PROVE  /\ SynchInv'
         /\ AllForked => AllForked'
         /\ BlockedWait => BlockedWait'
<1>1. sem' = VState(s) /\ sched' = VWakes(s) /\ hilos' = hilos /\ asleep' = asleep
  BY DEF V
<1>2. SynchTypeOK'
  BY <1>1, VLeaves, SynchInvFacts, Zenon DEF SynchTypeOK
<1>3. ReadyExact(sched')
  BY <1>1, VLeaves, Zenon
<1>4. WaitersApart'
  BY <1>1, VLeaves DEF WaitersApart
<1>5. AllForked => AllForked'
  BY <1>1, VLeaves, Zenon DEF AllForked
<1>6. BlockedWait => BlockedWait'
  BY <1>1, VLeaves, ZenonT(60) DEF BlockedWait, Waits
<1> QED
  BY <1>2, <1>3, <1>4, <1>5, <1>6 DEF SynchInv

\* Condition::Wait up to the switch.
LEMMA WaitSleepKeeps ==
  ASSUME NEW t \in Threads, NEW c \in Conditions, NEW s \in Semaphores,
         SynchInv, Executing(sched, t), WaitSleep(t, c, s)
  PROVE  /\ SynchInv'
         /\ AllForked => AllForked'
         /\ BlockedWait => BlockedWait'
<1> DEFINE v == VWakes(s)
           sq == [r \in Semaphores |-> VState(s)[r].queue]
<1>1. /\ sem' = VState(s)
      /\ hilos' = [hilos EXCEPT ![c] = Append(@, t)]
      /\ sched' = Sleep(v)
      /\ asleep' = asleep \cup {t}
  BY DEF WaitSleep
<1>2. /\ v \in SchedulerState /\ ReadyExact(v)
      /\ v.currentThread = t
      /\ v.status[v.currentThread] = "RUNNING"
      /\ Blocked(v) = Blocked(sched) \ (On(sem[s].queue) \ On(DropFirst(sem[s].queue)))
      /\ \A u \in Threads : v.status[u] = "JUST_CREATED" => sched.status[u] = "JUST_CREATED"
      /\ Apart(sq, hilos, Blocked(v))
  BY VLeaves, ZenonT(60) DEF Executing
<1> HIDE DEF v, sq
<1>3. /\ sched' \in SchedulerState
      /\ ReadyExact(sched')
      /\ Blocked(sched') = Blocked(v) \cup {t}
      /\ \A u \in Threads : sched'.status[u] = "JUST_CREATED" <=> v.status[u] = "JUST_CREATED"
  BY <1>1, <1>2, SleepKeeps
<1>4. t \notin Blocked(v)
  BY <1>2, Zenon DEF Blocked
<1>5. hilos[c] \in Seq(Threads) /\ NoDuplicates(hilos[c]) /\ On(hilos[c]) \subseteq Blocked(v)
  BY <1>2, SynchInvFacts, Zenon DEF Apart
<1>6. /\ Append(hilos[c], t) \in Seq(Threads)
      /\ On(Append(hilos[c], t)) = On(hilos[c]) \cup {t}
      /\ NoDuplicates(Append(hilos[c], t))
  BY <1>4, <1>5, AppendOn, AppendNoDuplicates
<1>7. hilos' \in [Conditions -> Seq(Threads)]
  BY <1>1, <1>6, SynchInvFacts, Zenon
<1>8. \A d \in Conditions : hilos'[d] = IF d = c THEN Append(hilos[c], t) ELSE hilos[d]
  BY <1>1, SynchInvFacts
<1>9. Apart(sq, hilos', Blocked(sched'))
  <2>1. \A d \in Conditions : d # c => hilos'[d] = hilos[d]
    BY <1>8
  <2>2. \A x \in On(hilos'[c]) : x \in On(hilos[c]) \/ x \notin Blocked(v)
    BY <1>4, <1>6, <1>8
  <2>3. (Blocked(v) \ On(hilos[c])) \cup On(hilos'[c]) \subseteq Blocked(sched')
    BY <1>3, <1>5, <1>6, <1>8
  <2>4. NoDuplicates(hilos'[c])
    BY <1>6, <1>8
  <2>5. Apart(sq, hilos, Blocked(v))
    BY <1>2
  <2> QED
    BY <2>1, <2>2, <2>3, <2>4, <2>5, ConditionQueueChange, ZenonT(60)
<1>10. WaitersApart'
  BY <1>1, <1>9 DEF WaitersApart, sq
<1>11. SynchTypeOK'
  BY <1>1, <1>3, <1>7, VLeaves, SynchInvFacts, Zenon DEF SynchTypeOK
<1>12. BlockedWait => BlockedWait'
  <2>1. SUFFICES ASSUME BlockedWait, NEW u \in Blocked(sched') PROVE Waits(u)'
    BY DEF BlockedWait
  <2>2. CASE u = t
    BY <1>6, <1>8, <2>2 DEF Waits
  <2>3. CASE u # t
    <3>1. u \in Blocked(sched) /\ u \notin On(sem[s].queue) \ On(DropFirst(sem[s].queue))
      BY <1>2, <1>3, <2>1, <2>3
    <3>2. Waits(u)
      BY <2>1, <3>1 DEF BlockedWait
    <3>3. CASE \E d \in Conditions : u \in On(hilos[d])
      BY <1>6, <1>8, <3>3, Zenon DEF Waits
    <3>4. CASE \E r \in Semaphores : u \in On(sem[r].queue)
      BY <1>1, <3>1, <3>4, VLeaves, ZenonT(60) DEF Waits
    <3> QED BY <3>2, <3>3, <3>4 DEF Waits
  <2> QED BY <2>2, <2>3
<1>13. AllForked => AllForked'
  BY <1>2, <1>3, Zenon DEF AllForked
<1> QED
  BY <1>3, <1>10, <1>11, <1>12, <1>13 DEF SynchInv

\* Semaphore::Destroy.
LEMMA DestroyKeeps ==
  ASSUME SynchInv, NEW s \in Semaphores, Destroy(s), UNCHANGED <<hilos, asleep>>
  PROVE  /\ SynchInv'
         /\ AllForked => AllForked'
         /\ BlockedWait => BlockedWait'
<1>1. /\ sem' = [sem EXCEPT ![s].queue = << >>]
      /\ sched' = WakeAll(sched, sem[s].queue)
      /\ hilos' = hilos /\ asleep' = asleep
  BY Zenon DEF Destroy
<1>2. /\ sched \in SchedulerState /\ ReadyExact(sched)
      /\ sem[s].queue \in Seq(Threads) /\ NoDuplicates(sem[s].queue)
      /\ On(sem[s].queue) \subseteq Blocked(sched)
  BY SynchInvFacts
<1>3. /\ sched' \in SchedulerState
      /\ ReadyExact(sched')
      /\ Blocked(sched') = Blocked(sched) \ On(sem[s].queue)
      /\ \A u \in Threads : sched'.status[u] = "JUST_CREATED" => sched.status[u] = "JUST_CREATED"
  BY <1>1, <1>2, WakeAllKeeps
<1>4. sem' \in [Semaphores -> SemaphoreState]
  <2> DEFINE e == << >>
  <2>1. e \in Seq(Threads) /\ sem' = [sem EXCEPT ![s].queue = e]
    BY <1>1
  <2> HIDE DEF e
  <2> QED BY <2>1, SynchInvFacts DEF SemaphoreState
<1>5. \A r \in Semaphores : sem'[r].queue = IF r = s THEN << >> ELSE sem[r].queue
  BY <1>1, SynchInvFacts DEF SemaphoreState
<1>6. Apart(SemQueues', hilos, Blocked(sched'))
  <2>1. \A r \in Semaphores : r # s => SemQueues'[r] = SemQueues[r]
    BY <1>5 DEF SemQueues
  <2>2. SemQueues'[s] = << >> /\ SemQueues[s] = sem[s].queue
    BY <1>5 DEF SemQueues
  <2>3. \A x \in On(SemQueues'[s]) : x \in On(SemQueues[s]) \/ x \notin Blocked(sched)
    BY <2>2, EmptyOn, Zenon
  <2>4. (Blocked(sched) \ On(SemQueues[s])) \cup On(SemQueues'[s]) \subseteq Blocked(sched')
    BY <1>3, <2>2, EmptyOn, Zenon
  <2>5. NoDuplicates(SemQueues'[s])
    BY <2>2, EmptyOn, Zenon
  <2>6. Apart(SemQueues, hilos, Blocked(sched))
    BY SynchInvFacts
  <2> QED
    BY <2>1, <2>3, <2>4, <2>5, <2>6, SemaphoreQueueChange, SMTT(30)
<1>7. WaitersApart'
  BY <1>1, <1>6 DEF WaitersApart, SemQueues
<1>8. BlockedWait => BlockedWait'
  BY <1>1, <1>3, <1>5, Zenon DEF BlockedWait, Waits
<1> QED
  BY <1>1, <1>3, <1>4, <1>7, <1>8, SynchInvFacts, Zenon DEF SynchInv, SynchTypeOK, AllForked

\* Condition::Signal.
LEMMA SignalKeeps ==
  ASSUME SynchInv, NEW c \in Conditions, Signal(c), UNCHANGED <<sem, asleep>>
  PROVE  /\ SynchInv'
         /\ AllForked => AllForked'
         /\ BlockedWait => BlockedWait'
<1>1. /\ hilos' = [hilos EXCEPT ![c] = DropFirst(@)]
      /\ sched' = WakeFirst(sched, hilos[c])
      /\ sem' = sem /\ asleep' = asleep
  BY DEF Signal
<1>2. /\ sched \in SchedulerState /\ ReadyExact(sched)
      /\ hilos[c] \in Seq(Threads) /\ NoDuplicates(hilos[c])
      /\ On(hilos[c]) \subseteq Blocked(sched)
  BY SynchInvFacts, Zenon
<1>3. /\ sched' \in SchedulerState
      /\ ReadyExact(sched')
      /\ Blocked(sched') = Blocked(sched) \ (On(hilos[c]) \ On(DropFirst(hilos[c])))
      /\ \A u \in Threads : sched'.status[u] = "JUST_CREATED" => sched.status[u] = "JUST_CREATED"
      /\ DropFirst(hilos[c]) \in Seq(Threads)
      /\ NoDuplicates(DropFirst(hilos[c]))
      /\ On(DropFirst(hilos[c])) \subseteq On(hilos[c])
  BY <1>1, <1>2, WakeFirstKeeps, ZenonT(60)
<1>4. hilos' \in [Conditions -> Seq(Threads)]
  BY <1>1, <1>3, SynchInvFacts, Zenon
<1>5. \A d \in Conditions : hilos'[d] = IF d = c THEN DropFirst(hilos[c]) ELSE hilos[d]
  BY <1>1, SynchInvFacts, Zenon
<1>6. Apart(SemQueues, hilos', Blocked(sched'))
  <2>1. \A d \in Conditions : d # c => hilos'[d] = hilos[d]
    BY <1>5, Zenon
  <2>2. \A x \in On(hilos'[c]) : x \in On(hilos[c]) \/ x \notin Blocked(sched)
    BY <1>3, <1>5, Zenon
  <2>3. (Blocked(sched) \ On(hilos[c])) \cup On(hilos'[c]) \subseteq Blocked(sched')
    BY <1>2, <1>3, <1>5, Zenon
  <2>4. NoDuplicates(hilos'[c])
    BY <1>3, <1>5, Zenon
  <2>5. Apart(SemQueues, hilos, Blocked(sched))
    BY SynchInvFacts
  <2> QED
    BY <2>1, <2>2, <2>3, <2>4, <2>5, ConditionQueueChange, ZenonT(60)
<1>7. WaitersApart'
  BY <1>1, <1>6, Zenon DEF WaitersApart, SemQueues
<1>8. BlockedWait => BlockedWait'
  BY <1>1, <1>3, <1>5, Zenon DEF BlockedWait, Waits
<1> QED
  BY <1>1, <1>3, <1>4, <1>7, <1>8, SynchInvFacts, Zenon DEF SynchInv, SynchTypeOK, AllForked

\* Condition::Broadcast.
LEMMA BroadcastKeeps ==
  ASSUME SynchInv, NEW c \in Conditions, Broadcast(c), UNCHANGED <<sem, asleep>>
  PROVE  /\ SynchInv'
         /\ AllForked => AllForked'
         /\ BlockedWait => BlockedWait'
<1>1. /\ hilos' = [hilos EXCEPT ![c] = << >>]
      /\ sched' = WakeAll(sched, hilos[c])
      /\ sem' = sem /\ asleep' = asleep
  BY Zenon DEF Broadcast
<1>2. /\ sched \in SchedulerState /\ ReadyExact(sched)
      /\ hilos[c] \in Seq(Threads) /\ NoDuplicates(hilos[c])
      /\ On(hilos[c]) \subseteq Blocked(sched)
  BY SynchInvFacts
<1>3. /\ sched' \in SchedulerState
      /\ ReadyExact(sched')
      /\ Blocked(sched') = Blocked(sched) \ On(hilos[c])
      /\ \A u \in Threads : sched'.status[u] = "JUST_CREATED" => sched.status[u] = "JUST_CREATED"
  BY <1>1, <1>2, WakeAllKeeps, Zenon
<1>4. hilos' \in [Conditions -> Seq(Threads)]
  BY <1>1, SynchInvFacts
<1>5. \A d \in Conditions : hilos'[d] = IF d = c THEN << >> ELSE hilos[d]
  BY <1>1, SynchInvFacts
<1>6. Apart(SemQueues, hilos', Blocked(sched'))
  <2>1. \A d \in Conditions : d # c => hilos'[d] = hilos[d]
    BY <1>5
  <2>2. \A x \in On(hilos'[c]) : x \in On(hilos[c]) \/ x \notin Blocked(sched)
    BY <1>5, EmptyOn
  <2>3. (Blocked(sched) \ On(hilos[c])) \cup On(hilos'[c]) \subseteq Blocked(sched')
    BY <1>3, <1>5, EmptyOn
  <2>4. NoDuplicates(hilos'[c])
    BY <1>5, EmptyOn
  <2>5. Apart(SemQueues, hilos, Blocked(sched))
    BY SynchInvFacts
  <2> QED
    BY <2>1, <2>2, <2>3, <2>4, <2>5, ConditionQueueChange, SMTT(30)
<1>7. WaitersApart'
  BY <1>1, <1>6, Zenon DEF WaitersApart, SemQueues
<1>8. BlockedWait => BlockedWait'
  BY <1>1, <1>3, <1>5, ZenonT(60) DEF BlockedWait, Waits
<1> QED
  BY <1>1, <1>3, <1>4, <1>7, <1>8, SynchInvFacts, Zenon DEF SynchInv, SynchTypeOK, AllForked

\* The context switch of Thread::Yield.
LEMMA TimeSliceKeeps ==
  ASSUME SynchInv, TimeSlice
  PROVE  /\ SynchInv'
         /\ AllForked => AllForked'
         /\ BlockedWait => BlockedWait'
<1>1. /\ sched' \in SchedulerState
      /\ ReadyExact(sched')
      /\ Blocked(sched') = Blocked(sched)
      /\ \A u \in Threads : sched'.status[u] = "JUST_CREATED" <=> sched.status[u] = "JUST_CREATED"
  BY YieldKeeps, SynchInvFacts DEF TimeSlice, IntOn, Idling
<1> QED
  BY <1>1, Zenon DEF TimeSlice, SynchInv, SynchTypeOK, WaitersApart, AllForked, BlockedWait, Waits

\* The last switch of a thread (Thread::Finish): it waits on no queue.
LEMMA FinishKeeps ==
  ASSUME SynchInv, NEW t \in Threads, Executing(sched, t), sched' = Sleep(sched),
         UNCHANGED <<sem, hilos, asleep>>
  PROVE  SynchInv'
<1>1. sched \in SchedulerState /\ ReadyExact(sched) /\ sched.status[sched.currentThread] = "RUNNING"
  BY SynchInvFacts DEF Executing
<1>2. sched' \in SchedulerState /\ ReadyExact(sched') /\ Blocked(sched) \subseteq Blocked(sched')
  BY <1>1, SleepKeeps
<1>3. WaitersApart'
  BY <1>2, Zenon DEF SynchInv, WaitersApart, Apart
<1> QED BY <1>2, <1>3, Zenon DEF SynchInv, SynchTypeOK

\* The switch at the end of the idle loop.
LEMMA IdleReturnKeeps ==
  ASSUME SynchInv, IdleReturn
  PROVE  /\ SynchInv'
         /\ AllForked => AllForked'
         /\ BlockedWait => BlockedWait'
<1>1. CPUFree(sched)
  BY SynchInvFacts, Zenon DEF CPUFree, ReadyExact, IdleReturn, Idling
<1>2. /\ sched' \in SchedulerState
      /\ ReadyExact(sched')
      /\ Blocked(sched') = Blocked(sched)
      /\ \A u \in Threads : sched'.status[u] = "JUST_CREATED" <=> sched.status[u] = "JUST_CREATED"
  BY <1>1, RunKeeps, SynchInvFacts DEF IdleReturn
<1> QED
  BY <1>2 DEF IdleReturn, SynchInv, SynchTypeOK, WaitersApart, AllForked, BlockedWait, Waits

\* The initial state: rest lists threads other than the first, each once.
LEMMA InitKeeps ==
  ASSUME NEW first \in Threads, NEW rest \in Seq(Threads), NEW value \in [Semaphores -> Nat],
         NoDuplicates(rest), first \notin On(rest), SynchInit(first, rest, value)
  PROVE  /\ SynchInv /\ BlockedWait
         /\ On(rest) = Threads \ {first} => AllForked
<1>1. /\ sched.currentThread = first /\ sched.readyList = rest
      /\ \A t \in Threads :
           sched.status[t] = IF t = first THEN "RUNNING"
                             ELSE IF t \in On(rest) THEN "READY" ELSE "JUST_CREATED"
      /\ sched \in SchedulerState
  BY Zenon DEF SynchInit, SchedulerState, Status
<1>2. /\ sem \in [Semaphores -> SemaphoreState]
      /\ \A s \in Semaphores : sem[s].queue = << >>
  BY DEF SynchInit, SemaphoreState
<1>3. /\ hilos \in [Conditions -> Seq(Threads)]
      /\ \A c \in Conditions : hilos[c] = << >>
      /\ asleep = {}
  BY DEF SynchInit
<1>4. On(rest) \subseteq Threads
  BY DEF On
<1>5. /\ ReadyExact(sched) /\ Blocked(sched) = {}
      /\ On(rest) = Threads \ {first} => AllForked
  BY <1>1, <1>4, Zenon DEF ReadyExact, Blocked, AllForked
<1>6. WaitersApart
  BY <1>2, <1>3, EmptyOn DEF WaitersApart, Apart
<1> QED
  BY <1>1, <1>2, <1>3, <1>5, <1>6, Zenon DEF SynchInv, SynchTypeOK, BlockedWait
-----------------------------------------------------------------------------
\* What P does to the semaphores: it waits at 0, and takes one otherwise.
LEMMA PValues ==
  ASSUME sem \in [Semaphores -> SemaphoreState],
         NEW t \in Threads, NEW s \in Semaphores, NEW next, P(t, s, next)
  PROVE  /\ sem' \in [Semaphores -> SemaphoreState]
         /\ \A r \in Semaphores : r # s => sem'[r].value = sem[r].value
         /\ sem[s].value = 0 => sem'[s].value = 0 /\ pc' = pc /\ asleep' = asleep \cup {t}
         /\ sem[s].value # 0 => /\ sem'[s].value = sem[s].value - 1
                                /\ pc' = [pc EXCEPT ![t] = next] /\ asleep' = asleep \ {t}
<1>1. sem[s].value \in Nat /\ sem[s].queue \in Seq(Threads)
  BY DEF SemaphoreState
<1>2. CASE sem[s].value = 0
  <2>1. Append(sem[s].queue, t) \in Seq(Threads)
    BY <1>1
  <2> QED BY <1>2, <2>1, Zenon DEF P, SemaphoreState
<1>3. CASE sem[s].value # 0
  <2>1. sem' = [sem EXCEPT ![s] = [sem[s] EXCEPT !.value = sem[s].value - 1]]
    BY <1>3 DEF P
  <2>2. sem[s].value - 1 \in Nat
    BY <1>1, <1>3
  <2>3. [sem[s] EXCEPT !.value = sem[s].value - 1] \in SemaphoreState
    BY <2>2, Zenon DEF SemaphoreState
  <2>4. sem' \in [Semaphores -> SemaphoreState]
    BY <2>1, <2>3
  <2>5. sem'[s].value = sem[s].value - 1 /\ \A r \in Semaphores : r # s => sem'[r] = sem[r]
    BY <2>1 DEF SemaphoreState
  <2> QED BY <1>3, <2>4, <2>5 DEF P, Goto
<1> QED BY <1>2, <1>3

\* What V does to them.
LEMMA VValues ==
  ASSUME sem \in [Semaphores -> SemaphoreState], NEW s \in Semaphores
  PROVE  /\ VState(s) \in [Semaphores -> SemaphoreState]
         /\ \A r \in Semaphores :
              VState(s)[r].value = IF r = s THEN sem[s].value + 1 ELSE sem[r].value
<1>1. sem[s].value \in Nat /\ sem[s].queue \in Seq(Threads)
  BY DEF SemaphoreState
<1>2. DropFirst(sem[s].queue) \in Seq(Threads)
  BY <1>1 DEF DropFirst
<1>3. VState(s) \in [Semaphores -> SemaphoreState]
  <2> DEFINE w == [sem EXCEPT ![s].value = sem[s].value + 1]
  <2>1. w \in [Semaphores -> SemaphoreState]
    BY <1>1, SMTT(60) DEF SemaphoreState
  <2>2. VState(s) = [w EXCEPT ![s].queue = DropFirst(sem[s].queue)]
    BY DEF VState
  <2> HIDE DEF w
  <2> QED BY <1>2, <2>1, <2>2, Zenon DEF SemaphoreState
<1>4. \A r \in Semaphores : VState(s)[r].value = IF r = s THEN sem[s].value + 1 ELSE sem[r].value
  BY <1>1 DEF SemaphoreState, VState
<1> QED BY <1>3, <1>4
-----------------------------------------------------------------------------
\* Nothing is matched by anything, and a larger set matches as much.
LEMMA MatchedMore ==
  ASSUME NEW n \in Nat, NEW S, NEW T, n = 0 \/ (Matched(n, S) /\ S \subseteq T)
  PROVE  Matched(n, T)
<1>1. CASE n = 0
  <2>1. [i \in 1..n |-> i] \in [1..n -> T] /\ 1..n = {}
    BY <1>1
  <2> QED BY <2>1, Zenon DEF Matched
<1>2. CASE n # 0
  <2>1. PICK f \in [1..n -> S] : \A i, j \in 1..n : i # j => f[i] # f[j]
    BY <1>2 DEF Matched
  <2>2. f \in [1..n -> T]
    BY <1>2
  <2> QED BY <2>1, <2>2 DEF Matched
<1> QED BY <1>1, <1>2

\* One more unit, and one more that matches it.
LEMMA MatchedAdd ==
  ASSUME NEW n \in Nat, NEW S, NEW T, NEW x, Matched(n, S),
         x \notin S, S \cup {x} \subseteq T
  PROVE  Matched(n + 1, T)
<1>1. PICK f \in [1..n -> S] : \A i, j \in 1..n : i # j => f[i] # f[j]
  BY DEF Matched
<1> DEFINE g == [i \in 1..(n + 1) |-> IF i = n + 1 THEN x ELSE f[i]]
<1>2. \A i \in 1..(n + 1) : i = n + 1 \/ i \in 1..n
  OBVIOUS
<1>3. g \in [1..(n + 1) -> T]
  BY <1>2
<1>4. ASSUME NEW i \in 1..(n + 1), NEW j \in 1..(n + 1), i # j PROVE g[i] # g[j]
  BY <1>1, <1>2, <1>4
<1> HIDE DEF g
<1> QED BY <1>3, <1>4 DEF Matched

\* One unit less, and at most one that matches.
LEMMA MatchedDrop ==
  ASSUME NEW n \in Nat \ {0}, NEW S, NEW T, NEW x, Matched(n, S), S \ {x} \subseteq T
  PROVE  Matched(n - 1, T)
<1>1. PICK f \in [1..n -> S] : \A i, j \in 1..n : i # j => f[i] # f[j]
  BY DEF Matched
<1> DEFINE g == [i \in 1..(n - 1) |-> IF f[i] = x THEN f[n] ELSE f[i]]
<1>2. n \in 1..n /\ \A i \in 1..(n - 1) : i \in 1..n /\ i # n
  OBVIOUS
<1>3. g \in [1..(n - 1) -> T]
  <2> SUFFICES ASSUME NEW i \in 1..(n - 1) PROVE (IF f[i] = x THEN f[n] ELSE f[i]) \in T
    OBVIOUS
  <2>1. f[i] \in S /\ f[n] \in S /\ f[i] # f[n]
    BY <1>1, <1>2, Zenon
  <2> QED BY <2>1
<1>4. ASSUME NEW i \in 1..(n - 1), NEW j \in 1..(n - 1), i # j PROVE g[i] # g[j]
  <2>1. f[i] # f[j] /\ f[i] # f[n] /\ f[j] # f[n]
    BY <1>1, <1>2, <1>4
  <2> QED BY <2>1
<1> HIDE DEF g
<1> QED BY <1>3, <1>4 DEF Matched
=============================================================================
