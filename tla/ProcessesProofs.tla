-------------------------- MODULE ProcessesProofs --------------------------
(***************************************************************************)
(* User programs in the build with a page table, for every number of       *)
(* threads, calls, frames and handles: none runs with the registers or the *)
(* page table of another one, every frame in use is in a page table that   *)
(* may have it, and every handle stands for a descriptor of its own.       *)
(***************************************************************************)
EXTENDS Processes, TLAPS, WellFoundedInduction

\* The threads on a list, and that none is there twice.
On(q) == {q[i] : i \in 1..Len(q)}
NoDuplicates(q) == \A i, j \in 1..Len(q) : i # j => q[i] # q[j]

\* List::Append adds one thread to those on the list.
LEMMA AppendOn ==
  ASSUME NEW S, NEW q \in Seq(S), NEW x \in S
  PROVE  /\ Append(q, x) \in Seq(S)
         /\ On(Append(q, x)) = On(q) \cup {x}
         /\ Append(q, x) # << >>
<1>1. Len(Append(q, x)) = Len(q) + 1 /\ Append(q, x) \in Seq(S)
  OBVIOUS
<1>2. \A i \in 1..Len(q) : Append(q, x)[i] = q[i]
  OBVIOUS
<1>3. Append(q, x)[Len(q) + 1] = x
  OBVIOUS
<1>4. On(Append(q, x)) = On(q) \cup {x}
  BY <1>1, <1>2, <1>3 DEF On
<1>5. Append(q, x) # << >>
  <2>1. Len(q) \in Nat
    OBVIOUS
  <2>2. Len(Append(q, x)) # 0
    BY <1>1, <2>1
  <2>3. Len(<< >>) = 0
    OBVIOUS
  <2> QED BY <2>2, <2>3, Zenon
<1> QED
  BY <1>1, <1>4, <1>5

\* Appending a thread that is not on the list duplicates nobody.
LEMMA AppendNoDuplicates ==
  ASSUME NEW S, NEW q \in Seq(S), NEW x \in S, NoDuplicates(q), x \notin On(q)
  PROVE  NoDuplicates(Append(q, x))
<1>1. Len(Append(q, x)) = Len(q) + 1
  OBVIOUS
<1>2. \A i \in 1..Len(q) : Append(q, x)[i] = q[i]
  OBVIOUS
<1>3. Append(q, x)[Len(q) + 1] = x
  OBVIOUS
<1> QED
  BY <1>1, <1>2, <1>3 DEF On, NoDuplicates

\* List::Remove takes the first thread and leaves the others.
LEMMA TailOn ==
  ASSUME NEW S, NEW q \in Seq(S), q # << >>
  PROVE  /\ Tail(q) \in Seq(S)
         /\ Head(q) \in On(q)
         /\ Head(q) \in S
         /\ On(q) = {Head(q)} \cup On(Tail(q))
<1>1. Len(Tail(q)) = Len(q) - 1 /\ Tail(q) \in Seq(S) /\ Len(q) \in Nat /\ Len(q) > 0
  OBVIOUS
<1>2. \A i \in 1..Len(Tail(q)) : Tail(q)[i] = q[i + 1]
  OBVIOUS
<1>3. Head(q) = q[1]
  OBVIOUS
<1>4. ASSUME NEW y \in On(q) PROVE y \in {Head(q)} \cup On(Tail(q))
  <2>1. PICK i \in 1..Len(q) : y = q[i]
    BY <1>4 DEF On
  <2>2. CASE i = 1
    BY <2>1, <2>2, <1>3
  <2>3. CASE i # 1
    <3>1. i - 1 \in 1..Len(Tail(q)) /\ Tail(q)[i - 1] = q[i]
      BY <2>3, <1>1, <1>2
    <3> QED BY <3>1, <2>1 DEF On
  <2> QED BY <2>2, <2>3
<1>5. ASSUME NEW y \in On(Tail(q)) PROVE y \in On(q)
  <2>1. PICK i \in 1..Len(Tail(q)) : y = Tail(q)[i]
    BY <1>5 DEF On
  <2>2. i + 1 \in 1..Len(q) /\ y = q[i + 1]
    BY <2>1, <1>1, <1>2
  <2> QED BY <2>2 DEF On
<1>6. Head(q) \in On(q)
  BY <1>1, <1>3 DEF On
<1> QED
  BY <1>1, <1>3, <1>4, <1>5, <1>6

\* On a list without duplicates the thread removed is gone from it.
LEMMA TailNoDuplicates ==
  ASSUME NEW S, NEW q \in Seq(S), q # << >>, NoDuplicates(q)
  PROVE  NoDuplicates(Tail(q)) /\ Head(q) \notin On(Tail(q))
<1>1. Len(Tail(q)) = Len(q) - 1 /\ Tail(q) \in Seq(S) /\ Len(q) \in Nat /\ Len(q) > 0
  OBVIOUS
<1>2. \A i \in 1..Len(Tail(q)) : Tail(q)[i] = q[i + 1]
  OBVIOUS
<1>3. Head(q) = q[1]
  OBVIOUS
<1> QED
  BY <1>1, <1>2, <1>3 DEF On, NoDuplicates

----------------------------------------------------------------------------
\* ---- registers and page table ----

\* The phases of a thread that has been in user code, and of one that has not.
Begun == {"user", "yielding", "looping"}
Fresh == {"unused", "forked", "execed"}
Phases == Begun \cup Fresh \cup {"finished"}

Own(t) == [of |-> t, count |-> returned[t]]

ContextTypes ==
  /\ phase \in [Threads -> Phases]
  /\ ready \in Seq(Threads) /\ running \in Threads
  /\ machine \in [pageTable : Threads, of : Threads \cup {0}, count : Nat]
  /\ saved \in [Threads -> [of : Threads \cup {0}, count : Nat]]
  /\ returned \in [Threads -> Nat]

\* The ready list has living threads once each, and not the running one.
Queued ==
  /\ NoDuplicates(ready) /\ running \notin On(ready)
  /\ \A t \in On(ready) : phase[t] \notin {"unused", "finished"}

\* A thread that waits for the processor has saved what it will need, and the
\* machine has that of the running thread; a thread that has not run yet has
\* returned from no call.
Contexts ==
  /\ \A t \in On(ready) : phase[t] \in Begun => saved[t] = Own(t)
  /\ \A t \in Threads : phase[t] \in Fresh => returned[t] = 0
  /\ (fate = "running" /\ phase[running] \in Begun) =>
       machine = [pageTable |-> running, of |-> running, count |-> returned[running]]

CInv == ContextTypes /\ Queued /\ Contexts

\* The invariant says of user code what ContextOwn says.
LEMMA CInvImplies == CInv => ContextOwn
BY DEF CInv, Contexts, Begun, ContextOwn, InUserCode

\* The first program starts with its own page table and registers.
LEMMA CInvInit == StartProcess => CInv
<1> SUFFICES ASSUME StartProcess PROVE CInv
  OBVIOUS
<1>1. 1 \in Threads
  BY ProcessesAssumption DEF Threads
<1>2. On(<< >>) = {} /\ NoDuplicates(<< >>)
  BY DEF On, NoDuplicates
<1>3. ContextTypes
  BY <1>1 DEF StartProcess, ContextTypes, Phases, Begun, Fresh
<1>4. Queued
  BY <1>2 DEF StartProcess, Queued
<1>5. Contexts
  BY <1>1, <1>2 DEF StartProcess, Contexts, Begun, Fresh
<1> QED BY <1>3, <1>4, <1>5 DEF CInv

\* What a caller of Scheduler::Run must see to: the queue has threads that may
\* run, the phases of those that have begun are the old ones, and the thread
\* that leaves is in a phase it can go on from, or finished.
MayRun(phases, queue) ==
  /\ fate = "running"
  /\ phases \in [Threads -> Phases]
  /\ queue \in Seq(Threads) /\ queue # << >>
  /\ NoDuplicates(queue) /\ running \notin On(queue)
  /\ \A t \in On(queue) : /\ phases[t] \notin {"unused", "finished"}
                          /\ phases[t] \in Begun => saved[t] = Own(t)
  /\ \A t \in Threads : phases[t] \in Fresh => returned[t] = 0
  /\ \/ phase[running] \in Begun /\ phases[running] \in Begun
     \/ phases[running] = "finished"

\* A context switch keeps the invariant.
LEMMA RunKeeps ==
  ASSUME CInv, NEW phases, NEW queue, MayRun(phases, queue), Run(phases, queue)
  PROVE  CInv'
<1> DEFINE next == Head(queue)
<1>1. /\ Tail(queue) \in Seq(Threads) /\ next \in Threads /\ next \in On(queue)
      /\ On(queue) = {next} \cup On(Tail(queue))
  BY TailOn DEF MayRun
<1>2. NoDuplicates(Tail(queue)) /\ next \notin On(Tail(queue))
  BY TailNoDuplicates DEF MayRun
<1>3. running \notin On(Tail(queue)) /\ next # running /\ running \in Threads
  BY <1>1 DEF MayRun, CInv, ContextTypes
<1>4. /\ phase' = phases /\ running' = next /\ returned' = returned /\ fate' = fate
      /\ machine' = RestoreUserState(next, phases)
  BY DEF Run
<1>5. SaveUserState \in [of : Threads \cup {0}, count : Nat]
  BY DEF SaveUserState, CInv, ContextTypes
<1>6. saved' \in [Threads -> [of : Threads \cup {0}, count : Nat]]
      /\ \A t \in Threads : t # running => saved'[t] = saved[t]
  BY <1>5 DEF Run, CInv, ContextTypes
<1>7. machine' \in [pageTable : Threads, of : Threads \cup {0}, count : Nat]
  BY <1>1, <1>4 DEF RestoreUserState, CInv, ContextTypes
<1>8. phases[next] \in Begun =>
          machine' = [pageTable |-> next, of |-> next, count |-> returned[next]]
  <2> SUFFICES ASSUME phases[next] \in Begun
               PROVE  machine' = [pageTable |-> next, of |-> next, count |-> returned[next]]
    OBVIOUS
  <2>1. saved[next] = [of |-> next, count |-> returned[next]]
    BY <1>1 DEF MayRun, Own
  <2>2. saved[next].of = next /\ saved[next].count = returned[next]
    BY <2>1
  <2> QED BY <1>4, <2>2 DEF RestoreUserState, Begun
<1>9. \A t \in Threads : phase'[t] \in Fresh => returned'[t] = 0
  BY <1>4 DEF MayRun
<1>10. (fate' = "running" /\ phase'[running'] \in Begun) =>
         machine' = [pageTable |-> running', of |-> running', count |-> returned'[running']]
  BY <1>4, <1>8
<1>11. CASE phases[running] = "finished"
  <2>1. ready' = Tail(queue)
    BY <1>11 DEF Run
  <2>2. ContextTypes'
    BY <1>1, <1>4, <1>6, <1>7, <2>1, Zenon DEF ContextTypes, CInv, MayRun
  <2>3. Queued'
    BY <1>1, <1>2, <1>4, <2>1, Zenon DEF Queued, MayRun
  <2>4. \A t \in On(ready') : phase'[t] \in Begun => saved'[t] = Own(t)'
    <3> SUFFICES ASSUME NEW t \in On(Tail(queue)), phases[t] \in Begun
                 PROVE  saved'[t] = Own(t)'
      BY <1>4, <2>1
    <3>1. t # running /\ t \in On(queue) /\ saved[t] = Own(t)
      BY <1>1, <1>3 DEF MayRun
    <3>2. t \in Threads
      BY DEF On, MayRun
    <3> QED BY <1>4, <1>6, <3>1, <3>2 DEF Own
  <2> QED BY <1>9, <1>10, <2>2, <2>3, <2>4 DEF CInv, Contexts
<1>12. CASE phase[running] \in Begun /\ phases[running] \in Begun
  <2>1. ready' = Append(Tail(queue), running)
    BY <1>12 DEF Run, Begun
  <2>2. /\ ready' \in Seq(Threads) /\ On(ready') = On(Tail(queue)) \cup {running}
    <3> DEFINE rest == Tail(queue)
    <3>1. rest \in Seq(Threads) /\ running \in Threads
      BY <1>1, <1>3
    <3> HIDE DEF rest
    <3>2. /\ Append(rest, running) \in Seq(Threads)
          /\ On(Append(rest, running)) = On(rest) \cup {running}
      BY <3>1, AppendOn
    <3> QED BY <2>1, <3>2 DEF rest
  <2>3. NoDuplicates(ready')
    BY <1>1, <1>2, <1>3, <2>1, AppendNoDuplicates, Zenon
  <2>4. ContextTypes'
    BY <1>1, <1>4, <1>6, <1>7, <2>2, Zenon DEF ContextTypes, CInv, MayRun
  <2>5. Queued'
    BY <1>1, <1>2, <1>3, <1>4, <1>12, <2>2, <2>3, Zenon DEF Queued, MayRun, Begun
  <2>6. saved'[running] = [of |-> running, count |-> returned'[running]]
    <3>1. saved'[running] = SaveUserState
      BY <1>3, <1>12 DEF Run, Begun, CInv, ContextTypes
    <3>2. SaveUserState = Own(running)
      BY <1>12, SMTT(60) DEF SaveUserState, Own, CInv, Contexts, MayRun
    <3> QED BY <1>4, <3>1, <3>2 DEF Own
  <2>7. \A t \in On(ready') : phase'[t] \in Begun => saved'[t] = Own(t)'
    <3> SUFFICES ASSUME NEW t \in On(Tail(queue)), phases[t] \in Begun
                 PROVE  saved'[t] = Own(t)'
      BY <1>4, <2>2, <2>6 DEF Own
    <3>1. t # running /\ t \in On(queue) /\ saved[t] = Own(t)
      BY <1>1, <1>3 DEF MayRun
    <3>2. t \in Threads
      BY DEF On, MayRun
    <3> QED BY <1>4, <1>6, <3>1, <3>2 DEF Own
  <2> QED BY <1>9, <1>10, <2>4, <2>5, <2>7 DEF CInv, Contexts
<1> QED BY <1>11, <1>12 DEF MayRun

\* Thread::Finish keeps the invariant, whether or not it is the last thread.
LEMMA FinishKeeps ==
  ASSUME CInv, fate = "running", Finish
  PROVE  CInv'
<1> DEFINE finished == [phase EXCEPT ![running] = "finished"]
<1>1. finished \in [Threads -> Phases] /\ finished[running] = "finished"
      /\ \A t \in Threads : t # running => finished[t] = phase[t]
  BY DEF CInv, ContextTypes, Phases
<1>2. \A t \in On(ready) : t \in Threads /\ t # running
  BY DEF CInv, ContextTypes, Queued, On
<1>3. \A t \in Threads : finished[t] \in Fresh => returned[t] = 0
  BY <1>1 DEF CInv, Contexts, Fresh
<1>4. CASE ready # << >>
  <2>1. MayRun(finished, ready)
    BY <1>1, <1>2, <1>3, <1>4 DEF MayRun, CInv, ContextTypes, Queued, Contexts
  <2>2. Run(finished, ready)
    BY <1>4 DEF Finish
  <2> QED BY <2>1, <2>2, RunKeeps
<1>5. CASE ready = << >>
  <2>1. /\ phase' = finished /\ fate' = "halted"
        /\ UNCHANGED <<ready, running, machine, saved, returned>>
    BY <1>5 DEF Finish
  <2>2. ContextTypes'
    BY <1>1, <2>1 DEF CInv, ContextTypes
  <2>3. Queued'
    BY <1>1, <1>2, <2>1 DEF CInv, Queued
  <2>4. Contexts'
    BY <1>1, <1>2, <1>3, <2>1 DEF CInv, Contexts, Own
  <2> QED BY <2>2, <2>3, <2>4 DEF CInv
<1> QED BY <1>4, <1>5

\* A step that leaves the threads alone, and does not set the simulator going
\* again, keeps the invariant.
LEMMA ThreadsUntouched ==
  ASSUME CInv, UNCHANGED threadvars, fate' = "running" => fate = "running"
  PROVE  CInv'
BY Zenon DEF CInv, ContextTypes, Queued, Contexts, Own, threadvars

\* The return from a system call, from user code or from inside Yield.
LEMMA ReturnKeeps ==
  ASSUME CInv, fate = "running", phase[running] \in {"user", "yielding"}, returnFromSystemCall
  PROVE  CInv'
<1>1. machine = [pageTable |-> running, of |-> running, count |-> returned[running]]
  BY DEF CInv, Contexts, Begun
<1>2. /\ machine' = [pageTable |-> running, of |-> running, count |-> returned[running] + 1]
      /\ returned' = [returned EXCEPT ![running] = @ + 1]
      /\ phase' = [phase EXCEPT ![running] = "user"]
      /\ UNCHANGED <<ready, running, saved, fate>>
  BY <1>1 DEF returnFromSystemCall
<1>3. \A t \in On(ready) : t \in Threads /\ t # running
  BY DEF CInv, ContextTypes, Queued, On
<1>4. ContextTypes'
  BY <1>2, SMTT(60) DEF CInv, ContextTypes, Phases, Begun
<1>5. Queued'
  BY <1>2, <1>3, Zenon DEF CInv, ContextTypes, Queued
<1>6. Contexts'
  <2>1. /\ returned'[running] = returned[running] + 1 /\ phase'[running] = "user"
        /\ \A t \in Threads : t # running => returned'[t] = returned[t] /\ phase'[t] = phase[t]
    BY <1>2, Zenon DEF CInv, ContextTypes
  <2>2. \A t \in On(ready') : phase'[t] \in Begun => saved'[t] = Own(t)'
    BY <1>2, <1>3, <2>1, ZenonT(60) DEF CInv, Contexts, Own
  <2>3. \A t \in Threads : phase'[t] \in Fresh => returned'[t] = 0
    BY <2>1 DEF CInv, Contexts, Fresh
  <2> QED BY <1>2, <2>1, <2>2, <2>3 DEF Contexts
<1> QED BY <1>4, <1>5, <1>6 DEF CInv

\* Exec and Fork find a thread that is nowhere yet.
LEMMA NewThread ==
  ASSUME CInv, phase[running] = "user", NEW t \in NewThreads
  PROVE  t \in Threads /\ phase[t] = "unused" /\ t # running /\ t \notin On(ready)
BY DEF CInv, Queued, NewThreads

\* Exec puts the new thread on the ready list and yields.
LEMMA ExecKeeps == ASSUME CInv, NachOS_Exec PROVE CInv'
<1>1. fate = "running" /\ phase[running] = "user"
  BY DEF NachOS_Exec, Syscall, InUserCode
<1>2. PICK t \in NewThreads :
        Run([phase EXCEPT ![t] = "execed", ![running] = "yielding"], Append(ready, t))
  BY DEF NachOS_Exec
<1> DEFINE phases == [phase EXCEPT ![t] = "execed", ![running] = "yielding"]
<1>3. t \in Threads /\ phase[t] = "unused" /\ t # running /\ t \notin On(ready)
  BY <1>1, NewThread
<1>4. /\ phases \in [Threads -> Phases] /\ phases[t] = "execed" /\ phases[running] = "yielding"
      /\ \A u \in Threads : u # t /\ u # running => phases[u] = phase[u]
  BY <1>3, Zenon DEF CInv, ContextTypes, Phases, Begun, Fresh
<1>5. /\ Append(ready, t) \in Seq(Threads) /\ On(Append(ready, t)) = On(ready) \cup {t}
      /\ Append(ready, t) # << >>
  BY <1>3, AppendOn DEF CInv, ContextTypes
<1>6. NoDuplicates(Append(ready, t))
  BY <1>3, AppendNoDuplicates DEF CInv, ContextTypes, Queued
<1>7. \A u \in On(ready) : u \in Threads /\ u # running
  BY SMTT(60) DEF CInv, ContextTypes, Queued, On
<1>8. \A u \in On(Append(ready, t)) : /\ phases[u] \notin {"unused", "finished"}
                                      /\ phases[u] \in Begun => saved[u] = Own(u)
  <2> SUFFICES ASSUME NEW u \in On(ready), u # t
               PROVE  /\ phases[u] \notin {"unused", "finished"}
                      /\ phases[u] \in Begun => saved[u] = Own(u)
    BY <1>4, <1>5, ZenonT(60) DEF Begun
  <2> QED BY <1>4, <1>7 DEF CInv, Queued, Contexts
<1>9. \A u \in Threads : phases[u] \in Fresh => returned[u] = 0
  BY <1>3, <1>4 DEF CInv, Contexts, Fresh
<1>10. MayRun(phases, Append(ready, t))
  <2>1. running \notin On(Append(ready, t))
    BY <1>3, <1>5 DEF CInv, Queued
  <2> QED BY <1>1, <1>4, <1>5, <1>6, <1>8, <1>9, <2>1, Zenon DEF MayRun, Begun
<1> QED BY <1>2, <1>10, RunKeeps

\* Fork makes a thread that has returned from nothing, and returns; or it
\* finishes the thread that called it.
LEMMA ForkKeeps == ASSUME CInv, NachOS_Fork PROVE CInv'
<1>1. fate = "running" /\ phase[running] = "user"
  BY DEF NachOS_Fork, Syscall, InUserCode
<1>2. PICK t \in NewThreads : NoVirtualMemoryConstructor(t)
  BY DEF NachOS_Fork
<1>3. t \in Threads /\ phase[t] = "unused" /\ t # running /\ t \notin On(ready)
  BY <1>1, NewThread
<1>4. \/ Finish
      \/ /\ phase' = [phase EXCEPT ![t] = "forked"]
         /\ ready' = Append(ready, t)
         /\ machine' = [machine EXCEPT !.count = @ + 1]
         /\ returned' = [returned EXCEPT ![running] = @ + 1]
         /\ UNCHANGED <<running, saved, fate>>
  BY <1>2 DEF NoVirtualMemoryConstructor
<1>5. CASE Finish
  BY <1>1, <1>5, FinishKeeps
<1>6. CASE /\ phase' = [phase EXCEPT ![t] = "forked"]
           /\ ready' = Append(ready, t)
           /\ machine' = [machine EXCEPT !.count = @ + 1]
           /\ returned' = [returned EXCEPT ![running] = @ + 1]
           /\ UNCHANGED <<running, saved, fate>>
  <2>1. ready' \in Seq(Threads) /\ On(ready') = On(ready) \cup {t}
    BY <1>3, <1>6, AppendOn DEF CInv, ContextTypes
  <2>2. NoDuplicates(ready')
    BY <1>3, <1>6, AppendNoDuplicates DEF CInv, ContextTypes, Queued
  <2>3. \A u \in On(ready) : u \in Threads /\ u # running
    BY DEF CInv, ContextTypes, Queued, On
  <2>4. /\ phase'[t] = "forked" /\ \A u \in Threads : u # t => phase'[u] = phase[u]
        /\ returned'[running] = returned[running] + 1
        /\ \A u \in Threads : u # running => returned'[u] = returned[u]
    BY <1>3, <1>6 DEF CInv, ContextTypes
  <2>5. machine' = [pageTable |-> running, of |-> running, count |-> returned[running] + 1]
    BY <1>1, <1>6 DEF CInv, Contexts, Begun
  <2>6. ContextTypes'
    <3>1. running \in Threads /\ returned[running] + 1 \in Nat
      BY DEF CInv, ContextTypes
    <3>2. machine' \in [pageTable : Threads, of : Threads \cup {0}, count : Nat]
      BY <2>5, <3>1
    <3>3. phase' \in [Threads -> Phases] /\ returned' \in [Threads -> Nat]
      BY <1>6, <3>1, Zenon DEF CInv, ContextTypes, Phases, Fresh
    <3> QED BY <1>6, <2>1, <3>2, <3>3, Zenon DEF CInv, ContextTypes
  <2>7. Queued'
    BY <1>3, <1>6, <2>1, <2>2, <2>3, <2>4 DEF CInv, Queued
  <2>8. \A u \in On(ready') : phase'[u] \in Begun => saved'[u] = Own(u)'
    BY <1>6, <2>1, <2>3, <2>4, Zenon DEF CInv, Contexts, Own, Begun
  <2>9. \A u \in Threads : phase'[u] \in Fresh => returned'[u] = 0
    BY <1>1, <1>3, <2>4 DEF CInv, Contexts, Fresh
  <2> QED BY <1>6, <2>4, <2>5, <2>6, <2>7, <2>8, <2>9, Zenon DEF CInv, Contexts
<1> QED BY <1>4, <1>5, <1>6

\* The calls that only touch files: they return, or abort the simulator.
LEMMA FileCallKeeps ==
  ASSUME CInv, fate = "running", phase[running] = "user", returnFromSystemCall \/ Abort
  PROVE  CInv'
<1>1. CASE returnFromSystemCall
  BY <1>1, ReturnKeeps
<1>2. CASE Abort
  BY <1>2, ThreadsUntouched DEF Abort
<1> QED BY <1>1, <1>2

\* A switch forced on the running thread in its present phase.
LEMMA PreemptKeeps ==
  ASSUME CInv, fate = "running", ready # << >>, NEW to \in Begun, phase[running] \in Begun,
         Run([phase EXCEPT ![running] = to], ready)
  PROVE  CInv'
<1> DEFINE phases == [phase EXCEPT ![running] = to]
<1>1. /\ phases \in [Threads -> Phases] /\ phases[running] = to
      /\ \A u \in Threads : u # running => phases[u] = phase[u]
  BY DEF CInv, ContextTypes, Phases
<1>2. \A u \in On(ready) : u \in Threads /\ u # running
  BY DEF CInv, ContextTypes, Queued, On
<1>3. \A u \in Threads : phases[u] \in Fresh => returned[u] = 0
  BY <1>1, Zenon DEF CInv, Contexts, Fresh, Begun
<1>4. \A u \in On(ready) : /\ phases[u] \notin {"unused", "finished"}
                           /\ phases[u] \in Begun => saved[u] = Own(u)
  BY <1>1, <1>2, Zenon DEF CInv, Queued, Contexts
<1>5. MayRun(phases, ready)
  BY <1>1, <1>3, <1>4 DEF MayRun, CInv, ContextTypes, Queued
<1> QED BY <1>5, RunKeeps

\* Every system call, kernel step and timer interrupt keeps the invariant.
LEMMA CInvNext == CInv /\ [ProcNext]_pvars => CInv'
<1> SUFFICES ASSUME CInv, [ProcNext]_pvars PROVE CInv'
  OBVIOUS
<1>1. ASSUME Syscall PROVE fate = "running" /\ phase[running] = "user"
  BY <1>1 DEF Syscall, InUserCode
<1>2. ASSUME NachOS_Halt \/ NachOS_Exit PROVE CInv'
  BY <1>1, <1>2, FinishKeeps DEF NachOS_Halt, NachOS_Exit
<1>3. ASSUME NachOS_Join \/ NachOS_Bind \/ NachOS_Create \/ NachOS_Open \/ UnexpectedException
      PROVE  CInv'
  BY <1>1, <1>3, FileCallKeeps, Zenon
     DEF NachOS_Join, NachOS_Bind, NachOS_Create, NachOS_Open, UnexpectedException
<1>4. ASSUME NEW handle, \/ NachOS_Read(handle) \/ NachOS_Write(handle)
                         \/ NachOS_Close(handle) \/ NachOS_Connect(handle)
      PROVE  CInv'
  BY <1>1, <1>4, FileCallKeeps DEF NachOS_Read, NachOS_Write, NachOS_Close, NachOS_Connect
<1>5. ASSUME NEW ipv6, NachOS_Socket(ipv6) PROVE CInv'
  BY <1>1, <1>5, FileCallKeeps DEF NachOS_Socket
<1>6. ASSUME NachOS_Yield PROVE CInv'
  <2>1. CASE ready = << >>
    BY <1>1, <1>6, <2>1, FileCallKeeps DEF NachOS_Yield
  <2>2. CASE ready # << >>
    <3>1. Run([phase EXCEPT ![running] = "yielding"], ready)
      BY <1>6, <2>2 DEF NachOS_Yield
    <3>2. fate = "running" /\ phase[running] \in Begun /\ "yielding" \in Begun
      BY <1>1, <1>6 DEF NachOS_Yield, Begun
    <3> QED BY <2>2, <3>1, <3>2, PreemptKeeps
  <2> QED BY <2>1, <2>2
<1>7. ASSUME TimerYield PROVE CInv'
  <2>1. fate = "running" /\ ready # << >> /\ phase[running] \in Begun /\ Run(phase, ready)
    BY <1>7 DEF TimerYield, Begun
  <2>2. phase = [phase EXCEPT ![running] = phase[running]]
    BY DEF CInv, ContextTypes
  <2>3. Run([phase EXCEPT ![running] = phase[running]], ready)
    BY <2>1, <2>2
  <2> QED BY <2>1, <2>3, PreemptKeeps, Zenon
<1>8. ASSUME EmptyCall PROVE CInv'
  <2>1. /\ phase' = [phase EXCEPT ![running] = "looping"]
        /\ UNCHANGED <<ready, running, machine, saved, returned, fate>>
    BY <1>8 DEF EmptyCall
  <2>2. \A t \in On(ready) : t \in Threads /\ t # running
    BY DEF CInv, ContextTypes, Queued, On
  <2>3. phase'[running] = "looping" /\ \A t \in Threads : t # running => phase'[t] = phase[t]
    BY <2>1 DEF CInv, ContextTypes
  <2>4. ContextTypes'
    BY <2>1, Zenon DEF CInv, ContextTypes, Phases, Begun
  <2>5. Queued'
    BY <2>1, <2>2, <2>3 DEF CInv, Queued
  <2>6. phase[running] = "user" /\ fate = "running"
    BY <1>1, <1>8, ZenonT(60) DEF EmptyCall
  <2>7. Contexts'
    BY <2>1, <2>2, <2>3, <2>6 DEF CInv, Contexts, Own, Begun, Fresh
  <2> QED BY <2>4, <2>5, <2>7, Zenon DEF CInv
<1>9. ASSUME YieldReturns PROVE CInv'
  BY <1>9, ReturnKeeps DEF YieldReturns
<1>10. ASSUME AuxExec PROVE CInv'
  <2>1. CASE Finish
    BY <1>10, <2>1, FinishKeeps DEF AuxExec
  <2>2. CASE fate' = "crash" /\ UNCHANGED threadvars
    BY <2>2, ThreadsUntouched
  <2> QED BY <1>10, <2>1, <2>2 DEF AuxExec
<1>11. ASSUME ForkAux PROVE CInv'
  <2>1. /\ phase[running] = "forked" /\ fate = "running"
        /\ machine' = [pageTable |-> running, of |-> running, count |-> 0]
        /\ phase' = [phase EXCEPT ![running] = "user"]
        /\ UNCHANGED <<ready, running, saved, returned, fate>>
    BY <1>11 DEF ForkAux
  <2>2. \A t \in On(ready) : t \in Threads /\ t # running
    BY DEF CInv, ContextTypes, Queued, On
  <2>3. phase'[running] = "user" /\ \A t \in Threads : t # running => phase'[t] = phase[t]
    BY <2>1 DEF CInv, ContextTypes
  <2>4. returned[running] = 0
    BY <2>1 DEF CInv, ContextTypes, Contexts, Fresh
  <2>5. ContextTypes'
    BY <2>1 DEF CInv, ContextTypes, Phases, Begun
  <2>6. Queued'
    BY <2>1, <2>2, <2>3, ZenonT(60) DEF CInv, Queued
  <2>7. Contexts'
    BY <2>1, <2>2, <2>3, <2>4 DEF CInv, Contexts, Own, Begun, Fresh
  <2> QED BY <2>5, <2>6, <2>7 DEF CInv
<1>12. ASSUME TouchStack PROVE CInv'
  BY <1>12, ThreadsUntouched DEF TouchStack, Abort
<1>13. CASE UNCHANGED pvars
  BY <1>13, ThreadsUntouched DEF pvars, threadvars
<1> QED
  BY <1>2, <1>3, <1>4, <1>5, <1>6, <1>7, <1>8, <1>9, <1>10, <1>11, <1>12, <1>13,
     ExecKeeps, ForkKeeps, Zenon
     DEF ProcNext, ExceptionHandler, KernelSteps

\* User code runs on its own page table and with its own registers, for every
\* number of threads and every order of Fork, Exec, Yield, Exit, file calls and
\* timer interrupts.
THEOREM ContextsKept == ProcSpec => []ContextOwn
BY CInvInit, CInvNext, CInvImplies, PTL DEF ProcSpec

----------------------------------------------------------------------------
\* ---- frames ----

\* The phases of a thread that has a page table of its own.
Paged == Begun \cup {"forked"}

\* The entries of the page table of t that are its stack.
StackOf(t) == (Len(table[t]) - UserStackPages + 1)..Len(table[t])

\* Page tables, entry by entry: what they have is marked, what is marked they
\* have, and no table has a frame twice.
TableInv ==
  /\ table \in [Threads -> Seq(MapFrames)] /\ marked \subseteq MapFrames
  /\ \A t \in Threads : \A i \in 1..Len(table[t]) : table[t][i] \in marked
  /\ \A f \in marked : \E t \in Threads : \E i \in 1..Len(table[t]) : table[t][i] = f
  /\ \A t \in Threads : \A i, j \in 1..Len(table[t]) : table[t][i] = table[t][j] => i = j

\* A thread that can run has pages below its stack, unless it is the first
\* program and too large; one that has no page table has no frame.
SizeInv ==
  /\ \A t \in Threads : phase[t] \in {"unused", "execed"} => table[t] = <<>>
  /\ \A t \in Threads : phase[t] \in Paged =>
       \/ Len(table[t]) > UserStackPages
       \/ fate # "running" /\ \A u \in Threads \ {t} : phase[u] = "unused"

\* No other page table, not even that of a finished thread, has a frame of the
\* stack of a thread that can run.
StackInv ==
  \A t, u \in Threads : t # u /\ phase[t] \in Paged =>
    \A i \in StackOf(t), j \in 1..Len(table[u]) : table[t][i] # table[u][j]

FrameInv == TableInv /\ SizeInv /\ StackInv

\* What a part of a sequence has.
LEMMA SubSeqRange ==
  ASSUME NEW S, NEW s \in Seq(S), NEW a \in 1..(Len(s) + 1), NEW b \in (a - 1)..Len(s)
  PROVE  /\ SubSeq(s, a, b) \in Seq(S) /\ Len(SubSeq(s, a, b)) = b - a + 1
         /\ \A k \in 1..(b - a + 1) : SubSeq(s, a, b)[k] = s[a + k - 1]
         /\ \A x \in Range(SubSeq(s, a, b)) : \E k \in 1..(b - a + 1) : x = s[a + k - 1]
<1>1. /\ Len(SubSeq(s, a, b)) = b - a + 1
      /\ \A k \in 1..(b - a + 1) : SubSeq(s, a, b)[k] = s[a + k - 1]
  OBVIOUS
<1>2. SubSeq(s, a, b) \in Seq(S)
  OBVIOUS
<1>3. DOMAIN SubSeq(s, a, b) = 1..(b - a + 1)
  BY <1>1, <1>2
<1> QED BY <1>1, <1>2, <1>3, Zenon DEF Range

\* Frame by frame or as sets, it is the same.
LEMMA FrameInvImplies == ContextTypes /\ FrameInv => FramesAccounted
<1> SUFFICES ASSUME ContextTypes, FrameInv PROVE FramesAccounted
  OBVIOUS
<1>1. \A t \in Threads : Range(table[t]) = {table[t][i] : i \in 1..Len(table[t])}
  BY DEF FrameInv, TableInv, Range
<1>2. marked = UNION {Range(table[t]) : t \in Threads}
  <2>1. ASSUME NEW f \in marked PROVE f \in UNION {Range(table[t]) : t \in Threads}
    <3>1. PICK t \in Threads : \E i \in 1..Len(table[t]) : table[t][i] = f
      BY DEF FrameInv, TableInv
    <3>2. f \in Range(table[t])
      BY <1>1, <3>1, Zenon
    <3> QED BY <3>2
  <2>2. ASSUME NEW t \in Threads, NEW f \in Range(table[t]) PROVE f \in marked
    <3>1. \E i \in 1..Len(table[t]) : table[t][i] = f
      BY <1>1, <2>2, Zenon
    <3> QED BY <3>1 DEF FrameInv, TableInv
  <2> QED BY <2>1, <2>2
<1>3. ASSUME NEW t \in Alive, NEW u \in Alive, t # u, phase[t] # "execed",
             NEW f \in Range(SubSeq(table[t], Len(table[t]) - UserStackPages + 1, Len(table[t]))),
             f \in Range(table[u])
      PROVE  FALSE
  <2>1. t \in Threads /\ u \in Threads /\ phase[t] \in Paged /\ phase[u] # "unused"
    BY <1>3, Zenon DEF Alive, ContextTypes, Phases, Begun, Fresh, Paged
  <2>2. Len(table[t]) > UserStackPages
    BY <1>3, <2>1 DEF FrameInv, SizeInv
  <2>3. PICK j \in 1..Len(table[u]) : table[u][j] = f
    BY <1>1, <1>3, <2>1, ZenonT(60)
  <2>4. PICK i \in StackOf(t) : table[t][i] = f
    <3> DEFINE s == table[t]
               a == Len(s) - UserStackPages + 1
    <3>1. s \in Seq(MapFrames) /\ UserStackPages \in Nat /\ Len(s) \in Nat
      BY <2>1, ProcessesAssumption, SMTT(60) DEF FrameInv, TableInv
    <3>2. a \in 1..(Len(s) + 1)
      BY <2>2, <3>1, SMTT(60)
    <3> DEFINE b == Len(s)
    <3>3. b \in (a - 1)..Len(s) /\ f \in Range(SubSeq(s, a, b))
      BY <1>3, <3>1
    <3> HIDE DEF s, a, b
    <3>4. \A x \in Range(SubSeq(s, a, b)) : \E k \in 1..(b - a + 1) : x = s[a + k - 1]
      BY <3>1, <3>2, <3>3, SubSeqRange, ZenonT(60)
    <3>5. PICK k \in 1..(b - a + 1) : f = s[a + k - 1]
      BY <3>3, <3>4
    <3>6. a + k - 1 \in a..b
      BY <3>1, <3>2, <3>3
    <3> QED BY <3>5, <3>6, Zenon DEF StackOf, s, a, b
  <2> QED BY <1>3, <2>1, <2>3, <2>4, Zenon DEF FrameInv, StackInv
<1> QED BY <1>2, <1>3, Zenon DEF FramesAccounted

\* What a thread may become in a step that makes no page table.
PhasesKeep ==
  /\ fate' = "running" => fate = "running"
  /\ \A t \in Threads : /\ phase'[t] = "unused" => phase[t] = "unused"
                        /\ phase'[t] = "execed" => phase[t] \in {"unused", "execed"}
                        /\ phase'[t] \in Paged => phase[t] \in Paged

\* Such a step keeps the invariant.
LEMMA FramesUntouched ==
  ASSUME FrameInv, UNCHANGED spacevars, fate = "running" \/ UNCHANGED <<phase, fate>>, PhasesKeep
  PROVE  FrameInv'
<1>1. TableInv'
  BY DEF FrameInv, TableInv, spacevars
<1>2. SizeInv'
  BY DEF FrameInv, SizeInv, spacevars, PhasesKeep
<1>3. StackInv'
  BY DEF FrameInv, StackInv, StackOf, spacevars, PhasesKeep
<1> QED BY <1>1, <1>2, <1>3 DEF FrameInv

\* The first program's frames are its own and all that is marked.
LEMMA FrameInvInit == StartProcess => FrameInv
<1> SUFFICES ASSUME StartProcess PROVE FrameInv
  OBVIOUS
<1>1. PICK numPages \in ProgramSizes : ExeNoVirtualMemoryConstructor(numPages)
  BY DEF StartProcess
<1>2. /\ numPages \in Nat /\ numPages > UserStackPages /\ UserStackPages \in Nat /\ MapBits \in Nat
      /\ 1 \in Threads
  BY ProcessesAssumption DEF Threads
<1>3. phase = [t \in Threads |-> IF t = 1 THEN "user" ELSE "unused"]
  BY DEF StartProcess
<1>4. CASE table = [t \in Threads |-> <<>>] /\ marked = {} /\ fate = "abort"
  <2>1. TableInv
    BY <1>4 DEF TableInv
  <2>2. SizeInv
    BY <1>3, <1>4, Zenon DEF SizeInv, Paged, Begun
  <2>3. StackInv
    BY <1>4 DEF StackInv
  <2> QED BY <2>1, <2>2, <2>3, Zenon DEF FrameInv
<1>5. ASSUME NEW found \in [1..numPages -> MapFrames], Finds({}, found),
             table = [t \in Threads |-> IF t = 1 THEN found ELSE <<>>],
             marked = Range(found), fate = "running"
      PROVE  FrameInv
  <2>1. found \in Seq(MapFrames) /\ Len(found) = numPages /\ DOMAIN found = 1..numPages
    BY <1>2
  <2>2. \A i, j \in 1..numPages : found[i] = found[j] => i = j
    <3>1. \A i, j \in 1..numPages : j < i => found[i] # found[j]
      BY <1>2, <1>5, <2>1, SMTT(60) DEF Finds
    <3> QED BY <1>2, <3>1, SMTT(60)
  <2>3. table[1] = found /\ \A t \in Threads \ {1} : table[t] = <<>>
    BY <1>2, <1>5
  <2>4. marked = {found[i] : i \in 1..numPages} /\ marked \subseteq MapFrames
    BY <1>5, <2>1, Zenon DEF Range
  <2>5. TableInv
    <3>1. table \in [Threads -> Seq(MapFrames)]
      BY <1>5, <2>1, SMTT(60)
    <3>2. \A t \in Threads : \A i \in 1..Len(table[t]) : table[t][i] \in marked
      BY <2>1, <2>3, <2>4
    <3>3. \A f \in marked : \E t \in Threads : \E i \in 1..Len(table[t]) : table[t][i] = f
      BY <1>2, <2>1, <2>3, <2>4, Zenon
    <3>4. \A t \in Threads : \A i, j \in 1..Len(table[t]) : table[t][i] = table[t][j] => i = j
      BY <2>1, <2>2, <2>3
    <3> QED BY <2>4, <3>1, <3>2, <3>3, <3>4, Zenon DEF TableInv
  <2>6. SizeInv
    BY <1>2, <1>3, <2>1, <2>3, Zenon DEF SizeInv, Paged, Begun
  <2>7. StackInv
    BY <1>3, <2>3 DEF StackInv, Paged, Begun
  <2> QED BY <2>5, <2>6, <2>7 DEF FrameInv
<1> QED BY <1>1, <1>4, <1>5 DEF ExeNoVirtualMemoryConstructor

\* What Find gives is not marked yet, and no frame comes twice.
LEMMA FindsNew ==
  ASSUME NEW map, NEW n \in Nat, NEW found \in [1..n -> MapFrames], Finds(map, found)
  PROVE  /\ found \in Seq(MapFrames) /\ Len(found) = n
         /\ \A f : f \in Range(found) <=> \E i \in 1..n : found[i] = f
         /\ \A i \in 1..n : found[i] \notin map
         /\ \A i, j \in 1..n : found[i] = found[j] => i = j
<1>1. found \in Seq(MapFrames) /\ Len(found) = n /\ DOMAIN found = 1..n
  OBVIOUS
<1>2. \A i, j \in 1..n : j < i => found[i] # found[j]
  BY <1>1 DEF Finds
<1>3. \A i, j \in 1..n : found[i] = found[j] => i = j
  BY <1>2
<1>4. \A i \in 1..n : found[i] \notin map
  BY <1>1, Zenon DEF Finds
<1> QED BY <1>1, <1>3, <1>4, Zenon DEF Range

\* A child's page table: n pages of its parent's and m of its own.
IsChild(child, parent, n, found, m) ==
  /\ child \in Seq(MapFrames) /\ Len(child) = n + m
  /\ \A i \in 1..n : child[i] = parent[i]
  /\ \A i \in (n + 1)..(n + m) : child[i] = found[i - n]

\* A child has the pages of its parent below the stack, then those found.
LEMMA ChildEntries ==
  ASSUME NEW parent \in Seq(MapFrames), NEW n \in Nat, n <= Len(parent),
         NEW m \in Nat, NEW found \in Seq(MapFrames), Len(found) = m
  PROVE  /\ IsChild(ChildPages(SubSeq(parent, 1, n), found), parent, n, found, m)
         /\ Len(SubSeq(parent, 1, n)) = n
<1> DEFINE shared == SubSeq(parent, 1, n)
<1>1. /\ shared \in Seq(MapFrames) /\ Len(shared) = n
      /\ \A i \in 1..n : shared[i] = parent[i]
  <2> DEFINE one == 1
  <2>1. one \in 1..(Len(parent) + 1) /\ n \in (one - 1)..Len(parent)
    OBVIOUS
  <2> HIDE DEF one
  <2>2. /\ SubSeq(parent, one, n) \in Seq(MapFrames) /\ Len(SubSeq(parent, one, n)) = n - one + 1
        /\ \A k \in 1..(n - one + 1) : SubSeq(parent, one, n)[k] = parent[one + k - 1]
    BY <2>1, SubSeqRange
  <2>3. n - one + 1 = n /\ \A k \in 1..n : one + k - 1 = k
    BY DEF one
  <2> QED BY <2>2, <2>3 DEF one
<1> HIDE DEF shared
<1>2. /\ shared \o found \in Seq(MapFrames) /\ Len(shared \o found) = n + m
      /\ \A i \in 1..n : (shared \o found)[i] = shared[i]
      /\ \A i \in (n + 1)..(n + m) : (shared \o found)[i] = found[i - n]
  BY <1>1, SMTT(60)
<1> QED BY <1>1, <1>2, Zenon DEF ChildPages, IsChild, shared

\* Fork marks the frames of the child's stack and gives them to no one else.
LEMMA ForkFrames ==
  ASSUME ContextTypes, FrameInv, fate = "running", phase[running] = "user",
         NEW t \in Threads, phase[t] = "unused", t # running,
         NEW found \in [1..UserStackPages -> MapFrames], Finds(marked, found),
         table' = [table EXCEPT ![t] =
                     ChildPages(SubSeq(table[running], 1, Len(table[running]) - UserStackPages), found)],
         marked' = marked \cup Range(found),
         phase' = [phase EXCEPT ![t] = "forked"], fate' = fate
  PROVE  FrameInv'
<1> DEFINE parent == table[running]
           n == Len(parent) - UserStackPages
           child == ChildPages(SubSeq(parent, 1, n), found)
           m == UserStackPages
<1>1. /\ running \in Threads /\ m \in Nat /\ parent \in Seq(MapFrames) /\ Len(parent) \in Nat
      /\ n \in Nat /\ n > 0 /\ n <= Len(parent)
  <2>1. running \in Threads /\ UserStackPages \in Nat
    BY ProcessesAssumption, Zenon DEF ContextTypes
  <2>2. parent \in Seq(MapFrames) /\ Len(parent) \in Nat
    BY <2>1, SMTT(60) DEF FrameInv, TableInv
  <2>3. Len(parent) > UserStackPages
    BY <2>1 DEF FrameInv, SizeInv, Paged, Begun
  <2> QED BY <2>1, <2>2, <2>3
<1>2. /\ found \in Seq(MapFrames) /\ Len(found) = m
      /\ \A f : f \in Range(found) <=> \E i \in 1..m : found[i] = f
      /\ \A i \in 1..m : found[i] \notin marked
      /\ \A i, j \in 1..m : found[i] = found[j] => i = j
  BY <1>1, FindsNew, Zenon
<1>3. table' = [table EXCEPT ![t] = child]
  BY Zenon
<1>4. Len(parent) = n + m
  BY <1>1, SMTT(60)
<1> HIDE DEF n
<1>5. /\ child \in Seq(MapFrames) /\ Len(child) = n + m
      /\ \A i \in 1..n : child[i] = parent[i]
      /\ \A i \in (n + 1)..(n + m) : child[i] = found[i - n]
  <2> HIDE DEF parent, m
  <2>1. IsChild(child, parent, n, found, m)
    BY <1>1, <1>2, ChildEntries, Zenon
  <2> HIDE DEF child
  <2> QED BY <2>1 DEF IsChild
<1> HIDE DEF child, m
<1>6. /\ \A i \in 1..n : child[i] \in marked
      /\ \A i \in (n + 1)..(n + m) : child[i] \in Range(found) /\ child[i] \notin marked
  <2>1. \A i \in 1..n : parent[i] \in marked
    <3>1. \A i \in 1..n : i \in 1..Len(parent)
      BY <1>1
    <3> QED BY <1>1, <3>1 DEF FrameInv, TableInv
  <2>2. \A i \in (n + 1)..(n + m) : i - n \in 1..m
    BY <1>1
  <2> QED BY <1>2, <1>5, <2>1, <2>2, ZenonT(60)
<1>7. \A i, j \in 1..(n + m) : child[i] = child[j] => i = j
  <2> SUFFICES ASSUME NEW i \in 1..(n + m), NEW j \in 1..(n + m), child[i] = child[j]
               PROVE  i = j
    BY Zenon
  <2>1. CASE i \in 1..n /\ j \in 1..n
    <3>1. i \in 1..Len(parent) /\ j \in 1..Len(parent) /\ parent[i] = parent[j]
      BY <1>1, <1>5, <2>1
    <3> QED BY <1>1, <3>1, Zenon DEF FrameInv, TableInv
  <2>2. CASE i \in (n + 1)..(n + m) /\ j \in (n + 1)..(n + m)
    <3>1. i - n \in 1..m /\ j - n \in 1..m
      BY <1>1, <2>2
    <3>2. found[i - n] = found[j - n]
      BY <1>5, <2>2, Zenon
    <3>3. i - n = j - n
      BY <1>2, <3>1, <3>2, ZenonT(60)
    <3> QED BY <1>1, <2>2, <3>3
  <2>3. (i \in 1..n \/ i \in (n + 1)..(n + m)) /\ (j \in 1..n \/ j \in (n + 1)..(n + m))
    BY <1>1, SMTT(60)
  <2> QED BY <1>6, <2>1, <2>2, <2>3, Zenon
<1>8. /\ table'[t] = child /\ table[t] = << >> /\ \A u \in Threads \ {t} : table'[u] = table[u]
      /\ phase'[t] = "forked" /\ \A u \in Threads \ {t} : phase'[u] = phase[u]
  BY <1>3 DEF FrameInv, TableInv, SizeInv, ContextTypes
<1>9. TableInv'
  <2>1. table' \in [Threads -> Seq(MapFrames)]
    BY <1>3, <1>5, SMTT(60) DEF FrameInv, TableInv
  <2>2. marked' \subseteq MapFrames
    <3>1. \A i \in 1..m : found[i] \in MapFrames
      BY Zenon DEF m
    <3> QED BY <1>2, <3>1 DEF FrameInv, TableInv
  <2>3. \A u \in Threads : \A i \in 1..Len(table'[u]) : table'[u][i] \in marked'
    <3>1. \A i \in 1..Len(child) : i \in 1..n \/ i \in (n + 1)..(n + m)
      BY <1>1, <1>5
    <3>2. \A i \in 1..Len(child) : child[i] \in marked'
      BY <1>6, <3>1, Zenon
    <3> QED BY <1>8, <3>2, SMTT(60) DEF FrameInv, TableInv
  <2>4. ASSUME NEW f \in marked'
        PROVE  \E u \in Threads : \E i \in 1..Len(table'[u]) : table'[u][i] = f
    <3>1. CASE f \in marked
      <4>1. PICK u \in Threads : \E i \in 1..Len(table[u]) : table[u][i] = f
        BY <3>1, Zenon DEF FrameInv, TableInv
      <4>2. u # t
        BY <1>8, <4>1, SMTT(60)
      <4> QED BY <1>8, <4>1, <4>2, ZenonT(60)
    <3>2. CASE f \in Range(found)
      <4>1. PICK i \in 1..m : found[i] = f
        BY <1>2, <3>2, Zenon
      <4>2. i + n \in (n + 1)..(n + m) /\ i + n \in 1..Len(child) /\ (i + n) - n = i
        BY <1>1, <1>5
      <4>3. child[i + n] = f
        BY <1>5, <4>1, <4>2, Zenon
      <4> QED BY <1>8, <4>2, <4>3
    <3> QED BY <3>1, <3>2, Zenon
  <2>5. \A u \in Threads : \A i, j \in 1..Len(table'[u]) : table'[u][i] = table'[u][j] => i = j
    BY <1>5, <1>7, <1>8, SMTT(60) DEF FrameInv, TableInv
  <2> QED BY <2>1, <2>2, <2>3, <2>4, <2>5, Zenon DEF TableInv
<1>10. SizeInv'
  <2>1. Len(table'[t]) > UserStackPages
    BY <1>1, <1>5, <1>8 DEF m
  <2>2. \A u \in Threads \ {t} : phase[u] \in Paged => Len(table[u]) > UserStackPages
    BY DEF FrameInv, SizeInv
  <2> QED BY <1>8, <2>1, <2>2, Zenon DEF FrameInv, SizeInv
<1>11. StackInv'
  <2> SUFFICES ASSUME NEW p \in Threads, NEW u \in Threads, p # u, phase'[p] \in Paged,
                      NEW i \in StackOf(p)', NEW j \in 1..Len(table'[u])
               PROVE  table'[p][i] # table'[u][j]
    BY DEF StackInv
  <2>1. CASE p = t
    <3>1. i \in (n + 1)..(n + m)
      BY <1>1, <1>5, <1>8, <2>1, SMTT(60) DEF StackOf, m
    <3>2. table'[p][i] \notin marked
      BY <1>6, <1>8, <2>1, <3>1, Zenon
    <3>3. table'[u][j] \in marked
      BY <1>8, <2>1, ZenonT(60) DEF FrameInv, TableInv
    <3> QED BY <3>2, <3>3, Zenon
  <2>2. CASE u = t
    <3>1. phase[p] \in Paged /\ table'[p] = table[p] /\ i \in StackOf(p) /\ p # t
      BY <1>8, <2>2, Zenon DEF StackOf
    <3>2. Len(table[p]) > UserStackPages /\ Len(table[p]) \in Nat
      BY <3>1 DEF FrameInv, SizeInv, TableInv
    <3>3. i \in 1..Len(table[p])
      BY <1>1, <3>1, <3>2, SMTT(60) DEF StackOf, m
    <3>4. table[p][i] \in marked
      BY <3>3, Zenon DEF FrameInv, TableInv
    <3>5. j \in 1..n \/ j \in (n + 1)..(n + m)
      BY <1>1, <1>5, <1>8, <2>2, SMTT(60)
    <3>6. CASE j \in (n + 1)..(n + m)
      BY <1>6, <1>8, <2>2, <3>1, <3>4, <3>6, Zenon
    <3>7. CASE j \in 1..n
      <4>1. table'[u][j] = parent[j] /\ j \in 1..Len(parent)
        BY <1>1, <1>4, <1>5, <1>8, <2>2, <3>7, Zenon
      <4>2. CASE p = running
        <5>1. i > n
          BY <1>1, <1>4, <3>1, <4>2 DEF StackOf, m
        <5>2. i # j
          BY <1>1, <3>3, <3>7, <5>1, SMTT(60)
        <5> QED BY <3>1, <3>3, <4>1, <4>2, <5>2, SMTT(60) DEF FrameInv, TableInv
      <4>3. CASE p # running
        BY <1>1, <3>1, <4>1, <4>3, ZenonT(60) DEF FrameInv, StackInv
      <4> QED BY <4>2, <4>3, Zenon
    <3> QED BY <3>5, <3>6, <3>7, Zenon
  <2>3. CASE p # t /\ u # t
    <3>1. phase[p] \in Paged /\ i \in StackOf(p) /\ j \in 1..Len(table[u])
      BY <1>8, <2>3, Zenon DEF StackOf
    <3> QED BY <1>8, <2>3, <3>1 DEF FrameInv, StackInv
  <2> QED BY <2>1, <2>2, <2>3, Zenon
<1> QED BY <1>9, <1>10, <1>11 DEF FrameInv

\* A Fork that runs out of frames gives back what it took.
LEMMA FailedForkFrames ==
  ASSUME ContextTypes, FrameInv, fate = "running", phase[running] = "user",
         NEW n \in 0..(UserStackPages - 1), NEW found \in [1..n -> MapFrames],
         Finds(marked, found),
         NEW shared, shared = SubSeq(table[running], 1, Len(table[running]) - UserStackPages)
  PROVE  (marked \cup Range(found)) \ ClearedPages(shared, ChildPages(shared, found)) = marked
<1> DEFINE parent == table[running]
           k == Len(parent) - UserStackPages
           made == ChildPages(shared, found)
<1>1. /\ n \in Nat /\ parent \in Seq(MapFrames) /\ k \in Nat /\ k <= Len(parent)
      /\ shared = SubSeq(parent, 1, k)
  <2>1. running \in Threads /\ UserStackPages \in Nat /\ n \in Nat
    BY ProcessesAssumption DEF ContextTypes
  <2>2. parent \in Seq(MapFrames) /\ Len(parent) \in Nat
    BY <2>1, SMTT(60) DEF FrameInv, TableInv
  <2>3. Len(parent) > UserStackPages
    BY <2>1 DEF FrameInv, SizeInv, Paged, Begun
  <2> QED BY <2>1, <2>2, <2>3, SMTT(60)
<1> HIDE DEF parent, k
<1>2. /\ found \in Seq(MapFrames) /\ Len(found) = n
      /\ \A f : f \in Range(found) <=> \E i \in 1..n : found[i] = f
      /\ \A i \in 1..n : found[i] \notin marked
  BY <1>1, FindsNew, ZenonT(60)
<1>3. /\ made \in Seq(MapFrames) /\ Len(made) = k + n /\ Len(shared) = k
      /\ \A i \in (k + 1)..(k + n) : made[i] = found[i - k]
  <2> DEFINE child == ChildPages(SubSeq(parent, 1, k), found)
  <2>1. /\ child \in Seq(MapFrames) /\ Len(child) = k + n /\ Len(SubSeq(parent, 1, k)) = k
        /\ \A i \in (k + 1)..(k + n) : child[i] = found[i - k]
    <3>1. IsChild(child, parent, k, found, n) /\ Len(SubSeq(parent, 1, k)) = k
      BY <1>1, <1>2, ChildEntries, Zenon
    <3> HIDE DEF child
    <3> QED BY <3>1, Zenon DEF IsChild
  <2>2. made = child
    BY <1>1, Zenon
  <2> HIDE DEF child, made
  <2> QED BY <1>1, <2>1, <2>2, Zenon
<1> HIDE DEF made
<1>4. Range(SubSeq(made, k + 1, k + n)) = Range(found)
  <2> DEFINE a == k + 1
             b == k + n
  <2>1. a \in 1..(Len(made) + 1) /\ b \in (a - 1)..Len(made) /\ b - a + 1 = n
    BY <1>1, <1>3
  <2>2. \A i \in 1..n : a + i - 1 \in (k + 1)..(k + n) /\ (a + i - 1) - k = i
    BY <1>1, SMTT(60)
  <2> HIDE DEF a, b
  <2>3. /\ SubSeq(made, a, b) \in Seq(MapFrames) /\ Len(SubSeq(made, a, b)) = b - a + 1
        /\ \A i \in 1..(b - a + 1) : SubSeq(made, a, b)[i] = made[a + i - 1]
    BY <1>3, <2>1, SubSeqRange, SMTT(60)
  <2>4. \A i \in 1..n : SubSeq(made, a, b)[i] = found[i]
    BY <1>3, <2>1, <2>2, <2>3, ZenonT(60)
  <2>5. DOMAIN SubSeq(made, a, b) = 1..n
    BY <2>1, <2>3
  <2>6. \A f : f \in Range(SubSeq(made, a, b)) <=> \E i \in 1..n : SubSeq(made, a, b)[i] = f
    BY <2>5, Zenon DEF Range
  <2>7. \A f : f \in Range(SubSeq(made, a, b)) <=> f \in Range(found)
    BY <1>2, <2>4, <2>6, ZenonT(60)
  <2> QED BY <2>7, Zenon DEF a, b
<1>5. ClearedPages(shared, made) = Range(found)
  BY <1>3, <1>4, Zenon DEF ClearedPages
<1> QED BY <1>2, <1>5 DEF made

\* A thread that leaves the processor, finishes or returns keeps its table.
LEMMA PhaseSteps ==
  ASSUME CInv, fate = "running", NEW to \in Phases, phase[running] # "unused",
         to \in Paged => phase[running] \in Paged, to \notin {"unused", "execed"},
         phase' = [phase EXCEPT ![running] = to]
  PROVE  PhasesKeep
BY DEF CInv, ContextTypes, PhasesKeep

\* Finish moves the thread to its last phase and touches no page table.
LEMMA FinishFrames ==
  ASSUME CInv, FrameInv, fate = "running", phase[running] # "unused", Finish, UNCHANGED spacevars
  PROVE  FrameInv'
<1>1. phase' = [phase EXCEPT ![running] = "finished"]
  BY DEF Finish, Run
<1>2. PhasesKeep
  BY <1>1, PhaseSteps, Zenon DEF Phases, Paged, Begun
<1> QED BY <1>2, FramesUntouched

\* The same of a return.
LEMMA ReturnFrames ==
  ASSUME CInv, FrameInv, fate = "running", phase[running] \in Begun, UNCHANGED spacevars,
         returnFromSystemCall \/ Abort
  PROVE  FrameInv'
<1>1. CASE returnFromSystemCall
  <2>1. PhasesKeep
    BY <1>1, PhaseSteps, Zenon DEF returnFromSystemCall, Phases, Paged, Begun
  <2> QED BY <2>1, FramesUntouched
<1>2. CASE Abort
  BY <1>2, FramesUntouched DEF Abort, threadvars, PhasesKeep
<1> QED BY <1>1, <1>2

\* Every call, kernel step and timer interrupt keeps the page tables.
LEMMA FrameInvNext == CInv /\ FrameInv /\ [ProcNext]_pvars => FrameInv'
<1> SUFFICES ASSUME CInv, FrameInv, [ProcNext]_pvars PROVE FrameInv'
  OBVIOUS
<1>1. ASSUME Syscall PROVE fate = "running" /\ phase[running] = "user" /\ phase[running] \in Begun
  BY <1>1 DEF Syscall, InUserCode, Begun
<1>2. ASSUME NachOS_Halt \/ NachOS_Exit PROVE FrameInv'
  BY <1>1, <1>2, FinishFrames, Zenon DEF NachOS_Halt, NachOS_Exit
<1>3. ASSUME NachOS_Join \/ NachOS_Bind \/ NachOS_Create \/ NachOS_Open \/ UnexpectedException
      PROVE  FrameInv'
  BY <1>1, <1>3, ReturnFrames, Zenon
     DEF NachOS_Join, NachOS_Bind, NachOS_Create, NachOS_Open, UnexpectedException
<1>4. ASSUME NEW handle, \/ NachOS_Read(handle) \/ NachOS_Write(handle)
                         \/ NachOS_Close(handle) \/ NachOS_Connect(handle)
      PROVE  FrameInv'
  BY <1>1, <1>4, ReturnFrames DEF NachOS_Read, NachOS_Write, NachOS_Close, NachOS_Connect
<1>5. ASSUME NEW ipv6, NachOS_Socket(ipv6) PROVE FrameInv'
  BY <1>1, <1>5, ReturnFrames DEF NachOS_Socket
<1>6. ASSUME NachOS_Yield PROVE FrameInv'
  <2>1. CASE ready = << >>
    BY <1>1, <1>6, <2>1, ReturnFrames DEF NachOS_Yield
  <2>2. CASE ready # << >>
    <3>1. phase' = [phase EXCEPT ![running] = "yielding"] /\ fate' = fate /\ UNCHANGED spacevars
      BY <1>6, <2>2 DEF NachOS_Yield, Run
    <3>2. PhasesKeep
      BY <1>1, <1>6, <3>1, PhaseSteps, Zenon DEF NachOS_Yield, Phases, Paged, Begun
    <3> QED BY <1>1, <1>6, <3>1, <3>2, FramesUntouched, Zenon DEF NachOS_Yield
  <2> QED BY <2>1, <2>2
<1>7. ASSUME TimerYield PROVE FrameInv'
  <2>1. phase' = phase /\ fate' = fate /\ UNCHANGED spacevars
    BY <1>7 DEF TimerYield, Run
  <2> QED BY <2>1, FramesUntouched, Zenon DEF PhasesKeep
<1>8. ASSUME EmptyCall PROVE FrameInv'
  <2>1. PhasesKeep
    BY <1>1, <1>8, PhaseSteps, Zenon DEF EmptyCall, Phases, Paged, Begun
  <2> QED BY <1>1, <1>8, <2>1, FramesUntouched DEF EmptyCall
<1>9. ASSUME YieldReturns PROVE FrameInv'
  BY <1>9, ReturnFrames DEF YieldReturns, Begun
<1>10. ASSUME AuxExec PROVE FrameInv'
  <2>1. CASE Finish
    BY <1>10, <2>1, FinishFrames, Zenon DEF AuxExec
  <2>2. CASE fate' = "crash" /\ UNCHANGED threadvars
    BY <1>10, <2>2, FramesUntouched, Zenon DEF AuxExec, threadvars, PhasesKeep
  <2> QED BY <1>10, <2>1, <2>2 DEF AuxExec
<1>11. ASSUME ForkAux PROVE FrameInv'
  <2>1. PhasesKeep
    BY <1>11, PhaseSteps, Zenon DEF ForkAux, Phases, Paged, Begun
  <2> QED BY <1>11, <2>1, FramesUntouched DEF ForkAux
<1>12. ASSUME TouchStack PROVE FrameInv'
  BY <1>12, ReturnFrames DEF TouchStack, InUserCode, Begun
<1>13. ASSUME NachOS_Exec PROVE FrameInv'
  <2>1. PICK t \in NewThreads : phase' = [phase EXCEPT ![t] = "execed", ![running] = "yielding"]
    BY <1>13, Zenon DEF NachOS_Exec, Run
  <2>2. fate' = fate /\ UNCHANGED spacevars /\ fate = "running" /\ phase[running] = "user"
    BY <1>1, <1>13 DEF NachOS_Exec, Run
  <2>3. t \in Threads /\ phase[t] = "unused" /\ t # running
    BY <2>2, NewThread
  <2>4. /\ phase'[t] = "execed" /\ phase'[running] = "yielding"
        /\ \A u \in Threads : u # t /\ u # running => phase'[u] = phase[u]
    BY <2>1, <2>3, Zenon DEF CInv, ContextTypes
  <2>5. PhasesKeep
    BY <2>2, <2>3, <2>4 DEF PhasesKeep, Paged, Begun
  <2> QED BY <2>2, <2>5, FramesUntouched
<1>14. ASSUME NachOS_Fork PROVE FrameInv'
  <2>1. fate = "running" /\ phase[running] = "user"
    BY <1>1, <1>14 DEF NachOS_Fork
  <2>2. PICK t \in NewThreads : NoVirtualMemoryConstructor(t)
    BY <1>14, Zenon DEF NachOS_Fork
  <2>3. t \in Threads /\ phase[t] = "unused" /\ t # running
    BY <2>1, NewThread
  <2> DEFINE shared == SubSeq(table[running], 1, Len(table[running]) - UserStackPages)
  <2>4. ASSUME NEW found \in [1..UserStackPages -> MapFrames], Finds(marked, found),
               table' = [table EXCEPT ![t] = ChildPages(shared, found)],
               marked' = marked \cup Range(found),
               phase' = [phase EXCEPT ![t] = "forked"], fate' = fate
        PROVE  FrameInv'
    BY <2>1, <2>3, <2>4, ForkFrames, Zenon DEF CInv
  <2>5. ASSUME NEW n \in 0..(UserStackPages - 1), NEW found \in [1..n -> MapFrames],
               Finds(marked, found), Finish, table' = table,
               marked' = (marked \cup Range(found)) \ ClearedPages(shared, ChildPages(shared, found))
        PROVE  FrameInv'
    <3> HIDE DEF shared
    <3>1. (marked \cup Range(found)) \ ClearedPages(shared, ChildPages(shared, found)) = marked
      BY <2>1, <2>5, FailedForkFrames, Zenon DEF CInv, shared
    <3>2. UNCHANGED spacevars
      BY <2>5, <3>1, Zenon DEF spacevars
    <3> QED BY <2>1, <2>5, <3>2, FinishFrames
  <2> QED BY <2>2, <2>4, <2>5, Zenon DEF NoVirtualMemoryConstructor
<1>15. CASE UNCHANGED pvars
  BY <1>15, FramesUntouched DEF pvars, threadvars, PhasesKeep
<1> QED
  BY <1>2, <1>3, <1>4, <1>5, <1>6, <1>7, <1>8, <1>9, <1>10, <1>11, <1>12, <1>13, <1>14, <1>15, Zenon
     DEF ProcNext, ExceptionHandler, KernelSteps

\* MiMapa marks the frames of the page tables and no others, and the stack of a
\* living thread is in no other page table, for every number of threads and
\* frames and every order of Fork, Exec, Yield, Exit and timer interrupts,
\* failed Forks included.
THEOREM FramesStayAccounted == ProcSpec => []FramesAccounted
<1>1. CInv /\ FrameInv => FramesAccounted
  BY FrameInvImplies DEF CInv
<1> QED BY <1>1, CInvInit, CInvNext, FrameInvInit, FrameInvNext, PTL DEF ProcSpec

----------------------------------------------------------------------------
\* ---- handles ----

\* A set of natural numbers that is not empty has a least one, and Min is it.
LEMMA LeastOne ==
  ASSUME NEW S, S \subseteq Nat, S # {}
  PROVE  Min(S) \in S /\ \A y \in S : Min(S) <= y
<1> DEFINE R == OpToRel(<, Nat)
<1>1. IsWellFoundedOn(R, Nat)
  BY NatLessThanWellFounded, Zenon
<1>2. \A x, y \in Nat : x < y => <<x, y>> \in R
  BY DEF OpToRel
<1> HIDE DEF R
<1>3. PICK x \in S : \A y \in S : ~(<<y, x>> \in R)
  BY <1>1, WFMin, Zenon
<1>4. ASSUME NEW y \in S PROVE x <= y
  <2>1. x \in Nat /\ y \in Nat
    OBVIOUS
  <2>2. ~(y < x)
    BY <1>2, <1>3, <2>1, Zenon
  <2> QED BY <2>1, <2>2
<1> QED BY <1>4, Zenon DEF Min

\* The host has given out no descriptor above those of as many calls.
HandleTypes ==
  /\ files \in [Handles -> HostFds \cup {-1, Free}]
  /\ calls \in 0..MaxCalls /\ fds \subseteq 0..(2 + calls)

HInv == HandleTypes /\ HandlesSound

\* The table starts with the console's descriptors.
LEMMA HInvInit == StartProcess => HInv
<1> SUFFICES ASSUME StartProcess PROVE HInv
  OBVIOUS
<1>1. tableSize \in Nat /\ MaxCalls \in Nat /\ tableSize > 2
  BY ProcessesAssumption
<1>2. files = NachosOpenFilesTable /\ fds = 0..2 /\ calls = 0
  BY DEF StartProcess
<1>3. \A h \in Handles : files[h] = IF h \in 0..2 THEN h ELSE Free
  BY <1>2 DEF NachosOpenFilesTable
<1>4. HandleTypes
  <2>1. \A h \in 0..2 : h \in HostFds
    BY <1>1 DEF HostFds
  <2>2. files \in [Handles -> HostFds \cup {-1, Free}]
    BY <1>2, <2>1 DEF NachosOpenFilesTable
  <2> QED BY <1>1, <1>2, <2>2 DEF HandleTypes
<1>5. HandlesSound
  BY <1>2, <1>3 DEF HandlesSound, Free
<1> QED BY <1>4, <1>5 DEF HInv

\* What the host gives is -1 or new, and within the bound.
LEMMA HostGivesNew ==
  ASSUME HandleTypes, calls < MaxCalls, calls' = calls + 1, NEW fd \in HostGives
  PROVE  /\ fd \in HostFds \cup {-1} /\ fd \notin fds /\ fd # Free
         /\ calls' \in 0..MaxCalls /\ HostHas(fd) \subseteq 0..(2 + calls')
<1> DEFINE left == HostFds \ fds
           next == 3 + calls
<1>1. /\ tableSize \in Nat /\ MaxCalls \in Nat /\ tableSize > 2 /\ calls \in Nat
      /\ calls' \in 0..MaxCalls
  BY ProcessesAssumption DEF HandleTypes
<1>2. next \in HostFds
  BY <1>1 DEF HostFds
<1>3. next \notin fds
  BY <1>1 DEF HandleTypes
<1>4. left \subseteq Nat /\ next \in left
  BY <1>1, <1>2, <1>3 DEF HostFds
<1> HIDE DEF left
<1>5. Min(left) \in left /\ Min(left) <= next
  BY <1>4, LeastOne, Zenon
<1>6. fd = -1 \/ (fd \in left /\ fd <= next)
  BY <1>5 DEF HostGives, left
<1>7. CASE fd = -1
  <2>1. HostHas(fd) = fds /\ -1 \notin fds
    BY <1>1, <1>7 DEF HostHas, HandleTypes
  <2>2. fds \subseteq 0..(2 + calls')
    BY <1>1 DEF HandleTypes
  <2>3. fd \in HostFds \cup {-1} /\ fd # Free
    BY <1>7 DEF Free
  <2> QED BY <1>1, <1>7, <2>1, <2>2, <2>3, Zenon
<1>8. CASE fd \in left /\ fd <= next
  <2>1. fd \in HostFds /\ fd \notin fds /\ fd \in Nat
    BY <1>4, <1>8 DEF left
  <2>2. fd \in 0..(2 + calls')
    BY <1>1, <1>8, <2>1, SMTT(60)
  <2>3. fds \subseteq 0..(2 + calls')
    BY <1>1 DEF HandleTypes
  <2> QED BY <1>1, <2>1, <2>2, <2>3 DEF HostHas, Free
<1> QED BY <1>6, <1>7, <1>8

\* The entry for a descriptor was free or has that descriptor already.
LEMMA HandleForFits ==
  ASSUME NEW fd, HandleFor(fd) # -1
  PROVE  HandleFor(fd) \in Handles /\ files[HandleFor(fd)] \in {fd, Free}
<1> DEFINE same == {h \in Handles : files[h] = fd}
           clear == {h \in Handles : files[h] = Free}
<1>1. tableSize \in Nat
  BY ProcessesAssumption
<1>2. same \subseteq Nat /\ clear \subseteq Nat
  BY <1>1 DEF Handles
<1>3. \A h \in same : h \in Handles /\ files[h] = fd
  OBVIOUS
<1>4. \A h \in clear : h \in Handles /\ files[h] = Free
  OBVIOUS
<1>5. HandleFor(fd) = IF same # {} /\ Min(same) # 0 THEN Min(same)
                      ELSE IF clear = {} THEN -1 ELSE Min(clear)
  BY DEF HandleFor
<1> HIDE DEF same, clear
<1>6. same # {} => Min(same) \in same
  BY <1>2, LeastOne, Zenon
<1>7. clear # {} => Min(clear) \in clear
  BY <1>2, LeastOne, Zenon
<1> QED BY <1>3, <1>4, <1>5, <1>6, <1>7, Zenon

\* An entry of the table is taken, for a new descriptor or a refused one.
LEMMA TableOpenKeeps ==
  ASSUME HInv, calls < MaxCalls, calls' = calls + 1, NEW fd \in HostGives,
         fds' = HostHas(fd), TableOpen(fd) \/ files' = files
  PROVE  HInv'
<1>1. /\ fd \in HostFds \cup {-1} /\ fd \notin fds /\ fd # Free
      /\ calls' \in 0..MaxCalls /\ fds' \subseteq 0..(2 + calls')
  BY HostGivesNew DEF HInv
<1>2. \A x \in fds : x \in fds'
  BY DEF HostHas
<1>3. fd # -1 => fd \in fds'
  BY DEF HostHas
<1>4. CASE files' = files
  <2>1. HandleTypes'
    BY <1>1, <1>4 DEF HInv, HandleTypes
  <2>2. HandlesSound'
    BY <1>2, <1>4 DEF HInv, HandlesSound
  <2> QED BY <2>1, <2>2, Zenon DEF HInv
<1>5. CASE files' # files /\ TableOpen(fd)
  <2> DEFINE e == HandleFor(fd)
  <2>1. e # -1 /\ files' = [files EXCEPT ![e] = fd]
    BY <1>5 DEF TableOpen
  <2>2. e \in Handles /\ files[e] \in {fd, Free}
    BY <2>1, HandleForFits
  <2> HIDE DEF e
  <2>3. files'[e] = fd /\ \A h \in Handles \ {e} : files'[h] = files[h]
    BY <2>1, <2>2 DEF HInv, HandleTypes
  <2>4. HandleTypes'
    BY <1>1, <2>1, <2>2 DEF HInv, HandleTypes
  <2>5. \A h \in Handles : files[h] # fd \/ fd = -1
    BY <1>1 DEF HInv, HandlesSound
  <2>6. HandlesSound'
    <3> SUFFICES ASSUME NEW h \in Handles, files'[h] \notin {Free, -1}
                 PROVE  files'[h] \in fds' /\ \A g \in Handles \ {h} : files'[g] # files'[h]
      BY DEF HandlesSound
    <3>1. CASE h = e
      BY <1>1, <1>3, <2>2, <2>3, <2>5, <3>1, Zenon
    <3>2. CASE h # e
      <4>1. files'[h] = files[h] /\ files[h] \in fds /\ \A g \in Handles \ {h} : files[g] # files[h]
        BY <2>3, <3>2 DEF HInv, HandlesSound
      <4>2. files'[h] # fd
        BY <1>1, <4>1
      <4> QED BY <1>2, <2>3, <3>2, <4>1, <4>2, Zenon
    <3> QED BY <3>1, <3>2
  <2> QED BY <2>4, <2>6 DEF HInv
<1> QED BY <1>4, <1>5

\* A step that leaves the table and the host's descriptors alone.
LEMMA HandlesUntouched ==
  ASSUME HInv, UNCHANGED <<files, fds>>, calls' = calls \/ (calls < MaxCalls /\ calls' = calls + 1)
  PROVE  HInv'
<1>1. MaxCalls \in Nat /\ calls \in 0..MaxCalls
  BY ProcessesAssumption DEF HInv, HandleTypes
<1>2. calls' \in 0..MaxCalls /\ 0..(2 + calls) \subseteq 0..(2 + calls')
  BY <1>1
<1>3. HandleTypes'
  BY <1>2, Zenon DEF HInv, HandleTypes
<1>4. HandlesSound'
  BY DEF HInv, HandlesSound
<1> QED BY <1>3, <1>4 DEF HInv

\* Close frees the entry and the host's descriptor.
LEMMA CloseKeeps ==
  ASSUME HInv, NEW handle, NachOS_Close(handle)
  PROVE  HInv'
<1>1. calls < MaxCalls /\ calls' = calls + 1
  BY DEF NachOS_Close, Syscall
<1>2. CASE UNCHANGED <<files, fds>>
  BY <1>1, <1>2, HandlesUntouched
<1>3. CASE isOpened(handle) = "yes" /\ TableClose(handle) /\ fds' = fds \ {files[handle]}
  <2>1. handle \in Handles /\ files[handle] # Free
    BY <1>3 DEF isOpened
  <2>2. /\ files' = [files EXCEPT ![handle] = Free] /\ files'[handle] = Free
        /\ \A h \in Handles \ {handle} : files'[h] = files[h]
    BY <1>3, <2>1 DEF TableClose, HInv, HandleTypes
  <2>3. MaxCalls \in Nat /\ calls \in 0..MaxCalls
    BY ProcessesAssumption DEF HInv, HandleTypes
  <2>4. calls' \in 0..MaxCalls /\ 0..(2 + calls) \subseteq 0..(2 + calls')
    BY <1>1, <2>3
  <2>5. HandleTypes'
    BY <1>3, <2>1, <2>2, <2>4, Zenon DEF HInv, HandleTypes
  <2>6. HandlesSound'
    <3> SUFFICES ASSUME NEW h \in Handles, files'[h] \notin {Free, -1}
                 PROVE  files'[h] \in fds' /\ \A g \in Handles \ {h} : files'[g] # files'[h]
      BY DEF HandlesSound
    <3>1. h # handle /\ files'[h] = files[h]
      BY <2>2
    <3>2. files[h] \in fds /\ \A g \in Handles \ {h} : files[g] # files[h]
      BY <3>1 DEF HInv, HandlesSound
    <3> QED BY <1>3, <2>1, <2>2, <3>1, <3>2
  <2> QED BY <2>5, <2>6 DEF HInv
<1> QED BY <1>2, <1>3 DEF NachOS_Close

\* Every call, kernel step and timer interrupt keeps the table sound.
LEMMA HInvNext == HInv /\ [ProcNext]_pvars => HInv'
<1> SUFFICES ASSUME HInv, [ProcNext]_pvars PROVE HInv'
  OBVIOUS
<1>1. ASSUME Syscall PROVE calls < MaxCalls /\ calls' = calls + 1
  BY <1>1, Zenon DEF Syscall
<1>2. ASSUME \/ NachOS_Halt \/ NachOS_Exit \/ NachOS_Exec \/ NachOS_Join \/ NachOS_Yield
             \/ NachOS_Fork \/ NachOS_Bind \/ EmptyCall \/ UnexpectedException
      PROVE  HInv'
  BY <1>1, <1>2, HandlesUntouched, Zenon
     DEF NachOS_Halt, NachOS_Exit, NachOS_Exec, NachOS_Join, NachOS_Yield, NachOS_Fork,
         NachOS_Bind, EmptyCall, UnexpectedException, filevars
<1>3. ASSUME NEW handle, NachOS_Read(handle) \/ NachOS_Write(handle) \/ NachOS_Connect(handle)
      PROVE  HInv'
  BY <1>1, <1>3, HandlesUntouched DEF NachOS_Read, NachOS_Write, NachOS_Connect, filevars
<1>4. ASSUME NachOS_Create \/ NachOS_Open PROVE HInv'
  <2>1. calls < MaxCalls /\ calls' = calls + 1
    BY <1>1, <1>4 DEF NachOS_Create, NachOS_Open
  <2>2. \E fd \in HostGives : fds' = HostHas(fd) /\ (TableOpen(fd) \/ files' = files)
    BY <1>4 DEF NachOS_Create, NachOS_Open
  <2> QED BY <2>1, <2>2, TableOpenKeeps
<1>5. ASSUME NEW ipv6, NachOS_Socket(ipv6) PROVE HInv'
  <2>1. calls < MaxCalls /\ calls' = calls + 1
    BY <1>1, <1>5 DEF NachOS_Socket
  <2>2. \E fd \in HostGives : fds' = HostHas(fd) /\ (TableOpen(fd) \/ files' = files)
    BY <1>5, SMTT(60) DEF NachOS_Socket
  <2> QED BY <2>1, <2>2, TableOpenKeeps
<1>6. ASSUME KernelSteps \/ TimerYield \/ TouchStack \/ UNCHANGED pvars PROVE HInv'
  BY <1>6, HandlesUntouched, Zenon
     DEF KernelSteps, YieldReturns, AuxExec, ForkAux, TimerYield, TouchStack, pvars, filevars
<1> QED BY <1>2, <1>3, <1>4, <1>5, <1>6, CloseKeeps DEF ProcNext, ExceptionHandler

\* Two open handles never stand for one descriptor of the host, for every size
\* of the table and every order of Open, Create, Socket and Close by any number
\* of threads that share it.
THEOREM HandlesStaySound == ProcSpec => []HandlesSound
<1>1. HInv => HandlesSound
  BY DEF HInv
<1> QED BY <1>1, HInvInit, HInvNext, PTL DEF ProcSpec
============================================================================
