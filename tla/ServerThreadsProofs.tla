------------------------ MODULE ServerThreadsProofs ------------------------
(***************************************************************************)
(* For every number of workers, connections and sockets, and whenever the  *)
(* application stops the threads: the invariants of ServerThreads.         *)
(*                                                                         *)
(* None of the five invariants is inductive alone.  TickerAtFront needs to *)
(* know who holds threads_lock and that the running ticker is in the list; *)
(* SocketOutlivesWorkers needs that the list is empty when the socket is   *)
(* closed, and that the list covers the running threads.  IInv is the      *)
(* conjunction that carries itself from step to step.                      *)
(*                                                                         *)
(* The last two sections show that the threads implement WorkerPool, and   *)
(* that the settled application is never killed.                           *)
(***************************************************************************)
EXTENDS ServerThreads, TLAPS, SequenceTheorems

(* Who holds threads_lock is known from where the two threads are.         *)
LockInv ==
    /\ threads_lock = "ticker" <=> pc[Ticker] = "signal"
    /\ threads_lock = "app" <=> appPc \in {"join", "finalize_join"}

(* The list: every running thread, the ticker first, then workers.  An id  *)
(* above last_thread_id has never been given to a thread.                  *)
ListInv ==
    /\ \A t \in Threads :
          Active(t) => \E i \in 1 .. Len(threads) : threads[i] = t
    /\ threads # <<>> => threads[1] = Ticker
    /\ \A i \in 2 .. Len(threads) : threads[i] \in Workers
    /\ \A w \in Workers : w > last_thread_id => pc[w] = "none"
    /\ appPc = "close" => threads = <<>>

(* Only a running worker has a listen_sock, and it is the open socket.     *)
SocketInv ==
    \A w \in Workers : /\ fd[w] # 0 => fd[w] = socket_fd
                       /\ ~Active(w) => fd[w] = 0

IInv == TypeOK /\ LockInv /\ ListInv /\ SocketInv /\ TickNotLost

USE DEF Ticker, Workers, Threads, Signals, Active, Listed, Goto,
        appVars, socketVars, procVars, flagVars

LEMMA InitIInv == Init => IInv
<1> SUFFICES ASSUME Init PROVE IInv
  OBVIOUS
<1>1. TypeOK
  <2>1. /\ pc \in [Threads -> WorkerLocations \cup TickerLocations]
        /\ pc[Ticker] \in TickerLocations
        /\ \A w \in Workers : pc[w] \in WorkerLocations
    BY DEF Init, WorkerLocations, TickerLocations
  <2>2. threads \in Seq(Threads) /\ trigger_index \in Nat \cup {-1}
    BY DEF Init
  <2>3. /\ last_thread_id \in 0 .. MaxThreads
        /\ sockets \in 0 .. MaxSockets
        /\ socket_fd \in 0 .. sockets
        /\ backlog \in 0 .. MaxBacklog
    BY BoundsAssumption DEF Init
  <2>4. /\ shutdown_triggered \in [Threads -> BOOLEAN]
        /\ tick_triggered \in [Threads -> BOOLEAN]
        /\ pending \in [Threads -> SUBSET Signals]
    BY DEF Init
  <2>5. fd \in [Workers -> 0 .. MaxSockets] /\ owed \in [Workers -> BOOLEAN]
    BY BoundsAssumption DEF Init
  <2> QED BY <2>1, <2>2, <2>3, <2>4, <2>5 DEF Init, TypeOK
<1>2. LockInv /\ ListInv /\ SocketInv /\ TickNotLost
  BY DEF Init, LockInv, ListInv, SocketInv, TickNotLost
<1> QED BY <1>1, <1>2 DEF IInv

-----------------------------------------------------------------------------
(* A step that leaves the application, the list, the lock and the socket   *)
(* alone and moves one thread between locations of a running thread keeps  *)
(* IInv, whatever it does to that thread's signals.                        *)
LEMMA MoveKeepsIInv ==
    ASSUME IInv, NEW t \in Threads,
           Active(t), pc[t] # "signal",
           pc' = [pc EXCEPT ![t] = pc'[t]],
           pc'[t] \in IF t = Ticker THEN TickerLocations ELSE WorkerLocations,
           pc'[t] \notin {"none", "done", "signal"},
           UNCHANGED <<appVars, socketVars, fd, trigger_index>>,
           backlog' \in 0 .. MaxBacklog,
           handlers' \in BOOLEAN, process' \in {"running", "killed"},
           shutdown_triggered' \in [Threads -> BOOLEAN],
           tick_triggered' \in [Threads -> BOOLEAN],
           pending' \in [Threads -> SUBSET Signals],
           owed' \in [Workers -> BOOLEAN],
           TickNotLost'
    PROVE  IInv'
<1>1. TypeOK'
  <2>1. /\ pc' \in [Threads -> WorkerLocations \cup TickerLocations]
        /\ pc'[Ticker] \in TickerLocations
        /\ \A w \in Workers : pc'[w] \in WorkerLocations
    <3>1. pc'[t] \in WorkerLocations \cup TickerLocations
      OBVIOUS
    <3>2. \A u \in Threads : u # t => pc'[u] = pc[u]
      BY DEF IInv, TypeOK
    <3>3. Ticker \notin Workers
      OBVIOUS
    <3>4. pc \in [Threads -> WorkerLocations \cup TickerLocations]
      BY DEF IInv, TypeOK
    <3>5. pc' \in [Threads -> WorkerLocations \cup TickerLocations]
      BY <3>1, <3>4
    <3>6. /\ pc[Ticker] \in TickerLocations
          /\ \A w \in Workers : pc[w] \in WorkerLocations
      BY DEF IInv, TypeOK
    <3>7. pc'[Ticker] \in TickerLocations
      BY <3>2, <3>6
    <3>8. ASSUME NEW w \in Workers PROVE pc'[w] \in WorkerLocations
      BY <3>2, <3>3, <3>6
    <3> QED BY <3>5, <3>7, <3>8
  <2> QED BY <2>1 DEF IInv, TypeOK
<1>2. LockInv'
  BY DEF IInv, TypeOK, LockInv
<1>3. ListInv'
  <2>1. UNCHANGED <<threads, last_thread_id, appPc>>
    OBVIOUS
  <2>2. \A u \in Threads : /\ pc'[u] = "none" <=> pc[u] = "none"
                           /\ Active(u)' => Active(u)
    BY DEF IInv, TypeOK
  <2> QED BY <2>1, <2>2 DEF IInv, ListInv
<1>4. SocketInv'
  BY DEF IInv, TypeOK, SocketInv
<1> QED BY <1>1, <1>2, <1>3, <1>4 DEF IInv

(* A thread that returns leaves the list; the lock is not its own.         *)
LEMMA ReturnKeepsIInv ==
    ASSUME IInv, NEW t \in Threads, pc[t] \notin {"none", "signal"}, Return(t),
           UNCHANGED <<appVars, socketVars, backlog, procVars, trigger_index>>
    PROVE  IInv'
<1>1. TypeOK'
  <2>1. /\ shutdown_triggered' \in [Threads -> BOOLEAN]
        /\ tick_triggered' \in [Threads -> BOOLEAN]
        /\ pending' \in [Threads -> SUBSET Signals]
    BY DEF IInv, TypeOK, Return
  <2>2. owed' \in [Workers -> BOOLEAN]
    BY DEF IInv, TypeOK, Return
  <2>4. fd' \in [Workers -> 0 .. MaxSockets]
    BY BoundsAssumption DEF IInv, TypeOK, Return
  <2>3. /\ pc' \in [Threads -> WorkerLocations \cup TickerLocations]
        /\ pc'[Ticker] \in TickerLocations
        /\ \A w \in Workers : pc'[w] \in WorkerLocations
    BY DEF IInv, TypeOK, Return, WorkerLocations, TickerLocations
  <2> QED BY <2>1, <2>2, <2>3, <2>4 DEF IInv, TypeOK
<1>2. LockInv'
  BY DEF IInv, TypeOK, LockInv, Return
<1>3. ListInv'
  BY DEF IInv, TypeOK, ListInv, Return
<1>4. SocketInv'
  BY DEF IInv, TypeOK, SocketInv, Return
<1>5. TickNotLost'
  BY DEF IInv, TypeOK, TickNotLost, Return
<1> QED BY <1>1, <1>2, <1>3, <1>4, <1>5 DEF IInv

-----------------------------------------------------------------------------
(* The application.                                                        *)

(* What add_threads appends to a list that starts with the ticker.         *)
Extended(new, s, n, count) ==
    /\ new \in Seq(Threads)
    /\ Len(new) = Len(s) + count
    /\ \A i \in 1 .. Len(s) : new[i] = s[i]
    /\ \A w \in n + 1 .. n + count :
          w \in Workers /\ new[Len(s) + (w - n)] = w
    /\ \A i \in Len(s) + 1 .. Len(new) : new[i] \in Workers

LEMMA AppendedIds ==
    ASSUME NEW s \in Seq(Threads), NEW n \in Nat, NEW count \in Nat,
           n + count <= MaxThreads
    PROVE  Extended(s \o [i \in 1 .. count |-> n + i], s, n, count)
<1> DEFINE ids == [i \in 1 .. count |-> n + i]
           new == s \o ids
<1>1. ids \in Seq(Workers) /\ Len(ids) = count
  BY BoundsAssumption
<1>2. new \in Seq(Threads) /\ Len(new) = Len(s) + count
  BY <1>1
<1>3. \A i \in 1 .. Len(new) :
         new[i] = IF i <= Len(s) THEN s[i] ELSE ids[i - Len(s)]
  BY <1>1, ConcatProperties
<1>4. \A i \in 1 .. Len(s) : new[i] = s[i]
  BY <1>2, <1>3
<1>5. \A w \in n + 1 .. n + count : w \in Workers /\ new[Len(s) + (w - n)] = w
  <2> SUFFICES ASSUME NEW w \in n + 1 .. n + count
               PROVE  w \in Workers /\ new[Len(s) + (w - n)] = w
    OBVIOUS
  <2>1. w \in Workers
    BY BoundsAssumption
  <2>2. w - n \in 1 .. count /\ Len(s) \in Nat
    OBVIOUS
  <2>3. new[Len(s) + (w - n)] = ids[w - n]
    BY <1>2, <1>3, <2>2
  <2>4. ids[w - n] = w
    BY <2>2
  <2> QED BY <2>1, <2>3, <2>4
<1>6. \A i \in Len(s) + 1 .. Len(new) : new[i] \in Workers
  <2> SUFFICES ASSUME NEW i \in Len(s) + 1 .. Len(new) PROVE new[i] \in Workers
    OBVIOUS
  <2>1. i - Len(s) \in 1 .. count /\ i \in 1 .. Len(new) /\ ~(i <= Len(s))
    BY <1>2
  <2>2. new[i] = ids[i - Len(s)]
    BY <1>3, <2>1
  <2>3. ids[i - Len(s)] = n + (i - Len(s)) /\ n + (i - Len(s)) \in Workers
    BY <2>1, BoundsAssumption
  <2> QED BY <2>2, <2>3
<1> QED BY <1>2, <1>4, <1>5, <1>6 DEF Extended

LEMMA AddThreadsKeepsIInv ==
    ASSUME IInv, NEW count \in 0 .. MaxThreads, AddThreads(count)
    PROVE  IInv'
<1> DEFINE old == WithTicker
<1>1. /\ old \in Seq(Threads)
      /\ Len(old) \in Nat \ {0}
      /\ old[1] = Ticker
      /\ \A i \in 2 .. Len(old) : old[i] \in Workers
  <2>1. CASE threads = <<>>
    <3>1. old = <<Ticker>>
      BY <2>1 DEF WithTicker
    <3>2. Len(old) = 1 /\ old[1] = Ticker /\ old \in Seq(Threads)
      BY <3>1
    <3> QED BY <3>2
  <2>2. CASE threads # <<>>
    <3>1. old = threads /\ threads \in Seq(Threads)
      BY <2>2 DEF WithTicker, IInv, TypeOK
    <3>2. Len(threads) \in Nat \ {0}
      BY <2>2, <3>1
    <3> QED BY <2>2, <3>1, <3>2 DEF IInv, ListInv
  <2> QED BY <2>1, <2>2
<1>2. \A t \in Threads : Active(t) => \E i \in 1 .. Len(old) : old[i] = t
  BY DEF WithTicker, IInv, ListInv
<1>3. last_thread_id \in Nat /\ last_thread_id + count <= MaxThreads /\ count \in Nat
  BY BoundsAssumption DEF AddThreads, IInv, TypeOK
<1>4. threads' = old \o [i \in 1 .. count |-> last_thread_id + i]
  BY DEF AddThreads
<1> HIDE DEF old
<1>5. /\ threads' \in Seq(Threads)
      /\ Len(threads') = Len(old) + count
      /\ \A i \in 1 .. Len(old) : threads'[i] = old[i]
      /\ \A w \in last_thread_id + 1 .. last_thread_id + count :
            w \in Workers /\ threads'[Len(old) + (w - last_thread_id)] = w
      /\ \A i \in Len(old) + 1 .. Len(threads') : threads'[i] \in Workers
  <2>1. Extended(old \o [i \in 1 .. count |-> last_thread_id + i],
                 old, last_thread_id, count)
    BY <1>1, <1>3, AppendedIds
  <2> QED BY <1>4, <2>1 DEF Extended
<1>6. \A t \in Threads :
        \/ pc'[t] = pc[t]
        \/ pc'[t] = "spawned" /\ t = Ticker
        \/ pc'[t] = "spawned" /\ t \in last_thread_id + 1 .. last_thread_id + count
  BY DEF AddThreads
<1>7. TypeOK'
  <2>1. /\ pc' \in [Threads -> WorkerLocations \cup TickerLocations]
        /\ pc'[Ticker] \in TickerLocations
        /\ \A w \in Workers : pc'[w] \in WorkerLocations
    BY DEF AddThreads, IInv, TypeOK, WorkerLocations, TickerLocations
  <2>2. last_thread_id' \in 0 .. MaxThreads /\ trigger_index' \in Nat \cup {-1}
    BY <1>3 DEF AddThreads, IInv, TypeOK
  <2> QED BY <1>5, <2>1, <2>2 DEF AddThreads, IInv, TypeOK
<1>8. LockInv'
  <2>1. pc'[Ticker] = "signal" <=> pc[Ticker] = "signal"
    BY DEF AddThreads, Unlocked, IInv, TypeOK, LockInv
  <2> QED BY <2>1 DEF AddThreads, IInv, LockInv
<1>9. ListInv'
  <2>1. \A t \in Threads : Active(t)' => \E i \in 1 .. Len(threads') : threads'[i] = t
    <3> SUFFICES ASSUME NEW t \in Threads, Active(t)'
                 PROVE  \E i \in 1 .. Len(threads') : threads'[i] = t
      OBVIOUS
    <3>1. CASE pc'[t] = pc[t]
      <4>1. PICK i \in 1 .. Len(old) : old[i] = t
        BY <1>2, <3>1
      <4>2. i \in 1 .. Len(threads') /\ threads'[i] = t
        BY <1>1, <1>3, <1>5, <4>1
      <4> QED BY <4>2
    <3>2. CASE t = Ticker
      BY <1>1, <1>3, <1>5, <3>2
    <3>3. CASE t \in last_thread_id + 1 .. last_thread_id + count
      <4>1. Len(old) + (t - last_thread_id) \in 1 .. Len(threads')
        BY <1>1, <1>3, <1>5, <3>3
      <4>2. threads'[Len(old) + (t - last_thread_id)] = t
        BY <1>5, <3>3
      <4> QED BY <4>1, <4>2
    <3> QED BY <1>6, <3>1, <3>2, <3>3
  <2>2. threads'[1] = Ticker
    BY <1>1, <1>5
  <2>3. \A i \in 2 .. Len(threads') : threads'[i] \in Workers
    <3> SUFFICES ASSUME NEW i \in 2 .. Len(threads') PROVE threads'[i] \in Workers
      OBVIOUS
    <3>1. CASE i <= Len(old)
      <4>1. i \in 1 .. Len(old) /\ i \in 2 .. Len(old)
        BY <1>1, <3>1
      <4> QED BY <1>1, <1>5, <4>1
    <3>2. CASE i > Len(old)
      <4>1. i \in Len(old) + 1 .. Len(threads')
        BY <1>1, <1>3, <1>5, <3>2
      <4> QED BY <1>5, <4>1
    <3> QED BY <1>1, <3>1, <3>2
  <2>4. \A w \in Workers : w > last_thread_id' => pc'[w] = "none"
    <3> SUFFICES ASSUME NEW w \in Workers, w > last_thread_id' PROVE pc'[w] = "none"
      OBVIOUS
    <3>1. w > last_thread_id /\ w \notin last_thread_id + 1 .. last_thread_id + count
      BY <1>3 DEF AddThreads
    <3> QED BY <1>6, <3>1 DEF IInv, ListInv
  <2> QED BY <2>1, <2>2, <2>3, <2>4 DEF AddThreads, ListInv
<1>10. SocketInv' /\ TickNotLost'
  BY <1>6 DEF AddThreads, IInv, TypeOK, SocketInv, TickNotLost, ListInv
<1> QED BY <1>7, <1>8, <1>9, <1>10 DEF IInv

LEMMA AppStepKeepsIInv == ASSUME IInv, AppStep PROVE IInv'
<1> USE BoundsAssumption DEF IInv, TypeOK, LockInv, ListInv, SocketInv, TickNotLost,
        WorkerLocations, TickerLocations
<1>1. ASSUME Initialize PROVE IInv'
  BY <1>1 DEF Initialize
<1>2. ASSUME NEW count \in 0 .. MaxThreads, AddThreads(count) PROVE IInv'
  BY <1>2, AddThreadsKeepsIInv
<1>3. ASSUME Finalize PROVE IInv'
  BY <1>3 DEF Finalize
<1>4. ASSUME KillThreads PROVE IInv'
  BY <1>4 DEF KillThreads, Unlocked
<1>5. ASSUME JoinThreads PROVE IInv'
  <2>1. \A t \in Threads : ~Active(t)
    <3>1. \A i \in 1 .. Len(threads) : pc[threads[i]] = "done"
      BY <1>5 DEF JoinThreads, Joined
    <3> QED BY <3>1
  <2>2. TypeOK' /\ LockInv'
    BY <1>5, <2>1 DEF JoinThreads
  <2>3. ListInv'
    BY <1>5, <2>1 DEF JoinThreads
  <2>4. SocketInv' /\ TickNotLost'
    BY <1>5 DEF JoinThreads
  <2> QED BY <2>2, <2>3, <2>4
<1>6. ASSUME CloseSocket PROVE IInv'
  BY <1>6 DEF CloseSocket
<1> QED BY <1>1, <1>2, <1>3, <1>4, <1>5, <1>6 DEF AppStep

-----------------------------------------------------------------------------
(* Steps of a thread.                                                      *)

LEMMA InstallHandlersKeepsIInv ==
    ASSUME IInv, NEW t \in Threads, InstallHandlers(t) PROVE IInv'
<1>1. TickNotLost'
  BY DEF InstallHandlers, IInv, TickNotLost
<1> QED BY <1>1, MoveKeepsIInv
        DEF InstallHandlers, IInv, TypeOK, WorkerLocations, TickerLocations

LEMMA DeliverKeepsIInv ==
    ASSUME IInv, NEW t \in Threads, NEW signal \in Signals, Deliver(t, signal)
    PROVE  IInv'
<1>1. pending' \in [Threads -> SUBSET Signals]
  BY DEF Deliver, IInv, TypeOK
<1>2. CASE handlers
  <2>1. /\ shutdown_triggered' \in [Threads -> BOOLEAN]
        /\ tick_triggered' \in [Threads -> BOOLEAN]
        /\ owed' \in [Workers -> BOOLEAN]
    BY <1>2 DEF Deliver, IInv, TypeOK
  <2>2. TickNotLost'
    BY <1>2 DEF Deliver, IInv, TypeOK, TickNotLost
  <2>3. TypeOK'
    <3>1. AfterSignal(pc[t]) \in IF t = Ticker THEN TickerLocations ELSE WorkerLocations
      BY DEF IInv, TypeOK, AfterSignal, TickerLocations, WorkerLocations
    <3>2. /\ pc' \in [Threads -> WorkerLocations \cup TickerLocations]
          /\ pc'[Ticker] \in TickerLocations
          /\ \A w \in Workers : pc'[w] \in WorkerLocations
      <4>1. pc' = [pc EXCEPT ![t] = AfterSignal(pc[t])]
        BY <1>2 DEF Deliver
      <4>2. AfterSignal(pc[t]) \in WorkerLocations \cup TickerLocations
        BY <3>1
      <4>3. \A u \in Threads : u # t => pc'[u] = pc[u]
        BY <4>1 DEF IInv, TypeOK
      <4>4. pc'[t] = AfterSignal(pc[t])
        BY <4>1 DEF IInv, TypeOK
      <4>5. Ticker \notin Workers
        OBVIOUS
      <4> QED BY <3>1, <4>1, <4>2, <4>3, <4>4, <4>5 DEF IInv, TypeOK
    <3> QED BY <1>1, <1>2, <2>1, <3>2 DEF Deliver, IInv, TypeOK
  <2>4. LockInv'
    BY <1>2 DEF Deliver, IInv, TypeOK, AfterSignal, LockInv, TickerLocations
  <2>5. ListInv'
    <3>1. UNCHANGED <<threads, last_thread_id, appPc>>
      BY <1>2 DEF Deliver
    <3>2. \A u \in Threads : /\ pc'[u] = "none" <=> pc[u] = "none"
                             /\ Active(u)' => Active(u)
      BY <1>2 DEF Deliver, IInv, TypeOK, AfterSignal
    <3> QED BY <3>1, <3>2 DEF IInv, ListInv
  <2>6. SocketInv'
    BY <1>2 DEF Deliver, IInv, TypeOK, AfterSignal, SocketInv
  <2> QED BY <2>2, <2>3, <2>4, <2>5, <2>6 DEF IInv
<1>3. CASE ~handlers
  BY <1>1, <1>3 DEF Deliver, IInv, TypeOK, LockInv, ListInv, SocketInv, TickNotLost
<1> QED BY <1>2, <1>3

LEMMA WorkerStepKeepsIInv ==
    ASSUME IInv, NEW w \in Workers, WorkerStep(w) \/ AcceptFails(w)
    PROVE  IInv'
<1> USE DEF IInv, TypeOK, TickNotLost, WorkerLocations, TickerLocations
<1>1. ASSUME InitRequest(w) PROVE IInv'
  <2>1. CASE fd' = [fd EXCEPT ![w] = socket_fd] /\ Goto(w, "while") /\ UNCHANGED <<flagVars, pending>>
    <3>1. socket_fd \in 0 .. MaxSockets
      BY BoundsAssumption
    <3>2. TypeOK'
      BY <1>1, <2>1, <3>1 DEF InitRequest
    <3>3. LockInv' /\ ListInv'
      BY <1>1, <2>1 DEF InitRequest, LockInv, ListInv
    <3>4. SocketInv' /\ TickNotLost'
      BY <1>1, <2>1 DEF InitRequest, SocketInv
    <3> QED BY <3>2, <3>3, <3>4
  <2>2. CASE Return(w)
    BY <1>1, <2>2, ReturnKeepsIInv DEF InitRequest
  <2> QED BY <1>1, <2>1, <2>2 DEF InitRequest
<1>2. ASSUME While(w) PROVE IInv'
  <2>1. CASE shutdown_triggered[w]
    BY <1>2, <2>1, ReturnKeepsIInv DEF While
  <2>2. CASE ~shutdown_triggered[w]
    <3>1. pc'[w] = "tick" /\ pc' = [pc EXCEPT ![w] = "tick"] /\ w # Ticker
      BY <1>2, <2>2 DEF While
    <3> QED BY <1>2, <2>2, <3>1, MoveKeepsIInv DEF While
  <2> QED BY <2>1, <2>2
<1>3. ASSUME TickCheck(w) PROVE IInv'
  BY <1>3, MoveKeepsIInv DEF TickCheck
<1>4. ASSUME TickReturns(w) PROVE IInv'
  BY <1>4, MoveKeepsIInv DEF TickReturns
<1>5. ASSUME Accept(w) PROVE IInv'
  <2>1. CASE Return(w)
    BY <1>5, <2>1, ReturnKeepsIInv DEF Accept
  <2>2. CASE UNCHANGED <<flagVars, pending, fd>> /\ Goto(w, "while")
    BY <1>5, <2>2, MoveKeepsIInv DEF Accept
  <2>3. CASE UNCHANGED <<flagVars, pending, fd>> /\ Goto(w, "accepting")
    BY <1>5, <2>3, MoveKeepsIInv DEF Accept
  <2> QED BY <1>5, <2>1, <2>2, <2>3 DEF Accept
<1>6. ASSUME Accepted(w) PROVE IInv'
  <2>1. backlog' \in 0 .. MaxBacklog
    BY <1>6, BoundsAssumption DEF Accepted
  <2> QED BY <1>6, <2>1, MoveKeepsIInv DEF Accepted
<1>7. ASSUME AcceptFails(w) PROVE IInv'
  BY <1>7, ReturnKeepsIInv DEF AcceptFails
<1>8. ASSUME Served(w) PROVE IInv'
  BY <1>8, MoveKeepsIInv DEF Served
<1> QED BY <1>1, <1>2, <1>3, <1>4, <1>5, <1>6, <1>7, <1>8, InstallHandlersKeepsIInv DEF WorkerStep

LEMMA TickerStepKeepsIInv == ASSUME IInv, TickerStep PROVE IInv'
<1> USE DEF IInv, TypeOK, TickNotLost, WorkerLocations, TickerLocations
<1>1. ASSUME TickerStart PROVE IInv'
  BY <1>1, MoveKeepsIInv DEF TickerStart
<1>2. ASSUME TickerWhile PROVE IInv'
  <2>1. CASE shutdown_triggered[Ticker]
    BY <1>2, <2>1, ReturnKeepsIInv DEF TickerWhile
  <2>2. CASE ~shutdown_triggered[Ticker]
    <3>1. /\ pc[Ticker] = "while"
          /\ pc' = [pc EXCEPT ![Ticker] = "sleep"]
          /\ pc'[Ticker] = "sleep"
      BY <1>2, <2>2 DEF TickerWhile
    <3>2. UNCHANGED <<appVars, socketVars, backlog, procVars, trigger_index,
                      flagVars, pending, fd>>
      BY <1>2, <2>2 DEF TickerWhile
    <3>3. TickNotLost'
      BY <3>2
    <3> QED BY <3>1, <3>2, <3>3, MoveKeepsIInv
  <2> QED BY <2>1, <2>2
<1>3. ASSUME TickerWakes PROVE IInv'
  BY <1>3, MoveKeepsIInv DEF TickerWakes
<1>4. ASSUME TryLock PROVE IInv'
  <2>1. CASE ~shutdown_triggered[Ticker] /\ Unlocked
    <3>1. TypeOK' /\ TickNotLost'
      BY <1>4, <2>1 DEF TryLock
    <3>2. LockInv'
      BY <1>4, <2>1 DEF TryLock, Unlocked, LockInv
    <3>3. UNCHANGED <<threads, last_thread_id, appPc, fd, socket_fd>>
      BY <1>4, <2>1 DEF TryLock
    <3>4. \A t \in Threads : /\ pc'[t] = "none" <=> pc[t] = "none"
                             /\ Active(t)' <=> Active(t)
      BY <1>4, <2>1 DEF TryLock
    <3>5. ListInv'
      BY <3>3, <3>4 DEF ListInv
    <3>6. SocketInv'
      BY <3>3, <3>4 DEF SocketInv
    <3> QED BY <3>1, <3>2, <3>5, <3>6
  <2>2. CASE ~(~shutdown_triggered[Ticker] /\ Unlocked)
    BY <1>4, <2>2, MoveKeepsIInv DEF TryLock
  <2> QED BY <2>1, <2>2
<1>5. ASSUME SignalNext PROVE IInv'
  <2>1. NextIndex \in Nat
    <3>1. Len(threads) \in Nat \ {0}
      BY <1>5 DEF SignalNext, ListInv
    <3>2. (trigger_index + 1) % Len(threads) \in Nat
      BY <3>1
    <3> QED BY <3>2 DEF NextIndex
  <2>2. TypeOK'
    BY <1>5, <2>1 DEF SignalNext
  <2>3. LockInv'
    BY <1>5 DEF SignalNext, LockInv
  <2>4. ListInv'
    BY <1>5 DEF SignalNext, ListInv
  <2>5. SocketInv' /\ TickNotLost'
    BY <1>5 DEF SignalNext, SocketInv
  <2> QED BY <2>2, <2>3, <2>4, <2>5
<1> QED BY <1>1, <1>2, <1>3, <1>4, <1>5, InstallHandlersKeepsIInv DEF TickerStep

LEMMA ConnectKeepsIInv == ASSUME IInv, Connect PROVE IInv'
BY BoundsAssumption DEF Connect, IInv, TypeOK, LockInv, ListInv, SocketInv, TickNotLost

LEMMA NextKeepsIInv == IInv /\ [Next]_vars => IInv'
<1> SUFFICES ASSUME IInv, [Next]_vars PROVE IInv'
  OBVIOUS
<1>1. CASE UNCHANGED vars
  BY <1>1 DEF vars, IInv, TypeOK, LockInv, ListInv, SocketInv, TickNotLost
<1>2. CASE Next
  BY <1>1, <1>2, AppStepKeepsIInv, TickerStepKeepsIInv, ConnectKeepsIInv,
     WorkerStepKeepsIInv, DeliverKeepsIInv DEF Next, Stopped
<1> QED BY <1>1, <1>2

-----------------------------------------------------------------------------
(* The inductive invariant holds in every reachable state.                 *)
THEOREM Inductive == Spec => []IInv
BY InitIInv, NextKeepsIInv, PTL DEF Spec

(* Every variable stays in its range, for every number of threads.         *)
THEOREM TypeCorrect == Spec => []TypeOK
<1>1. IInv => TypeOK
  BY DEF IInv
<1> QED BY Inductive, <1>1, PTL

(* thread_tick_function may assume what it assumes of the list.            *)
THEOREM FrontIsTicker == Spec => []TickerAtFront
<1>1. IInv => TickerAtFront
  BY DEF IInv, TypeOK, ListInv, TickerAtFront
<1> QED BY Inductive, <1>1, PTL

(* kill_threads finds every running thread in the list.                    *)
THEOREM ListIsComplete == Spec => []NoThreadLeftBehind
<1>1. IInv => NoThreadLeftBehind
  BY DEF IInv, ListInv, NoThreadLeftBehind
<1> QED BY Inductive, <1>1, PTL

(* finalize never closes a socket a worker still listens on.               *)
THEOREM SocketIsOpen == Spec => []SocketOutlivesWorkers
<1>1. IInv => SocketOutlivesWorkers
  BY DEF IInv, SocketInv, SocketOutlivesWorkers
<1> QED BY Inductive, <1>1, PTL

(* A SIGUSR2 that arrives during tick() keeps its flag.                    *)
THEOREM TickKept == Spec => []TickNotLost
<1>1. IInv => TickNotLost
  BY DEF IInv
<1> QED BY Inductive, <1>1, PTL

(* The ticker sends SIGUSR2 to the other threads only.                     *)
THEOREM TickerSparesItself == Spec => TickerNeverSignalsItself
<1> DEFINE Spared == pending'[Ticker] \subseteq pending[Ticker] \cup {"USR1"}
<1>1. ASSUME IInv, [Next]_vars PROVE [Spared]_vars
  <2>1. CASE UNCHANGED vars
    BY <2>1
  <2>2. ASSUME AppStep PROVE Spared
    BY <1>1, <2>2 DEF AppStep, Initialize, AddThreads, Finalize, KillThreads, JoinThreads,
       CloseSocket, IInv, TypeOK
  <2>3. ASSUME SignalNext PROVE Spared
    <3>1. NextIndex \in Nat \ {0}
      <4>1. Len(threads) \in Nat \ {0}
        BY <1>1, <2>3 DEF SignalNext, IInv, TypeOK, ListInv
      <4>2. (trigger_index + 1) % Len(threads) \in Nat
        BY <1>1, <4>1 DEF IInv, TypeOK
      <4> QED BY <4>2 DEF NextIndex
    <3>2. ASSUME NextIndex < Len(threads) PROVE threads[NextIndex + 1] # Ticker
      <4>1. NextIndex + 1 \in 2 .. Len(threads)
        BY <1>1, <3>1, <3>2 DEF IInv, TypeOK
      <4> QED BY <1>1, <4>1 DEF IInv, ListInv
    <3> QED BY <1>1, <2>3, <3>2 DEF SignalNext, IInv, TypeOK
  <2>4. ASSUME NEW t \in Threads, Return(t) PROVE Spared
    BY <1>1, <2>4 DEF Return, IInv, TypeOK
  <2>5. ASSUME TickerStep PROVE Spared
    BY <2>3, <2>4, <2>5 DEF TickerStep, InstallHandlers, TickerStart, TickerWhile, TickerWakes, TryLock
  <2>6. ASSUME NEW w \in Workers, WorkerStep(w) \/ AcceptFails(w) PROVE Spared
    BY <2>4, <2>6 DEF WorkerStep, InstallHandlers, InitRequest, While, TickCheck, TickReturns,
       Accept, Accepted, AcceptFails, Served
  <2>7. ASSUME NEW t \in Threads, NEW signal \in Signals, Deliver(t, signal) PROVE Spared
    BY <1>1, <2>7 DEF Deliver, IInv, TypeOK
  <2>8. ASSUME Connect PROVE Spared
    BY <2>8 DEF Connect
  <2> QED BY <1>1, <2>1, <2>2, <2>5, <2>6, <2>7, <2>8 DEF Next, Stopped
<1> QED BY <1>1, Inductive, PTL DEF Spec, TickerNeverSignalsItself

(* add_threads and kill_threads wait for the ticker to finish its walk.    *)
THEOREM ListIsStable == Spec => ListStableWhileWalked
<1> DEFINE Stable == threads' # threads => pc[Ticker] # "signal"
<1>1. ASSUME IInv, [Next]_vars PROVE [Stable]_vars
  <2>1. CASE UNCHANGED vars
    BY <2>1
  <2>2. ASSUME AppStep PROVE Stable
    BY <1>1, <2>2 DEF AppStep, Initialize, AddThreads, Finalize, KillThreads, JoinThreads,
       CloseSocket, Unlocked, IInv, LockInv
  <2>3. ASSUME TickerStep PROVE Stable
    BY <2>3 DEF TickerStep, InstallHandlers, TickerStart, TickerWhile, TickerWakes, TryLock,
       SignalNext
  <2>4. ASSUME NEW w \in Workers, WorkerStep(w) \/ AcceptFails(w) PROVE Stable
    BY <2>4 DEF WorkerStep, InstallHandlers, InitRequest, While, TickCheck, TickReturns,
       Accept, Accepted, AcceptFails, Served
  <2>5. ASSUME NEW t \in Threads, NEW signal \in Signals, Deliver(t, signal) PROVE Stable
    BY <2>5 DEF Deliver
  <2>6. ASSUME Connect PROVE Stable
    BY <2>6 DEF Connect
  <2> QED BY <1>1, <2>1, <2>2, <2>3, <2>4, <2>5, <2>6 DEF Next, Stopped
<1> QED BY <1>1, Inductive, PTL DEF Spec, ListStableWhileWalked

-----------------------------------------------------------------------------
(* ServerThreads implements WorkerPool.  Besides IInv the mapping needs    *)
(* that only a listening socket is accepted on, that nothing waits on a    *)
(* closed one, and that no socket is opened beside one that was inherited. *)
AcceptInv ==
    /\ \A w \in Workers : pc[w] = "accepting" => fd[w] # 0 \/ inherited
    /\ ~Listening => backlog = 0
    /\ inherited => socket_fd = 0

LEMMA AcceptInductive == ASSUME IInv, AcceptInv, [Next]_vars PROVE AcceptInv'
<1> USE DEF AcceptInv, Listening
<1>1. CASE UNCHANGED vars
  BY <1>1 DEF vars
<1>2. ASSUME AppStep PROVE AcceptInv'
  <2>1. ASSUME Initialize PROVE AcceptInv'
    BY <1>2, <2>1 DEF Initialize, IInv, TypeOK
  <2>2. ASSUME NEW count \in 0 .. MaxThreads, AddThreads(count) PROVE AcceptInv'
    BY <2>2 DEF AddThreads, IInv, TypeOK
  <2>3. CASE Finalize \/ KillThreads \/ JoinThreads \/ CloseSocket
    BY <2>3 DEF Finalize, KillThreads, JoinThreads, CloseSocket
  <2> QED BY <1>2, <2>1, <2>2, <2>3 DEF AppStep
<1>3. ASSUME NEW t \in Threads, Return(t),
             UNCHANGED <<appVars, socketVars, backlog, procVars, trigger_index>>
      PROVE  AcceptInv'
  BY <1>3 DEF Return, IInv, TypeOK
<1>4. ASSUME UNCHANGED <<socketVars, backlog, fd>>, NEW t \in Threads,
             NEW location, location # "accepting", pc' = [pc EXCEPT ![t] = location]
      PROVE  AcceptInv'
  BY <1>4 DEF IInv, TypeOK
<1>5. ASSUME TickerStep PROVE AcceptInv'
  <2> USE DEF IInv, TypeOK
  <2>1. CASE InstallHandlers(Ticker)
    BY <1>4, <2>1 DEF InstallHandlers
  <2>2. CASE TickerStart
    BY <1>4, <2>2 DEF TickerStart
  <2>3. CASE TickerWhile
    BY <1>3, <1>4, <2>3 DEF TickerWhile
  <2>4. CASE TickerWakes
    BY <1>4, <2>4 DEF TickerWakes
  <2>5. CASE TryLock
    BY <1>4, <2>5 DEF TryLock
  <2>6. CASE SignalNext
    BY <1>4, <2>6 DEF SignalNext
  <2> QED BY <1>5, <2>1, <2>2, <2>3, <2>4, <2>5, <2>6 DEF TickerStep
<1>6. ASSUME NEW w \in Workers, WorkerStep(w) \/ AcceptFails(w) PROVE AcceptInv'
  <2>1. CASE InstallHandlers(w) \/ While(w) \/ TickCheck(w) \/ TickReturns(w) \/ Served(w)
    <3>1. CASE InstallHandlers(w)
      BY <1>4, <3>1 DEF InstallHandlers
    <3>2. CASE While(w)
      BY <1>3, <1>4, <3>2 DEF While
    <3>3. CASE TickCheck(w)
      BY <1>4, <3>3 DEF TickCheck
    <3>4. CASE TickReturns(w)
      BY <1>4, <3>4 DEF TickReturns
    <3>5. CASE Served(w)
      BY <1>4, <3>5 DEF Served
    <3> QED BY <2>1, <3>1, <3>2, <3>3, <3>4, <3>5
  <2>2. CASE InitRequest(w)
    BY <1>3, <2>2 DEF InitRequest, IInv, TypeOK
  <2>3. CASE Accept(w)
    BY <1>3, <2>3 DEF Accept, Usable, IInv, TypeOK
  <2>4. CASE Accepted(w)
    BY <2>4 DEF Accepted, IInv, TypeOK
  <2>5. CASE AcceptFails(w)
    BY <1>3, <2>5 DEF AcceptFails
  <2> QED BY <1>6, <2>1, <2>2, <2>3, <2>4, <2>5 DEF WorkerStep
<1>7. ASSUME NEW t \in Threads, NEW signal \in Signals, Deliver(t, signal) PROVE AcceptInv'
  BY <1>7 DEF Deliver, AfterSignal, IInv, TypeOK
<1>8. ASSUME Connect PROVE AcceptInv'
  BY <1>8 DEF Connect
<1> QED BY <1>1, <1>2, <1>5, <1>6, <1>7, <1>8 DEF Next, Stopped

(* A step of one thread between two locations that mean the same to the    *)
(* pool is no step of the pool.                                            *)
LEMMA MoveStutters ==
    ASSUME IInv, NEW t \in Threads, Active(t),
           pc' = [pc EXCEPT ![t] = pc'[t]], pc'[t] \notin {"none", "done"},
           pc'[t] = "serving" <=> pc[t] = "serving",
           UNCHANGED <<appPc, socket_fd, inherited, backlog>>
    PROVE  UNCHANGED Pool!poolVars
<1>1. \A u \in Threads : Life(u)' = Life(u) /\ (pc'[u] = "serving" <=> pc[u] = "serving")
  BY DEF Life, IInv, TypeOK
<1>2. [u \in Threads |-> Life(u)]' = [u \in Threads |-> Life(u)]
  BY <1>1
<1>3. {w \in Workers : pc[w] = "serving"}' = {w \in Workers : pc[w] = "serving"}
  BY <1>1
<1> QED BY <1>2, <1>3 DEF Pool!poolVars, Listening

(* A thread that returns ends; it is not serving.                          *)
LEMMA ReturnEnds ==
    ASSUME IInv, NEW t \in Threads, pc[t] \notin {"none", "done", "serving"}, Return(t),
           UNCHANGED <<appVars, socketVars, backlog>>
    PROVE  Pool!End(t)
<1>1. Life(t) = "running" /\ t \notin {w \in Workers : pc[w] = "serving"}
  BY DEF Life
<1>2. [u \in Threads |-> Life(u)]' = [[u \in Threads |-> Life(u)] EXCEPT ![t] = "ended"]
  <2>1. \A u \in Threads : Life(u)' = IF u = t THEN "ended" ELSE Life(u)
    BY DEF Life, Return, IInv, TypeOK
  <2> QED BY <2>1
<1>3. {w \in Workers : pc[w] = "serving"}' = {w \in Workers : pc[w] = "serving"}
  BY DEF Return, IInv, TypeOK
<1> QED BY <1>1, <1>2, <1>3 DEF Pool!End, Pool!Running, Listening

LEMMA AppStepImplements ==
    ASSUME IInv, AcceptInv, AppStep
    PROVE  Pool!Next \/ UNCHANGED Pool!poolVars
<1>1. ASSUME UNCHANGED pc
      PROVE  /\ UNCHANGED [t \in Threads |-> Life(t)]
             /\ UNCHANGED {w \in Workers : pc[w] = "serving"}
  BY <1>1 DEF Life
<1>2. ASSUME Initialize PROVE Pool!Open \/ UNCHANGED Pool!poolVars
  <2>1. UNCHANGED <<pc, appPc, inherited, backlog>>
    BY <1>2 DEF Initialize
  <2>2. CASE ~inherited /\ socket_fd = 0 /\ socket_fd' # 0
    BY <1>1, <2>1, <2>2 DEF Pool!Open, Listening
  <2>3. CASE UNCHANGED socket_fd
    BY <1>1, <2>1, <2>3 DEF Pool!poolVars, Listening
  <2> QED BY <1>2, <2>2, <2>3 DEF Initialize, IInv, TypeOK
<1>3. ASSUME NEW count \in 0 .. MaxThreads, AddThreads(count)
      PROVE  \E new \in SUBSET Threads : Pool!Start(new)
  <2> DEFINE ids   == (last_thread_id + 1) .. (last_thread_id + count)
             fresh == IF threads = <<>> THEN {Ticker} \cup ids ELSE ids
  <2>1. fresh \in SUBSET Threads
    BY <1>3, BoundsAssumption DEF AddThreads, IInv, TypeOK
  <2>2. \A t \in fresh : ~Active(t)
    <3>1. \A t \in ids : t \in Workers /\ pc[t] = "none"
      BY <1>3, BoundsAssumption DEF AddThreads, IInv, TypeOK, ListInv
    <3>2. threads = <<>> => ~Active(Ticker)
      BY DEF IInv, ListInv
    <3>3. \A t \in fresh : t \in ids \/ (threads = <<>> /\ t = Ticker)
      OBVIOUS
    <3> HIDE DEF fresh, ids
    <3> QED BY <3>1, <3>2, <3>3
  <2>3. pc' = [t \in Threads |-> IF t \in fresh THEN "spawned" ELSE pc[t]]
    BY <1>3 DEF AddThreads
  <2> HIDE DEF fresh
  <2>4. \A t \in Threads : Life(t)' = IF t \in fresh THEN "running" ELSE Life(t)
    BY <2>3 DEF Life
  <2>5. [t \in Threads |-> Life(t)]'
          = [t \in Threads |-> IF t \in fresh THEN "running"
                               ELSE [u \in Threads |-> Life(u)][t]]
    BY <2>4
  <2>6. {w \in Workers : pc[w] = "serving"}' = {w \in Workers : pc[w] = "serving"}
    BY <2>2, <2>3
  <2>7. \A t \in fresh : [u \in Threads |-> Life(u)][t] # "running"
    BY <2>1, <2>2 DEF Life
  <2>8. appPc = "idle" /\ UNCHANGED <<appPc, socket_fd, inherited, backlog>>
    BY <1>3 DEF AddThreads
  <2>9. Pool!Start(fresh)
    BY <2>5, <2>6, <2>7, <2>8 DEF Pool!Start, Pool!Running, Listening
  <2> QED BY <2>1, <2>9
<1>4. ASSUME Finalize PROVE UNCHANGED Pool!poolVars
  BY <1>1, <1>4 DEF Finalize, Pool!poolVars, Listening
<1>5. ASSUME KillThreads PROVE Pool!Stop
  BY <1>1, <1>5 DEF KillThreads, Pool!Stop, Listening
<1>6. ASSUME threads = <<>> \/ Joined
      PROVE  \A t \in Threads : ~Pool!Running(t)
  <2>1. \A t \in Threads : ~Active(t)
    BY <1>6 DEF Joined, IInv, ListInv
  <2> QED BY <2>1 DEF Pool!Running, Life
<1>7. ASSUME JoinThreads PROVE Pool!StopReturns
  BY <1>1, <1>6, <1>7 DEF JoinThreads, Pool!StopReturns, Pool!NobodyRunning, Listening
<1>8. ASSUME CloseSocket PROVE Pool!Close \/ UNCHANGED Pool!poolVars
  <2>1. threads = <<>> /\ UNCHANGED pc
    BY <1>8 DEF CloseSocket, IInv, ListInv
  <2>2. CASE socket_fd # 0
    <3>1. Listening /\ ~Listening' /\ backlog' = 0
      BY <1>8, <2>2 DEF CloseSocket, AcceptInv, Listening
    <3> QED BY <1>1, <1>6, <1>8, <2>1, <3>1 DEF CloseSocket, Pool!Close, Pool!NobodyRunning
  <2>3. CASE socket_fd = 0
    BY <1>1, <1>8, <2>1, <2>3 DEF CloseSocket, Pool!poolVars, Listening
  <2> QED BY <2>2, <2>3
<1> QED
  BY <1>2, <1>3, <1>4, <1>5, <1>7, <1>8 DEF AppStep, Pool!Next

LEMMA TickerStepImplements ==
    ASSUME IInv, TickerStep
    PROVE  Pool!Next \/ UNCHANGED Pool!poolVars
<1>1. ASSUME Return(Ticker), pc[Ticker] = "while",
             UNCHANGED <<appVars, socketVars, backlog>>
      PROVE  Pool!Next
  BY <1>1, ReturnEnds DEF Pool!Next
<1>2. CASE InstallHandlers(Ticker)
  BY <1>2, MoveStutters DEF InstallHandlers, IInv, TypeOK
<1>3. CASE TickerStart
  BY <1>3, MoveStutters DEF TickerStart, IInv, TypeOK
<1>4. CASE TickerWhile
  BY <1>1, <1>4, MoveStutters DEF TickerWhile, IInv, TypeOK
<1>5. CASE TickerWakes
  BY <1>5, MoveStutters DEF TickerWakes, IInv, TypeOK
<1>6. CASE TryLock
  BY <1>6, MoveStutters DEF TryLock, IInv, TypeOK
<1>7. CASE SignalNext
  BY <1>7, MoveStutters DEF SignalNext, IInv, TypeOK
<1> QED BY <1>2, <1>3, <1>4, <1>5, <1>6, <1>7 DEF TickerStep

LEMMA WorkerStepImplements ==
    ASSUME IInv, AcceptInv, NEW w \in Workers, WorkerStep(w) \/ AcceptFails(w)
    PROVE  Pool!Next \/ UNCHANGED Pool!poolVars
<1>1. ASSUME Return(w), pc[w] \notin {"none", "done", "serving"},
             UNCHANGED <<appVars, socketVars, backlog>>
      PROVE  Pool!Next
  BY <1>1, ReturnEnds DEF Pool!Next
<1>2. CASE InstallHandlers(w)
  BY <1>2, MoveStutters DEF InstallHandlers, IInv, TypeOK
<1>3. CASE InitRequest(w)
  BY <1>1, <1>3, MoveStutters DEF InitRequest, IInv, TypeOK
<1>4. CASE While(w)
  BY <1>1, <1>4, MoveStutters DEF While, IInv, TypeOK
<1>5. CASE TickCheck(w)
  BY <1>5, MoveStutters DEF TickCheck, IInv, TypeOK
<1>6. CASE TickReturns(w)
  BY <1>6, MoveStutters DEF TickReturns, IInv, TypeOK
<1>7. CASE Accept(w)
  BY <1>1, <1>7, MoveStutters DEF Accept, Usable, IInv, TypeOK
<1>8. CASE AcceptFails(w)
  BY <1>1, <1>8 DEF AcceptFails
<1> DEFINE lives == [t \in Threads |-> Life(t)]
           busy  == {v \in Workers : pc[v] = "serving"}
<1>9. ASSUME pc[w] \in {"accepting", "serving"}, pc'[w] \in {"while", "serving"},
             pc' = [pc EXCEPT ![w] = pc'[w]]
      PROVE  /\ UNCHANGED lives
             /\ lives[w] = "running"
             /\ busy' = IF pc'[w] = "serving" THEN busy \cup {w} ELSE busy \ {w}
  <2>1. \A t \in Threads : Life(t)' = Life(t) /\ (t # w => pc'[t] = pc[t])
    BY <1>9 DEF Life, IInv, TypeOK
  <2>2. UNCHANGED lives
    BY <2>1
  <2>3. busy' = IF pc'[w] = "serving" THEN busy \cup {w} ELSE busy \ {w}
    BY <2>1
  <2> QED BY <1>9, <2>2, <2>3 DEF Life
<1>10. ASSUME Accepted(w) PROVE Pool!Take(w)
  <2>1. pc[w] = "accepting" /\ pc'[w] = "serving" /\ pc' = [pc EXCEPT ![w] = pc'[w]]
    BY <1>10 DEF Accepted, IInv, TypeOK
  <2>2. Listening
    BY <2>1 DEF AcceptInv, IInv, SocketInv, Listening
  <2>3. UNCHANGED lives /\ lives[w] = "running" /\ busy' = busy \cup {w} /\ w \notin busy
    BY <1>9, <2>1
  <2>4. backlog > 0 /\ backlog' = backlog - 1 /\ UNCHANGED <<Listening, appPc>>
    BY <1>10 DEF Accepted, Listening
  <2> QED BY <2>2, <2>3, <2>4 DEF Pool!Take, Pool!Running
<1>11. ASSUME Served(w) PROVE Pool!Served(w)
  <2>1. pc[w] = "serving" /\ pc'[w] = "while" /\ pc' = [pc EXCEPT ![w] = pc'[w]]
    BY <1>11 DEF Served, IInv, TypeOK
  <2>2. UNCHANGED lives /\ busy' = busy \ {w} /\ w \in busy
    BY <1>9, <2>1
  <2> QED BY <1>11, <2>2 DEF Served, Pool!Served, Listening
<1> QED
  BY <1>2, <1>3, <1>4, <1>5, <1>6, <1>7, <1>8, <1>10, <1>11 DEF WorkerStep, Pool!Next

(* Every step of the server is a step of the pool, or none: what an        *)
(* application may rely on when it calls kill_threads and finalize.        *)
THEOREM ThreadsImplementPool == Spec => ImplementsPool
<1>1. Init => Pool!Init
  BY DEF Init, Pool!Init, Life, Listening
<1>2. Init => AcceptInv
  BY DEF Init, AcceptInv
<1>3. ASSUME IInv, AcceptInv, [Next]_vars
      PROVE  AcceptInv' /\ [Pool!Next]_Pool!poolVars
  <2>1. AcceptInv'
    BY <1>3, AcceptInductive
  <2> SUFFICES Pool!Next \/ UNCHANGED Pool!poolVars
    BY <2>1
  <2>2. CASE UNCHANGED vars
    BY <2>2 DEF vars, Life, Pool!poolVars, Listening
  <2>3. CASE AppStep
    BY <1>3, <2>3, AppStepImplements
  <2>4. CASE TickerStep
    BY <1>3, <2>4, TickerStepImplements
  <2>5. CASE \E w \in Workers : WorkerStep(w) \/ AcceptFails(w)
    BY <1>3, <2>5, WorkerStepImplements
  <2>6. ASSUME NEW t \in Threads, NEW signal \in Signals, Deliver(t, signal)
        PROVE  UNCHANGED Pool!poolVars
    <3>1. CASE Active(t) /\ handlers
      BY <1>3, <2>6, <3>1, MoveStutters DEF Deliver, AfterSignal, IInv, TypeOK
    <3>2. CASE UNCHANGED <<pc, appPc, socket_fd, inherited, backlog>>
      BY <3>2 DEF Life, Pool!poolVars, Listening
    <3> QED BY <1>3, <2>6, <3>1, <3>2 DEF Deliver, AfterSignal, IInv, TypeOK
  <2>7. CASE Connect
    BY <2>7 DEF Connect, Life, Pool!Next, Pool!Connect, Listening
  <2> QED BY <1>3, <2>2, <2>3, <2>4, <2>5, <2>6, <2>7 DEF Next, Stopped
<1> QED BY <1>1, <1>2, <1>3, Inductive, PTL DEF Spec, ImplementsPool, Pool!Spec

-----------------------------------------------------------------------------
(* With a patient application no signal finds the default action.          *)
HandlersInv ==
    /\ \A t \in Threads : pc[t] \in {"none", "spawned"} \/ handlers
    /\ \A t \in Threads : pending[t] = {} \/ handlers
    /\ appPc = "finalize" => \A t \in Threads : pc[t] # "spawned"
    /\ process = "running"

LEMMA HandlersInductive ==
    ASSUME StopPolicy = "settled", IInv, HandlersInv, [Next]_vars
    PROVE  HandlersInv'
<1> USE DEF HandlersInv, IInv, TypeOK
<1>1. CASE UNCHANGED vars
  BY <1>1 DEF vars
<1>2. ASSUME MayStop PROVE \A t \in Threads : pc[t] # "spawned"
  BY <1>2 DEF MayStop, Starting, ListInv
<1>3. CASE AppStep
  <2>1. CASE Initialize \/ Finalize \/ JoinThreads \/ CloseSocket
    BY <1>2, <2>1 DEF Initialize, Finalize, JoinThreads, CloseSocket
  <2>2. ASSUME NEW count \in 0 .. MaxThreads, AddThreads(count) PROVE HandlersInv'
    BY <2>2 DEF AddThreads
  <2>3. CASE KillThreads
    <3>1. \A t \in Threads : pc[t] # "spawned"
      BY <1>2, <2>3 DEF KillThreads
    <3> QED BY <2>3, <3>1 DEF KillThreads
  <2> QED BY <1>3, <2>1, <2>2, <2>3 DEF AppStep
<1>4. ASSUME NEW t \in Threads, Return(t), pc[t] \notin {"none", "spawned"},
             UNCHANGED <<appVars, procVars>>
      PROVE  HandlersInv'
  BY <1>4 DEF Return
<1>5. CASE TickerStep
  <2>1. CASE InstallHandlers(Ticker) \/ TickerStart \/ TickerWakes \/ TryLock
    BY <2>1 DEF InstallHandlers, TickerStart, TickerWakes, TryLock
  <2>2. CASE TickerWhile
    BY <1>4, <2>2 DEF TickerWhile
  <2>3. CASE SignalNext
    BY <2>3 DEF SignalNext
  <2> QED BY <1>5, <2>1, <2>2, <2>3 DEF TickerStep
<1>6. ASSUME NEW w \in Workers, WorkerStep(w) \/ AcceptFails(w) PROVE HandlersInv'
  <2>1. CASE InstallHandlers(w) \/ TickCheck(w) \/ TickReturns(w) \/ Accepted(w) \/ Served(w)
    BY <2>1 DEF InstallHandlers, TickCheck, TickReturns, Accepted, Served
  <2>2. CASE InitRequest(w)
    BY <1>4, <2>2 DEF InitRequest
  <2>3. CASE While(w)
    BY <1>4, <2>3 DEF While
  <2>4. CASE Accept(w)
    BY <1>4, <2>4 DEF Accept
  <2>5. CASE AcceptFails(w)
    BY <1>4, <2>5 DEF AcceptFails
  <2> QED BY <1>6, <2>1, <2>2, <2>3, <2>4, <2>5 DEF WorkerStep
<1>7. ASSUME NEW t \in Threads, NEW signal \in Signals, Deliver(t, signal) PROVE HandlersInv'
  BY <1>7 DEF Deliver, AfterSignal
<1>8. CASE Connect
  BY <1>8 DEF Connect
<1> QED BY <1>1, <1>3, <1>5, <1>6, <1>7, <1>8 DEF Next, Stopped

(* When threads are stopped only after their start-up code, as many of     *)
(* them as there are, no SIGUSR1 or SIGUSR2 ends the process.              *)
THEOREM PatienceSavesTheProcess ==
    ASSUME StopPolicy = "settled"
    PROVE  Spec => []NeverKilled
<1>1. Init => HandlersInv
  BY DEF Init, HandlersInv
<1>2. IInv /\ HandlersInv /\ [Next]_vars => HandlersInv'
  BY HandlersInductive
<1>3. HandlersInv => NeverKilled
  BY DEF HandlersInv, NeverKilled
<1> QED BY <1>1, <1>2, <1>3, Inductive, PTL DEF Spec
=============================================================================
