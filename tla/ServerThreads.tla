--------------------------- MODULE ServerThreads ---------------------------
(***************************************************************************)
(* The threads of fcgiserver::Server (src/lib/server.cpp): the application *)
(* thread that calls initialize, add_threads, kill_threads and finalize,   *)
(* the maintenance thread (the "ticker") that sends SIGUSR2 to the workers *)
(* in turn, and the workers that accept and serve requests.                *)
(*                                                                         *)
(* A step is the code between two points where another thread, a signal or *)
(* the network can be noticed.  What a request does while it is served is  *)
(* the subject of Request, Router and ServerContext; time is abstracted:   *)
(* a sleep may end at any moment.                                          *)
(***************************************************************************)
EXTENDS Naturals, Integers, Sequences, FiniteSets

CONSTANTS
    MaxThreads,      \* bound on last_thread_id: workers started in one run
    MaxBacklog,      \* bound on connections waiting in the listen queue
    MaxSockets,      \* bound on the calls of initialize that open a socket
    StopPolicy       \* how the application uses the server: it stops the
                     \* threads at "any" time; "settled" is the order of
                     \* main.cpp, threads only once initialize has returned
                     \* true, and a stop once the threads are past their
                     \* start-up code

ASSUME BoundsAssumption ==
    /\ MaxThreads \in Nat
    /\ MaxBacklog \in Nat
    /\ MaxSockets \in Nat
    /\ StopPolicy \in {"any", "settled"}

Ticker  == 0
Workers == 1 .. MaxThreads
Threads == {Ticker} \cup Workers
Signals == {"USR1", "USR2"}

VARIABLES
    appPc,              \* where the application thread is inside Server
    threads_lock,       \* owner of ServerPrivate::threads_lock
    threads,            \* ServerPrivate::threads, front first
    last_thread_id,     \* ServerPrivate::last_thread_id
    socket_fd,          \* ServerPrivate::socket_fd: 0, or which socket it is
    sockets,            \* sockets opened so far
    inherited,          \* a web server has passed a listening socket as
                        \* descriptor 0: FCGX_IsCGI is false, for good
    initialized,        \* FCGX_Init was called (libfcgi)
    backlog,            \* connections waiting on the listening socket (kernel)
    shutdown_pending,   \* FCGX_ShutdownPending was called (libfcgi)
    handlers,           \* the SIGUSR1/2 dispositions of the process are ours
    process,            \* "running" or "killed" by an unhandled signal
    pc,                 \* location of each server thread
    shutdown_triggered, \* the thread_local flags
    tick_triggered,
    pending,            \* signals sent to a thread and not delivered yet
    fd,                 \* fcgx_request.listen_sock of each worker
    owed,               \* history: a SIGUSR2 arrived, no tick() begun since
    trigger_index       \* the ticker's cursor into threads

appVars    == <<appPc, threads_lock, threads, last_thread_id>>
socketVars == <<socket_fd, sockets, inherited, initialized, shutdown_pending>>
procVars   == <<handlers, process>>
flagVars   == <<shutdown_triggered, tick_triggered, owed>>
vars == <<appVars, socketVars, backlog, procVars, pc, flagVars, pending, fd,
          trigger_index>>

Listed    == {threads[i] : i \in 1 .. Len(threads)}
Active(t) == pc[t] \notin {"none", "done"}

(* Start-up: before the ticker has read the list, before a worker has its  *)
(* FCGX_Request and context.                                               *)
Starting(t) == pc[t] \in {"spawned", "start", "init"}

(* Clients can connect: to the socket initialize has opened, or to the one *)
(* the web server has opened, which is there before the program runs.      *)
Listening == inherited \/ socket_fd # 0

Init ==
    /\ appPc = "idle"
    /\ threads_lock = "free"
    /\ threads = <<>>
    /\ last_thread_id = 0
    /\ socket_fd = 0
    /\ sockets = 0
    /\ inherited \in BOOLEAN
    /\ initialized = FALSE
    /\ backlog = 0
    /\ shutdown_pending = FALSE
    /\ handlers = FALSE
    /\ process = "running"
    /\ pc = [t \in Threads |-> "none"]
    /\ shutdown_triggered = [t \in Threads |-> FALSE]
    /\ tick_triggered = [t \in Threads |-> FALSE]
    /\ pending = [t \in Threads |-> {}]
    /\ fd = [w \in Workers |-> 0]
    /\ owed = [w \in Workers |-> FALSE]
    /\ trigger_index = -1

-----------------------------------------------------------------------------
(* The application thread.                                                 *)

(* initialize.  Standalone it opens a socket, which may fail; from a web   *)
(* server it takes descriptor 0 as it is.  It is called again only after   *)
(* finalize: a second call would overwrite the descriptor of an open       *)
(* socket.                                                                 *)
Initialize ==
    /\ appPc = "idle"
    /\ socket_fd = 0
    /\ initialized' = TRUE
    /\ \/ ~inherited /\ sockets < MaxSockets
          /\ sockets' = sockets + 1 /\ socket_fd' = sockets + 1
       \/ UNCHANGED <<sockets, socket_fd>>
    /\ UNCHANGED <<appVars, inherited, backlog, shutdown_pending, procVars, pc,
                   flagVars, pending, fd, trigger_index>>

(* The guard every lock of threads_lock waits for.                         *)
IgnoredLock == TRUE
Unlocked    == threads_lock = "free"

(* The list add_threads appends to: a new ticker goes first.               *)
TickerNotFirst == IF threads = <<>> THEN <<1, Ticker>> ELSE threads
WithTicker     == IF threads = <<>> THEN <<Ticker>> ELSE threads

(* add_threads: the list grows under threads_lock.                         *)
AddThreads(count) ==
    LET new   == (last_thread_id + 1) .. (last_thread_id + count)
        ids   == [i \in 1 .. count |-> last_thread_id + i]
        fresh == IF threads = <<>> THEN {Ticker} \cup new ELSE new
    IN  /\ appPc = "idle"
        /\ StopPolicy = "any" \/ socket_fd # 0 \/ (inherited /\ initialized)
        /\ Unlocked
        /\ last_thread_id + count <= MaxThreads
        /\ threads' = WithTicker \o ids
        /\ last_thread_id' = last_thread_id + count
        /\ pc' = [t \in Threads |-> IF t \in fresh THEN "spawned" ELSE pc[t]]
        /\ trigger_index' = IF threads = <<>> THEN -1 ELSE trigger_index
        /\ UNCHANGED <<appPc, threads_lock, socketVars, backlog, procVars,
                       flagVars, pending, fd>>

(* The moment of kill_threads and finalize is the application's choice:    *)
(* StopPolicy narrows it.                                                  *)
MayStop == StopPolicy = "any" \/ \A t \in Listed : ~Starting(t)

(* The first statement of finalize.                                        *)
Finalize ==
    /\ appPc = "idle"
    /\ MayStop
    /\ shutdown_pending' = TRUE
    /\ appPc' = "finalize"
    /\ UNCHANGED <<threads_lock, threads, last_thread_id, socket_fd, sockets,
                   inherited, initialized, backlog, procVars, pc, flagVars, pending, fd,
                   trigger_index>>

(* The threads kill_threads stops: all of the list, the ticker with them.  *)
FrontSpared == Listed \ {Ticker}
Signalled   == Listed

(* kill_threads up to the joins: the lock is taken and every thread in the *)
(* list is sent SIGUSR1.  A thread that has returned ignores it.           *)
KillThreads ==
    /\ \/ appPc = "idle" /\ MayStop /\ appPc' = "join"
       \/ appPc = "finalize" /\ appPc' = "finalize_join"
    /\ Unlocked
    /\ threads_lock' = "app"
    /\ pending' = [t \in Threads |-> IF t \in Signalled /\ Active(t)
                                     THEN pending[t] \cup {"USR1"}
                                     ELSE pending[t]]
    /\ UNCHANGED <<threads, last_thread_id, socketVars, backlog, procVars, pc,
                   flagVars, fd, trigger_index>>

(* Every join has returned.                                                *)
NotJoined == TRUE
Joined    == \A t \in Listed : pc[t] = "done"

(* Clear the list and release the lock.                                    *)
JoinThreads ==
    /\ \/ appPc = "join" /\ appPc' = "idle"
       \/ appPc = "finalize_join" /\ appPc' = "close"
    /\ Joined
    /\ threads' = <<>>
    /\ threads_lock' = "free"
    /\ UNCHANGED <<last_thread_id, socketVars, backlog, procVars, pc, flagVars,
                   pending, fd, trigger_index>>

(* The rest of finalize; the kernel drops what was waiting on the socket.  *)
(* Descriptor 0 is never closed.                                           *)
CloseSocketMarksMinusOne ==
    /\ appPc = "close"
    /\ appPc' = "idle"
    /\ socket_fd' = -1
    /\ backlog' = IF socket_fd # 0 THEN 0 ELSE backlog
    /\ UNCHANGED <<threads_lock, threads, last_thread_id, sockets, inherited,
                   initialized, shutdown_pending, procVars, pc, flagVars, pending, fd,
                   trigger_index>>

CloseSocket ==
    /\ appPc = "close"
    /\ appPc' = "idle"
    /\ socket_fd' = 0
    /\ backlog' = IF socket_fd # 0 THEN 0 ELSE backlog
    /\ UNCHANGED <<threads_lock, threads, last_thread_id, sockets, inherited,
                   initialized, shutdown_pending, procVars, pc, flagVars, pending, fd,
                   trigger_index>>

AppStep ==
    \/ Initialize
    \/ \E count \in 0 .. MaxThreads : AddThreads(count)
    \/ Finalize
    \/ KillThreads
    \/ JoinThreads
    \/ CloseSocket

-----------------------------------------------------------------------------
(* Steps shared by workers and ticker.                                     *)

Goto(t, location) == pc' = [pc EXCEPT ![t] = location]

(* A thread function returns: its thread_locals, its FCGX_Request and the  *)
(* signals it has not taken are gone.                                      *)
Return(t) ==
    /\ Goto(t, "done")
    /\ shutdown_triggered' = [shutdown_triggered EXCEPT ![t] = FALSE]
    /\ tick_triggered' = [tick_triggered EXCEPT ![t] = FALSE]
    /\ pending' = [pending EXCEPT ![t] = {}]
    /\ owed' = [w \in Workers |-> IF w = t THEN FALSE ELSE owed[w]]
    /\ fd' = [w \in Workers |-> IF w = t THEN 0 ELSE fd[w]]

(* install_thread_signal_handlers: the dispositions are process-wide.      *)
HandlersForgotten(t) ==
    /\ pc[t] = "spawned"
    /\ Goto(t, IF t = Ticker THEN "start" ELSE "init")
    /\ UNCHANGED <<appVars, socketVars, backlog, procVars, flagVars, pending,
                   fd, trigger_index>>

InstallHandlers(t) ==
    /\ pc[t] = "spawned"
    /\ handlers' = TRUE
    /\ Goto(t, IF t = Ticker THEN "start" ELSE "init")
    /\ UNCHANGED <<appVars, socketVars, backlog, process, flagVars, pending,
                   fd, trigger_index>>

(* accept fails with EINTR (FCGI_FAIL_ACCEPT_ON_INTR) and the worker goes  *)
(* back to its loop; no other location minds a signal.                     *)
AfterSignal(location) == IF location = "accepting" THEN "while" ELSE location

(* A signal reaches its thread.  Without our handler SIGUSR1 and SIGUSR2   *)
(* end the process.  sigusr1 and sigusr2 only raise a flag.                *)
Deliver(t, signal) ==
    /\ signal \in pending[t]
    /\ pending' = [pending EXCEPT ![t] = @ \ {signal}]
    /\ IF handlers
       THEN /\ shutdown_triggered' =
                 [shutdown_triggered EXCEPT ![t] = @ \/ signal = "USR1"]
            /\ tick_triggered' =
                 [tick_triggered EXCEPT ![t] = @ \/ signal = "USR2"]
            /\ owed' = [w \in Workers |->
                          owed[w] \/ (w = t /\ signal = "USR2")]
            /\ Goto(t, AfterSignal(pc[t]))
            /\ UNCHANGED process
       ELSE process' = "killed" /\ UNCHANGED <<pc, flagVars>>
    /\ UNCHANGED <<appVars, socketVars, backlog, handlers, fd, trigger_index>>

-----------------------------------------------------------------------------
(* A worker: thread_function.                                              *)

(* FCGX_InitRequest and the worker's context; on an error the thread       *)
(* returns at once.                                                        *)
InitRequest(w) ==
    /\ pc[w] = "init"
    /\ \/ /\ fd' = [fd EXCEPT ![w] = socket_fd]
          /\ Goto(w, "while")
          /\ UNCHANGED <<flagVars, pending>>
       \/ Return(w)
    /\ UNCHANGED <<appVars, socketVars, backlog, procVars, trigger_index>>

While(w) ==
    /\ pc[w] = "while"
    /\ IF shutdown_triggered[w]
       THEN Return(w)
       ELSE Goto(w, "tick") /\ UNCHANGED <<flagVars, pending, fd>>
    /\ UNCHANGED <<appVars, socketVars, backlog, procVars, trigger_index>>

(* The flag is cleared first, then tick() runs.                            *)
TickCheck(w) ==
    /\ pc[w] = "tick"
    /\ tick_triggered' = [tick_triggered EXCEPT ![w] = FALSE]
    /\ owed' = [owed EXCEPT ![w] = FALSE]
    /\ Goto(w, IF tick_triggered[w] THEN "ticking" ELSE "accept")
    /\ UNCHANGED <<appVars, socketVars, backlog, procVars, shutdown_triggered,
                   pending, fd, trigger_index>>

TickReturnsThenClears(w) ==
    /\ pc[w] = "ticking"
    /\ Goto(w, "accept")
    /\ tick_triggered' = [tick_triggered EXCEPT ![w] = FALSE]
    /\ UNCHANGED <<appVars, socketVars, backlog, procVars, shutdown_triggered,
                   owed, pending, fd, trigger_index>>

TickReturns(w) ==
    /\ pc[w] = "ticking"
    /\ Goto(w, "accept")
    /\ UNCHANGED <<appVars, socketVars, backlog, procVars, flagVars, pending,
                   fd, trigger_index>>

(* What FCGX_Accept_r asks of a worker's listen_sock: libfcgi initialised, *)
(* and a socket, which descriptor 0 is only when it was inherited.         *)
Usable(w) == initialized /\ (fd[w] # 0 \/ inherited)

(* FCGX_Accept_r is entered; without a usable socket it fails.  After      *)
(* FCGX_ShutdownPending it does not call accept, and returns -9999 or      *)
(* minus whatever errno still holds: EINTR sends the worker round its      *)
(* loop, anything else ends it.                                            *)
Accept(w) ==
    /\ pc[w] = "accept"
    /\ \/ (~Usable(w) \/ shutdown_pending) /\ Return(w)
       \/ /\ initialized /\ shutdown_pending
          /\ Goto(w, "while") /\ UNCHANGED <<flagVars, pending, fd>>
       \/ /\ Usable(w) /\ ~shutdown_pending
          /\ Goto(w, "accepting") /\ UNCHANGED <<flagVars, pending, fd>>
    /\ UNCHANGED <<appVars, socketVars, backlog, procVars, trigger_index>>

Accepted(w) ==
    /\ pc[w] = "accepting"
    /\ backlog > 0
    /\ backlog' = backlog - 1
    /\ Goto(w, "serving")
    /\ UNCHANGED <<appVars, socketVars, procVars, flagVars, pending, fd,
                   trigger_index>>

(* accept(2) fails for another reason, EMFILE say: the worker ends.        *)
AcceptFails(w) ==
    /\ pc[w] = "accepting"
    /\ Return(w)
    /\ UNCHANGED <<appVars, socketVars, backlog, procVars, trigger_index>>

(* The request has been handled and logged: see Request, ServerContext.    *)
Served(w) ==
    /\ pc[w] = "serving"
    /\ Goto(w, "while")
    /\ UNCHANGED <<appVars, socketVars, backlog, procVars, flagVars, pending,
                   fd, trigger_index>>

WorkerStep(w) ==
    \/ InstallHandlers(w)
    \/ InitRequest(w)
    \/ While(w)
    \/ TickCheck(w)
    \/ TickReturns(w)
    \/ Accept(w)
    \/ Accepted(w)
    \/ Served(w)

-----------------------------------------------------------------------------
(* The ticker: thread_tick_function.                                       *)

(* guard(threads_lock) blocks; the size read under it only sets how long   *)
(* the ticker sleeps.                                                      *)
TickerStart ==
    /\ pc[Ticker] = "start"
    /\ Unlocked
    /\ Goto(Ticker, "while")
    /\ UNCHANGED <<appVars, socketVars, backlog, procVars, flagVars, pending,
                   fd, trigger_index>>

TickerWhile ==
    /\ pc[Ticker] = "while"
    /\ IF shutdown_triggered[Ticker]
       THEN Return(Ticker)
       ELSE Goto(Ticker, "sleep") /\ UNCHANGED <<flagVars, pending, fd>>
    /\ UNCHANGED <<appVars, socketVars, backlog, procVars, trigger_index>>

(* The interval has passed, or the sleep is cut short by the flag.         *)
TickerWakes ==
    /\ pc[Ticker] = "sleep"
    /\ Goto(Ticker, "try_lock")
    /\ UNCHANGED <<appVars, socketVars, backlog, procVars, flagVars, pending,
                   fd, trigger_index>>

TryLock ==
    /\ pc[Ticker] = "try_lock"
    /\ IF ~shutdown_triggered[Ticker] /\ Unlocked
       THEN threads_lock' = "ticker" /\ Goto(Ticker, "signal")
       ELSE Goto(Ticker, "while") /\ UNCHANGED threads_lock
    /\ UNCHANGED <<appPc, threads, last_thread_id, socketVars, backlog,
                   procVars, flagVars, pending, fd, trigger_index>>

FrontNotSkipped == (trigger_index + 1) % Len(threads)
FirstWorkerOnly == 1

(* Position, counted from 0, of the thread to signal next: the front of    *)
(* the list, the ticker itself, is skipped.                                *)
NextIndex ==
    LET next == (trigger_index + 1) % Len(threads)
    IN  IF next = 0 THEN 1 ELSE next

(* With no worker in the list the position is its end and nobody is        *)
(* signalled.                                                              *)
SignalNext ==
    /\ pc[Ticker] = "signal"
    /\ trigger_index' = NextIndex
    /\ pending' = [t \in Threads |->
                     IF /\ NextIndex < Len(threads)
                        /\ t = threads[NextIndex + 1]
                        /\ Active(t)
                     THEN pending[t] \cup {"USR2"}
                     ELSE pending[t]]
    /\ threads_lock' = "free"
    /\ Goto(Ticker, "while")
    /\ UNCHANGED <<appPc, threads, last_thread_id, socketVars, backlog,
                   procVars, flagVars, fd>>

TickerStep ==
    \/ InstallHandlers(Ticker)
    \/ TickerStart
    \/ TickerWhile
    \/ TickerWakes
    \/ TryLock
    \/ SignalNext

-----------------------------------------------------------------------------
(* The network: a client connects while there is a listening socket.       *)
Connect ==
    /\ Listening
    /\ backlog < MaxBacklog
    /\ backlog' = backlog + 1
    /\ UNCHANGED <<appVars, socketVars, procVars, pc, flagVars, pending, fd,
                   trigger_index>>

(* The application has nothing left to do: no more sockets or threads may  *)
(* be created within the bounds, or the process is gone.                   *)
Stopped ==
    /\ \/ process = "killed"
       \/ appPc = "idle" /\ \A t \in Threads : ~Active(t)
    /\ UNCHANGED vars

Next ==
    \/ /\ process = "running"
       /\ \/ AppStep
          \/ TickerStep
          \/ Connect
          \/ \E w \in Workers : WorkerStep(w) \/ AcceptFails(w)
          \/ \E t \in Threads, signal \in Signals : Deliver(t, signal)
    \/ Stopped

Spec == Init /\ [][Next]_vars

-----------------------------------------------------------------------------
(* Fairness.  The operating system runs every thread and delivers signals; *)
(* a tick() and a request come to an end; a mutex that is free again and   *)
(* again is obtained in the end (the ticker sleeps between two uses of     *)
(* threads_lock).  No client has to connect, no error has to occur.        *)
StopStep == (appPc = "finalize" /\ KillThreads) \/ JoinThreads \/ CloseSocket

Fairness ==
    /\ SF_vars(process = "running" /\ StopStep)
    /\ WF_vars(process = "running" /\ TickerStep)
    /\ \A w \in Workers : WF_vars(process = "running" /\ WorkerStep(w))
    /\ \A t \in Threads :
          WF_vars(process = "running" /\ \E signal \in Signals : Deliver(t, signal))

FairSpec == Spec /\ Fairness

(* The same with clients that keep connecting.                             *)
BusySpec == FairSpec /\ WF_vars(process = "running" /\ Connect)

-----------------------------------------------------------------------------
(* Correctness.                                                            *)

WorkerLocations == {"none", "spawned", "init", "while", "tick", "ticking",
                    "accept", "accepting", "serving", "done"}
TickerLocations == {"none", "spawned", "start", "while", "sleep", "try_lock",
                    "signal", "done"}

(* The type invariant: every variable stays in its range.                  *)
TypeOK ==
    /\ appPc \in {"idle", "join", "finalize", "finalize_join", "close"}
    /\ threads_lock \in {"free", "app", "ticker"}
    /\ threads \in Seq(Threads)
    /\ last_thread_id \in 0 .. MaxThreads
    /\ sockets \in 0 .. MaxSockets
    /\ socket_fd \in 0 .. sockets
    /\ inherited \in BOOLEAN
    /\ initialized \in BOOLEAN
    /\ backlog \in 0 .. MaxBacklog
    /\ shutdown_pending \in BOOLEAN
    /\ handlers \in BOOLEAN
    /\ process \in {"running", "killed"}
    /\ pc \in [Threads -> WorkerLocations \cup TickerLocations]
    /\ pc[Ticker] \in TickerLocations
    /\ \A w \in Workers : pc[w] \in WorkerLocations
    /\ shutdown_triggered \in [Threads -> BOOLEAN]
    /\ tick_triggered \in [Threads -> BOOLEAN]
    /\ pending \in [Threads -> SUBSET Signals]
    /\ fd \in [Workers -> 0 .. MaxSockets]
    /\ owed \in [Workers -> BOOLEAN]
    /\ trigger_index \in Nat \cup {-1}

(* What thread_tick_function assumes when it walks the list ("Hard-        *)
(* assuming that we are in the list and on index 0"): while it holds the   *)
(* lock the list starts with the ticker and goes on with workers only,     *)
(* whatever add_threads and kill_threads did in between.                   *)
TickerAtFront ==
    pc[Ticker] = "signal" =>
        /\ threads # <<>>
        /\ threads[1] = Ticker
        /\ \A i \in 2 .. Len(threads) : threads[i] \in Workers

(* Every running thread is in the list, so that kill_threads signals and   *)
(* joins it: no sequence of add_threads, kill_threads and finalize leaves  *)
(* a thread behind.                                                        *)
NoThreadLeftBehind == \A t \in Threads : Active(t) => t \in Listed

(* finalize closes the socket only when no worker can be in accept on it:  *)
(* a worker's listen_sock is the server's open socket as long as it runs.  *)
(* (A descriptor 0 that was inherited is nobody's to close.)               *)
SocketOutlivesWorkers ==
    \A w \in Workers : Active(w) /\ fd[w] # 0 => fd[w] = socket_fd

(* A SIGUSR2 that arrives while the worker is already in tick() is not     *)
(* forgotten: until a tick() begins after it, the flag stays up.           *)
TickNotLost == \A w \in Workers : owed[w] => tick_triggered[w]

(* SIGUSR1 and SIGUSR2 only ever raise flags: no thread gets one before    *)
(* the handlers are installed ("Signal sent to gracefully terminate a      *)
(* thread").                                                               *)
NeverKilled == process # "killed"

(* The ticker skips itself: it never sends itself SIGUSR2.                 *)
TickerNeverSignalsItself == [][pending'[Ticker] \subseteq pending[Ticker] \cup {"USR1"}]_vars

(* The list does not change while the ticker walks it: add_threads and     *)
(* kill_threads have to wait, although they run on another thread.         *)
ListStableWhileWalked == [][threads' # threads => pc[Ticker] # "signal"]_vars

(* kill_threads and finalize return ("Finalizing will stop accepting new   *)
(* connections and stop all service threads").                             *)
StopReturns ==
    appPc # "idle" ~> (appPc = "idle" \/ process = "killed")

(* What can keep a stop from returning is a worker that waits in accept    *)
(* with its flag raised and no client in sight, and nothing else: once the *)
(* threads are past their start-up code neither the ticker nor the lock    *)
(* holds kill_threads or finalize up.                                      *)
StopHangsOnlyInAccept ==
    \/ []<>(appPc = "idle" \/ process = "killed")
    \/ <>[](\E w \in Workers :
              pc[w] = "accepting" /\ backlog = 0 /\ shutdown_triggered[w])

(* Every worker that stays in the list begins a tick() again and again:    *)
(* the ticker comes round to it, and a SIGUSR2 that falls between the      *)
(* check of the flag and accept is made good by the next one, without any  *)
(* connection.                                                             *)
EveryWorkerTicks ==
    \A w \in Workers :
        (Active(w) /\ appPc = "idle") ~>
            (pc[w] = "ticking" \/ ~Active(w) \/ appPc # "idle")

(* The threads, the list, the lock and the signals are one way to run a    *)
(* pool of workers: the promises of WorkerPool hold of every step, those   *)
(* about the socket and the stop because of what the locations imply.      *)
Life(t) == IF pc[t] = "none" THEN "none"
           ELSE IF pc[t] = "done" THEN "ended" ELSE "running"

Pool == INSTANCE WorkerPool WITH
            life     <- [t \in Threads |-> Life(t)],
            open     <- Listening,
            waiting  <- backlog,
            serving  <- {w \in Workers : pc[w] = "serving"},
            stopping <- appPc \in {"join", "finalize_join"}

ImplementsPool == Pool!Spec
=============================================================================
