----------------------------- MODULE WorkerPool -----------------------------
(***************************************************************************)
(* What fcgiserver::Server promises an application that serves requests on *)
(* a pool of threads: a stop returns only when no thread is left, the      *)
(* socket is closed only then, a connection is taken by one worker and     *)
(* served to its end, and nobody is started while a stop is under way.     *)
(***************************************************************************)
EXTENDS Naturals

CONSTANTS
    Threads,   \* every thread of the pool
    Workers    \* those of them that serve connections

VARIABLES
    life,      \* "none", "running" or "ended" for each thread
    open,      \* clients can connect: a pool may be handed an open socket
    waiting,   \* connections nobody has taken yet
    serving,   \* the workers that have taken one
    stopping   \* kill_threads has been called and has not returned

poolVars == <<life, open, waiting, serving, stopping>>

Init ==
    /\ life = [t \in Threads |-> "none"]
    /\ open \in BOOLEAN
    /\ waiting = 0
    /\ serving = {}
    /\ stopping = FALSE

Running(t)    == life[t] = "running"
NobodyRunning == \A t \in Threads : ~Running(t)

Open ==
    /\ ~open
    /\ open' = TRUE
    /\ UNCHANGED <<life, waiting, serving, stopping>>

Start(new) ==
    /\ ~stopping
    /\ \A t \in new : ~Running(t)
    /\ life' = [t \in Threads |-> IF t \in new THEN "running" ELSE life[t]]
    /\ UNCHANGED <<open, waiting, serving, stopping>>

Stop ==
    /\ ~stopping
    /\ stopping' = TRUE
    /\ UNCHANGED <<life, open, waiting, serving>>

StopReturns ==
    /\ stopping
    /\ NobodyRunning
    /\ stopping' = FALSE
    /\ UNCHANGED <<life, open, waiting, serving>>

(* A connection nobody has taken is dropped with the socket.               *)
Close ==
    /\ open
    /\ NobodyRunning
    /\ open' = FALSE
    /\ waiting' = 0
    /\ UNCHANGED <<life, serving, stopping>>

(* Asked to or by an error, but never with a connection in its hands.      *)
End(t) ==
    /\ Running(t)
    /\ t \notin serving
    /\ life' = [life EXCEPT ![t] = "ended"]
    /\ UNCHANGED <<open, waiting, serving, stopping>>

Connect ==
    /\ open
    /\ waiting' = waiting + 1
    /\ UNCHANGED <<life, open, serving, stopping>>

Take(w) ==
    /\ open
    /\ Running(w)
    /\ w \notin serving
    /\ waiting > 0
    /\ waiting' = waiting - 1
    /\ serving' = serving \cup {w}
    /\ UNCHANGED <<life, open, stopping>>

Served(w) ==
    /\ w \in serving
    /\ serving' = serving \ {w}
    /\ UNCHANGED <<life, open, waiting, stopping>>

Next ==
    \/ Open \/ Close \/ Stop \/ StopReturns \/ Connect
    \/ \E new \in SUBSET Threads : Start(new)
    \/ \E t \in Threads : End(t)
    \/ \E w \in Workers : Take(w) \/ Served(w)

Spec == Init /\ [][Next]_poolVars
=============================================================================
