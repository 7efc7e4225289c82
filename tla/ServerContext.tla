---------------------------- MODULE ServerContext ----------------------------
(***************************************************************************)
(* What the workers of fcgiserver::Server share under context_lock: the    *)
(* router, the global context and the function that makes thread contexts  *)
(* (src/lib/server.cpp, src/lib/request_context.cpp).  A worker takes a    *)
(* copy of the shared pointers when a request comes in, the handler works  *)
(* on the copy, and a global context it has replaced is published after    *)
(* the request.  The application may change all three at any time.  A      *)
(* section under context_lock is one step.                                 *)
(***************************************************************************)
EXTENDS Naturals

CONSTANTS
    Workers,      \* the worker threads
    Routers,      \* the routers of the application
    EmptyRouter,  \* the router of a server without one
    Contexts,     \* the contexts of the application, global and per thread
    Null          \* a null pointer

ASSUME NullAssumption ==
    /\ Null \notin Routers \cup {EmptyRouter}
    /\ Null \notin Contexts

VARIABLES
    router,                \* ServerPrivate::router
    global_context,        \* ServerPrivate::global_context
    create_thread_context, \* ServerPrivate: the context it makes, or Null
    pc,                    \* where each worker is
    context,               \* each worker's RequestContextPrivate
    local_router,          \* the router variable of thread_function
    seen,                  \* history: the pairs of router and global context
                           \* that were current since the request came in
    replacing              \* history: this request's handler has called
                           \* replace_global_context

shared == <<router, global_context, create_thread_context>>
vars   == <<shared, pc, context, local_router, seen, replacing>>

(* The members of RequestContextPrivate as they are initialised.           *)
FlagLeftOut == [global_context |-> Null, thread_context |-> Null,
                replaced_global_context |-> Null]
NewContext  == [global_context |-> Null, thread_context |-> Null,
                replaced_global_context |-> FALSE]

Init ==
    /\ router = Null
    /\ global_context = Null
    /\ create_thread_context = Null
    /\ pc = [w \in Workers |-> "none"]
    /\ context = [w \in Workers |-> NewContext]
    /\ local_router = [w \in Workers |-> Null]
    /\ seen = [w \in Workers |-> {}]
    /\ replacing = [w \in Workers |-> FALSE]

(* Every change of the pair is seen by the requests in progress.           *)
Share(new_router, new_global) ==
    /\ router' = new_router
    /\ global_context' = new_global
    /\ seen' = [w \in Workers |-> seen[w] \cup {<<new_router, new_global>>}]

-----------------------------------------------------------------------------
(* The application.                                                        *)

(* A null router is turned down.                                           *)
ValidRouter(new_router) == new_router # Null

SetRouter(new_router) ==
    /\ ValidRouter(new_router)
    /\ Share(new_router, global_context)
    /\ UNCHANGED <<create_thread_context, pc, context, local_router, replacing>>

SetGlobalContext(new_context) ==
    /\ Share(router, new_context)
    /\ UNCHANGED <<create_thread_context, pc, context, local_router, replacing>>

SetThreadContext(function) ==
    /\ create_thread_context' = function
    /\ UNCHANGED <<router, global_context, pc, context, local_router, seen, replacing>>

(* add_threads: a server without a router gets the empty one before the    *)
(* threads exist.  The section under context_lock and the one that creates *)
(* the threads are one step: what could come between them is a change of   *)
(* router or context, which does as well before both, since set_router     *)
(* never takes the router away.                                            *)
NoDefault     == router
DefaultRouter == IF router = Null THEN EmptyRouter ELSE router

AddThreads ==
    /\ \E some \in (SUBSET {w \in Workers : pc[w] = "none"}) \ {{}} :
          pc' = [w \in Workers |-> IF w \in some THEN "start" ELSE pc[w]]
    /\ Share(DefaultRouter, global_context)
    /\ UNCHANGED <<create_thread_context, context, local_router, replacing>>

-----------------------------------------------------------------------------
(* A worker.                                                               *)

Goto(w, location) == pc' = [pc EXCEPT ![w] = location]

MakeContext(w) ==
    /\ pc[w] = "start"
    /\ context' = [context EXCEPT ![w].thread_context = create_thread_context]
    /\ Goto(w, "accept")
    /\ UNCHANGED <<shared, local_router, seen, replacing>>

(* A request comes in.                                                     *)
Accept(w) ==
    /\ pc[w] = "accept"
    /\ Goto(w, "snapshot")
    /\ seen' = [seen EXCEPT ![w] = {<<router, global_context>>}]
    /\ replacing' = [replacing EXCEPT ![w] = FALSE]
    /\ UNCHANGED <<shared, context, local_router>>

(* Both pointers are copied in one section under the shared lock.          *)
SnapshotOnce(w) ==
    /\ pc[w] = "snapshot"
    /\ context' = [context EXCEPT ![w].global_context =
                      IF @ = Null THEN global_context ELSE @]
    /\ local_router' = [local_router EXCEPT ![w] = router]
    /\ Goto(w, "handler")
    /\ UNCHANGED <<shared, seen, replacing>>

Snapshot(w) ==
    /\ pc[w] = "snapshot"
    /\ context' = [context EXCEPT ![w].global_context = global_context]
    /\ local_router' = [local_router EXCEPT ![w] = router]
    /\ Goto(w, "handler")
    /\ UNCHANGED <<shared, seen, replacing>>

(* RequestContext::replace_global_context and replace_thread_context.      *)
ReplaceGlobalContext(w, new_context) ==
    /\ pc[w] = "handler"
    /\ context' = [context EXCEPT ![w].global_context = new_context,
                                  ![w].replaced_global_context = TRUE]
    /\ replacing' = [replacing EXCEPT ![w] = TRUE]
    /\ UNCHANGED <<shared, pc, local_router, seen>>

ReplaceThreadContext(w, new_context) ==
    /\ pc[w] = "handler"
    /\ context' = [context EXCEPT ![w].thread_context = new_context]
    /\ UNCHANGED <<shared, pc, local_router, seen, replacing>>

(* The handler returns or throws, the response is completed and logged;    *)
(* an exception does not take the replacement back.                        *)
HandlerEnds(w) ==
    /\ pc[w] = "handler"
    /\ Goto(w, IF context[w].replaced_global_context THEN "publish" ELSE "accept")
    /\ local_router' = [local_router EXCEPT ![w] = Null]
    /\ UNCHANGED <<shared, context, seen, replacing>>

(* The flag is taken down, then the context is published under the lock.   *)
PublishKeepsFlag(w) ==
    /\ pc[w] = "publish"
    /\ Share(router, context[w].global_context)
    /\ Goto(w, "accept")
    /\ UNCHANGED <<create_thread_context, context, local_router, replacing>>

PublishNotNull(w) ==
    /\ pc[w] = "publish"
    /\ context' = [context EXCEPT ![w].replaced_global_context = FALSE]
    /\ Share(router, IF context[w].global_context = Null
                     THEN global_context ELSE context[w].global_context)
    /\ Goto(w, "accept")
    /\ UNCHANGED <<create_thread_context, local_router, replacing>>

Publish(w) ==
    /\ pc[w] = "publish"
    /\ context' = [context EXCEPT ![w].replaced_global_context = FALSE]
    /\ Share(router, context[w].global_context)
    /\ Goto(w, "accept")
    /\ UNCHANGED <<create_thread_context, local_router, replacing>>

(* FCGX_InitRequest fails before the thread has a context, or the loop is   *)
(* left for a signal, a shutdown or an error of accept.  The worker's      *)
(* RequestContext goes with it; nobody starts this thread again.            *)
WorkerEnds(w) ==
    /\ pc[w] \in {"start", "accept"}
    /\ Goto(w, "ended")
    /\ context' = [context EXCEPT ![w] = NewContext]
    /\ UNCHANGED <<shared, local_router, seen, replacing>>

AppStep ==
    \/ \E new_router \in Routers \cup {Null} : SetRouter(new_router)
    \/ \E new_context \in Contexts \cup {Null} : SetGlobalContext(new_context)
    \/ \E function \in Contexts \cup {Null} : SetThreadContext(function)
    \/ AddThreads

WorkerStep(w) ==
    \/ MakeContext(w)
    \/ Accept(w)
    \/ Snapshot(w)
    \/ \E new_context \in Contexts \cup {Null} :
          ReplaceGlobalContext(w, new_context) \/ ReplaceThreadContext(w, new_context)
    \/ HandlerEnds(w)
    \/ Publish(w)
    \/ WorkerEnds(w)

Next == AppStep \/ \E w \in Workers : WorkerStep(w)

Spec == Init /\ [][Next]_vars

-----------------------------------------------------------------------------
(* Correctness.                                                            *)

AllRouters == Routers \cup {EmptyRouter}

TypeOK ==
    /\ router \in AllRouters \cup {Null}
    /\ global_context \in Contexts \cup {Null}
    /\ create_thread_context \in Contexts \cup {Null}
    /\ pc \in [Workers -> {"none", "start", "accept", "snapshot", "handler",
                        "publish", "ended"}]
    /\ context \in [Workers -> [global_context : Contexts \cup {Null},
                                thread_context : Contexts \cup {Null},
                                replaced_global_context : BOOLEAN]]
    /\ local_router \in [Workers -> AllRouters \cup {Null}]
    /\ seen \in [Workers -> SUBSET ((AllRouters \cup {Null}) \X (Contexts \cup {Null}))]
    /\ replacing \in [Workers -> BOOLEAN]

(* thread_function calls router->handle_request without a test: there is a *)
(* router whenever a request is handled, set by the application or by      *)
(* add_threads, whichever came first.                                      *)
RouterIsSet == \A w \in Workers : pc[w] = "handler" => local_router[w] # Null

(* The router and the global context a handler starts with belong together *)
(* and are not out of date: they were current at one and the same moment   *)
(* since the request came in, whatever was set in the meantime.            *)
SnapshotIsCurrent ==
    \A w \in Workers :
        pc[w] = "handler" /\ ~replacing[w] =>
            <<local_router[w], context[w].global_context>> \in seen[w]

(* A worker publishes only what the handler of this very request has put   *)
(* in place: the copy it took is never written back over what the          *)
(* application or another worker has set since.                            *)
NoStaleWriteBack ==
    [][\A w \in Workers : Publish(w) => replacing[w]]_vars

(* What a handler has put in place of the global context, null included,   *)
(* is the server's global context at the moment the worker is done with    *)
(* the request, whether the handler returned or threw: no way back to      *)
(* accept leaves it out.                                                   *)
NothingLeftUnpublished ==
    [][\A w \in Workers :
          replacing[w] /\ pc[w] # "accept" /\ pc'[w] = "accept" =>
              global_context' = context[w].global_context]_vars
=============================================================================
