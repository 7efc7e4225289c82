-------------------------- MODULE ServerContextProofs --------------------------
(***************************************************************************)
(* For any number of workers, routers and contexts: what a worker takes    *)
(* from under context_lock and what it writes back.  A worker only exists  *)
(* once there is a router; the pair that is current now has been seen by   *)
(* every request in progress; and the flag of a replaced context is up     *)
(* from the handler's call to the publication, and only then.              *)
(***************************************************************************)
EXTENDS ServerContext, TLAPS

(* set_router turns null down and add_threads provides a default.          *)
RouterInv == \A w \in Workers : pc[w] # "none" => router # Null

SeenInv ==
    \A w \in Workers :
        pc[w] \in {"snapshot", "handler"} => <<router, global_context>> \in seen[w]

FlagInv ==
    \A w \in Workers :
        /\ pc[w] # "handler" => (context[w].replaced_global_context <=> pc[w] = "publish")
        /\ pc[w] \in {"handler", "publish"} =>
              (context[w].replaced_global_context <=> replacing[w])
        /\ pc[w] \in {"none", "start", "snapshot"} => ~replacing[w]

IInv == /\ TypeOK /\ RouterInv /\ SeenInv /\ FlagInv
        /\ RouterIsSet /\ SnapshotIsCurrent

USE NullAssumption DEF AllRouters, NewContext, shared, Goto, Share

LEMMA InitIInv == Init => IInv
BY DEF Init, IInv, TypeOK, RouterInv, SeenInv, FlagInv, RouterIsSet, SnapshotIsCurrent

(* Every change by the application is a Share, or touches nothing a worker *)
(* in a request looks at.                                                  *)
LEMMA AppStepKeepsIInv == ASSUME IInv, AppStep PROVE IInv'
<1>1. ASSUME NEW new_router \in Routers \cup {Null}, SetRouter(new_router)
      PROVE  IInv'
  BY <1>1 DEF SetRouter, ValidRouter, IInv, TypeOK, RouterInv, SeenInv, FlagInv,
              RouterIsSet, SnapshotIsCurrent
<1>2. ASSUME NEW new_context \in Contexts \cup {Null}, SetGlobalContext(new_context)
      PROVE  IInv'
  BY <1>2 DEF SetGlobalContext, IInv, TypeOK, RouterInv, SeenInv, FlagInv,
              RouterIsSet, SnapshotIsCurrent
<1>3. ASSUME NEW function \in Contexts \cup {Null}, SetThreadContext(function)
      PROVE  IInv'
  BY <1>3 DEF SetThreadContext, IInv, TypeOK, RouterInv, SeenInv, FlagInv,
              RouterIsSet, SnapshotIsCurrent
<1>4. ASSUME AddThreads PROVE IInv'
  <2>1. PICK some \in (SUBSET {w \in Workers : pc[w] = "none"}) \ {{}} :
            pc' = [w \in Workers |-> IF w \in some THEN "start" ELSE pc[w]]
    BY <1>4 DEF AddThreads
  <2>2. \A w \in Workers :
            \/ pc'[w] = pc[w]
            \/ pc[w] = "none" /\ pc'[w] = "start"
    BY <2>1
  <2>3. router' # Null /\ router' \in AllRouters
    BY <1>4 DEF AddThreads, DefaultRouter, IInv, TypeOK
  <2>4. TypeOK'
    BY <1>4, <2>1, <2>2, <2>3 DEF AddThreads, IInv, TypeOK
  <2>5. RouterInv' /\ SeenInv' /\ FlagInv'
    BY <1>4, <2>2, <2>3 DEF AddThreads, IInv, TypeOK, RouterInv, SeenInv, FlagInv
  <2>6. RouterIsSet' /\ SnapshotIsCurrent'
    BY <1>4, <2>2 DEF AddThreads, IInv, TypeOK, RouterIsSet, SnapshotIsCurrent
  <2> QED BY <2>4, <2>5, <2>6 DEF IInv
<1> QED BY <1>1, <1>2, <1>3, <1>4 DEF AppStep

LEMMA WorkerStepKeepsIInv ==
    ASSUME IInv, NEW w \in Workers, WorkerStep(w)
    PROVE  IInv'
<1>1. CASE MakeContext(w)
  <2>1. context'[w] \in [global_context : Contexts \cup {Null},
                         thread_context : Contexts \cup {Null},
                         replaced_global_context : BOOLEAN]
    BY <1>1 DEF MakeContext, IInv, TypeOK
  <2>2. context' = [context EXCEPT ![w] = context'[w]]
    BY <1>1 DEF MakeContext, IInv, TypeOK
  <2>3. TypeOK'
    BY <1>1, <2>1, <2>2 DEF MakeContext, IInv, TypeOK
  <2>4. \A v \in Workers : /\ context'[v].replaced_global_context
                                = context[v].replaced_global_context
                           /\ context'[v].global_context = context[v].global_context
                           /\ v # w => pc'[v] = pc[v]
    BY <1>1 DEF MakeContext, IInv, TypeOK
  <2>5. RouterInv' /\ SeenInv' /\ FlagInv'
    BY <1>1, <2>4 DEF MakeContext, IInv, TypeOK, RouterInv, SeenInv, FlagInv
  <2>6. RouterIsSet' /\ SnapshotIsCurrent'
    BY <1>1, <2>4 DEF MakeContext, IInv, TypeOK, RouterIsSet, SnapshotIsCurrent
  <2> QED BY <2>3, <2>5, <2>6 DEF IInv
<1>2. CASE Accept(w)
  <2>1. TypeOK'
    BY <1>2 DEF Accept, IInv, TypeOK
  <2>2. /\ pc[w] = "accept" /\ pc'[w] = "snapshot"
        /\ \A v \in Workers : v # w =>
              pc'[v] = pc[v] /\ seen'[v] = seen[v] /\ replacing'[v] = replacing[v]
        /\ seen'[w] = {<<router, global_context>>} /\ ~replacing'[w]
        /\ UNCHANGED <<router, global_context, context, local_router>>
    BY <1>2 DEF Accept, IInv, TypeOK
  <2>3. RouterInv' /\ RouterIsSet'
    BY <2>2 DEF IInv, RouterInv, RouterIsSet
  <2>4. FlagInv'
    BY <2>2 DEF IInv, FlagInv
  <2>5. SeenInv' /\ SnapshotIsCurrent'
    BY <2>2 DEF IInv, SeenInv, SnapshotIsCurrent
  <2> QED BY <2>1, <2>3, <2>4, <2>5 DEF IInv
<1>3. CASE Snapshot(w)
  <2>1. TypeOK'
    BY <1>3 DEF Snapshot, IInv, TypeOK
  <2>2. RouterInv' /\ SeenInv' /\ FlagInv'
    <3>1. \A v \in Workers : /\ context'[v].replaced_global_context
                                  = context[v].replaced_global_context
                             /\ v # w => pc'[v] = pc[v]
      BY <1>3 DEF Snapshot, IInv, TypeOK
    <3>2. pc'[w] = "handler" /\ ~context[w].replaced_global_context
      BY <1>3 DEF Snapshot, IInv, TypeOK, FlagInv
    <3>3. FlagInv'
      BY <1>3, <3>1, <3>2 DEF Snapshot, IInv, FlagInv
    <3>4. RouterInv' /\ SeenInv'
      BY <1>3, <3>1, <3>2 DEF Snapshot, IInv, RouterInv, SeenInv
    <3> QED BY <3>3, <3>4
  <2>3. RouterIsSet'
    BY <1>3 DEF Snapshot, IInv, TypeOK, RouterInv, RouterIsSet
  <2>4. SnapshotIsCurrent'
    <3>1. local_router'[w] = router /\ context'[w].global_context = global_context
      BY <1>3 DEF Snapshot, IInv, TypeOK
    <3>2. \A v \in Workers : v # w =>
             /\ pc'[v] = pc[v]
             /\ local_router'[v] = local_router[v]
             /\ context'[v] = context[v]
      BY <1>3 DEF Snapshot, IInv, TypeOK
    <3>3. UNCHANGED <<seen, replacing>> /\ <<router, global_context>> \in seen[w]
      BY <1>3 DEF Snapshot, IInv, SeenInv
    <3> QED BY <3>1, <3>2, <3>3 DEF IInv, SnapshotIsCurrent
  <2> QED BY <2>1, <2>2, <2>3, <2>4 DEF IInv
<1>4. ASSUME NEW new_context \in Contexts \cup {Null},
             ReplaceGlobalContext(w, new_context)
      PROVE  IInv'
  <2>1. /\ pc[w] = "handler"
        /\ UNCHANGED <<shared, pc, local_router, seen>>
        /\ \A v \in Workers : v # w => context'[v] = context[v]
    BY <1>4 DEF ReplaceGlobalContext, IInv, TypeOK
  <2>2. context'[w] = [context[w] EXCEPT !.global_context = new_context, !.replaced_global_context = TRUE]
    BY <1>4 DEF ReplaceGlobalContext, IInv, TypeOK
  <2>3. TypeOK'
    <3>1. context' \in [Workers -> [global_context : Contexts \cup {Null},
                                    thread_context : Contexts \cup {Null},
                                    replaced_global_context : BOOLEAN]]
      <4>1. context[w] \in [global_context : Contexts \cup {Null},
                            thread_context : Contexts \cup {Null},
                            replaced_global_context : BOOLEAN]
        BY DEF IInv, TypeOK
      <4>2. context'[w] \in [global_context : Contexts \cup {Null},
                             thread_context : Contexts \cup {Null},
                             replaced_global_context : BOOLEAN]
        BY <1>4, <2>2, <4>1
      <4>3. context' = [context EXCEPT ![w] = context'[w]]
        BY <1>4, <2>2 DEF ReplaceGlobalContext, IInv, TypeOK
      <4> QED BY <4>2, <4>3 DEF IInv, TypeOK
    <3>2. replacing' \in [Workers -> BOOLEAN]
      BY <1>4 DEF ReplaceGlobalContext, IInv, TypeOK
    <3> QED BY <2>1, <3>1, <3>2 DEF shared, IInv, TypeOK
  <2>4. RouterInv' /\ SeenInv' /\ RouterIsSet'
    BY <2>1 DEF shared, IInv, RouterInv, SeenInv, RouterIsSet
  <2>5. FlagInv'
    BY <1>4, <2>1, <2>2 DEF ReplaceGlobalContext, IInv, TypeOK, FlagInv
  <2>6. SnapshotIsCurrent'
    BY <1>4, <2>1, <2>2 DEF ReplaceGlobalContext, shared, IInv, TypeOK, SnapshotIsCurrent
  <2> QED BY <2>3, <2>4, <2>5, <2>6 DEF IInv
<1>5. ASSUME NEW new_context \in Contexts \cup {Null},
             ReplaceThreadContext(w, new_context)
      PROVE  IInv'
  <2>1. /\ pc[w] = "handler"
        /\ UNCHANGED <<shared, pc, local_router, seen>>
        /\ \A v \in Workers : v # w => context'[v] = context[v]
    BY <1>5 DEF ReplaceThreadContext, IInv, TypeOK
  <2>2. context'[w] = [context[w] EXCEPT !.thread_context = new_context]
    BY <1>5 DEF ReplaceThreadContext, IInv, TypeOK
  <2>3. TypeOK'
    <3>1. context' \in [Workers -> [global_context : Contexts \cup {Null},
                                    thread_context : Contexts \cup {Null},
                                    replaced_global_context : BOOLEAN]]
      <4>1. context[w] \in [global_context : Contexts \cup {Null},
                            thread_context : Contexts \cup {Null},
                            replaced_global_context : BOOLEAN]
        BY DEF IInv, TypeOK
      <4>2. context'[w] \in [global_context : Contexts \cup {Null},
                             thread_context : Contexts \cup {Null},
                             replaced_global_context : BOOLEAN]
        BY <1>5, <2>2, <4>1
      <4>3. context' = [context EXCEPT ![w] = context'[w]]
        BY <1>5, <2>2 DEF ReplaceThreadContext, IInv, TypeOK
      <4> QED BY <4>2, <4>3 DEF IInv, TypeOK
    <3>2. replacing' \in [Workers -> BOOLEAN]
      BY <1>5 DEF ReplaceThreadContext, IInv, TypeOK
    <3> QED BY <2>1, <3>1, <3>2 DEF shared, IInv, TypeOK
  <2>4. RouterInv' /\ SeenInv' /\ RouterIsSet'
    BY <2>1 DEF shared, IInv, RouterInv, SeenInv, RouterIsSet
  <2>5. FlagInv'
    BY <1>5, <2>1, <2>2 DEF ReplaceThreadContext, IInv, TypeOK, FlagInv
  <2>6. SnapshotIsCurrent'
    BY <1>5, <2>1, <2>2 DEF ReplaceThreadContext, shared, IInv, TypeOK, SnapshotIsCurrent
  <2> QED BY <2>3, <2>4, <2>5, <2>6 DEF IInv
<1>6. CASE HandlerEnds(w)
  BY <1>6 DEF HandlerEnds, IInv, TypeOK, RouterInv, SeenInv, FlagInv, RouterIsSet,
              SnapshotIsCurrent
<1>7. CASE Publish(w)
  <2>1. TypeOK'
    <3>1. context[w] \in [global_context : Contexts \cup {Null},
                          thread_context : Contexts \cup {Null},
                          replaced_global_context : BOOLEAN]
      BY DEF IInv, TypeOK
    <3>2. /\ router' \in AllRouters \cup {Null}
          /\ global_context' \in Contexts \cup {Null}
      BY <1>7, <3>1 DEF Publish, IInv, TypeOK
    <3>3. seen' \in [Workers -> SUBSET ((AllRouters \cup {Null}) \X (Contexts \cup {Null}))]
      BY <1>7, <3>2 DEF Publish, IInv, TypeOK
    <3>4. context' \in [Workers -> [global_context : Contexts \cup {Null},
                                    thread_context : Contexts \cup {Null},
                                    replaced_global_context : BOOLEAN]]
      BY <1>7 DEF Publish, IInv, TypeOK
    <3> QED BY <1>7, <3>2, <3>3, <3>4 DEF Publish, IInv, TypeOK
  <2>2. RouterInv' /\ SeenInv' /\ FlagInv'
    BY <1>7 DEF Publish, IInv, TypeOK, RouterInv, SeenInv, FlagInv
  <2>3. RouterIsSet' /\ SnapshotIsCurrent'
    BY <1>7 DEF Publish, IInv, TypeOK, RouterInv, SeenInv, RouterIsSet,
                SnapshotIsCurrent
  <2> QED BY <2>1, <2>2, <2>3 DEF IInv
<1>8. CASE WorkerEnds(w)
  <2>1. /\ pc[w] \in {"start", "accept"} /\ pc' = [pc EXCEPT ![w] = "ended"]
        /\ context' = [context EXCEPT ![w] = NewContext]
        /\ UNCHANGED <<router, global_context, create_thread_context,
                       local_router, seen, replacing>>
    BY <1>8 DEF WorkerEnds, Goto, shared
  <2>2. NewContext \in [global_context : Contexts \cup {Null},
                        thread_context : Contexts \cup {Null},
                        replaced_global_context : BOOLEAN]
    BY DEF NewContext
  <2>3. ~NewContext.replaced_global_context
    BY DEF NewContext
  <2>4. TypeOK'
    BY <2>1, <2>2 DEF IInv, TypeOK
  <2>5. RouterInv' /\ SeenInv' /\ FlagInv'
    BY <2>1, <2>3 DEF IInv, TypeOK, RouterInv, SeenInv, FlagInv
  <2>6. RouterIsSet' /\ SnapshotIsCurrent'
    BY <2>1 DEF IInv, TypeOK, RouterIsSet, SnapshotIsCurrent
  <2> QED BY <2>4, <2>5, <2>6 DEF IInv
<1> QED BY <1>1, <1>2, <1>3, <1>4, <1>5, <1>6, <1>7, <1>8 DEF WorkerStep

LEMMA StutterKeepsIInv == ASSUME IInv, UNCHANGED vars PROVE IInv'
BY DEF vars, IInv, TypeOK, RouterInv, SeenInv, FlagInv, RouterIsSet, SnapshotIsCurrent

LEMMA NextKeepsIInv == IInv /\ [Next]_vars => IInv'
BY AppStepKeepsIInv, WorkerStepKeepsIInv, StutterKeepsIInv DEF Next

(* The inductive invariant holds in every behaviour of the workers and the *)
(* application.                                                            *)
THEOREM Inductive == Spec => []IInv
BY InitIInv, NextKeepsIInv, PTL DEF Spec

(* The router, the contexts and the workers' copies keep their types.      *)
THEOREM TypeCorrect == Spec => []TypeOK
<1>1. IInv => TypeOK
  BY DEF IInv
<1> QED BY Inductive, <1>1, PTL

(* thread_function never calls handle_request through a null router.       *)
THEOREM RouterAlwaysSet == Spec => []RouterIsSet
<1>1. IInv => RouterIsSet
  BY DEF IInv
<1> QED BY Inductive, <1>1, PTL

(* The router and global context a handler starts with were current        *)
(* together since its request came in.                                     *)
THEOREM SnapshotAlwaysCurrent == Spec => []SnapshotIsCurrent
<1>1. IInv => SnapshotIsCurrent
  BY DEF IInv
<1> QED BY Inductive, <1>1, PTL

(* A worker that is done with a request has published what its handler put *)
(* in place of the global context.                                         *)
THEOREM AllPublished == Spec => NothingLeftUnpublished
<1> DEFINE Published(w) == replacing[w] /\ pc[w] # "accept" /\ pc'[w] = "accept" =>
                               global_context' = context[w].global_context
<1>1. ASSUME IInv, AppStep, NEW w \in Workers PROVE Published(w)
  <2>1. pc'[w] = "accept" => pc[w] = "accept"
    BY <1>1 DEF AppStep, SetRouter, SetGlobalContext, SetThreadContext, AddThreads,
                IInv, TypeOK
  <2> QED BY <2>1
<1>2. ASSUME IInv, NEW v \in Workers, WorkerStep(v), NEW w \in Workers
      PROVE  Published(w)
  <2>1. CASE v # w
    BY <1>2, <2>1 DEF WorkerStep, MakeContext, Accept, Snapshot, ReplaceGlobalContext,
       ReplaceThreadContext, HandlerEnds, Publish, WorkerEnds, IInv, TypeOK
  <2>2. CASE v = w /\ Publish(w)
    BY <2>2 DEF Publish
  <2>3. CASE v = w /\ ~Publish(w)
    BY <1>2, <2>3 DEF WorkerStep, MakeContext, Accept, Snapshot, ReplaceGlobalContext,
       ReplaceThreadContext, HandlerEnds, WorkerEnds, IInv, TypeOK, FlagInv
  <2> QED BY <2>1, <2>2, <2>3
<1>3. IInv /\ [Next]_vars => [\A w \in Workers : Published(w)]_vars
  BY <1>1, <1>2 DEF Next
<1> QED BY <1>3, Inductive, PTL DEF Spec, NothingLeftUnpublished

(* A step that publishes a global context publishes what the handler of    *)
(* the same request has put there.                                         *)
THEOREM OnlyReplacementsPublished == Spec => NoStaleWriteBack
<1>1. IInv /\ [Next]_vars => [\A w \in Workers : Publish(w) => replacing[w]]_vars
  BY DEF IInv, FlagInv, Publish
<1> QED BY Inductive, <1>1, PTL DEF Spec, NoStaleWriteBack
=============================================================================
