-------------------------------- MODULE Router --------------------------------
(***************************************************************************)
(* fcgiserver::Router (src/lib/router.cpp): a tree of path components with *)
(* callbacks and sub-routers at its nodes, under one shared_mutex for each *)
(* router.  handle_request walks the tree under the shared lock, keeps it  *)
(* while a sub-router or a callback runs, and so nests; add_route and      *)
(* remove_route change the tree under the exclusive lock at any time.      *)
(* A node is named by its path from the root of its router.                *)
(***************************************************************************)
EXTENDS Naturals, Sequences, FiniteSets

CONSTANTS
    Workers,    \* the threads that handle requests
    Routers,    \* the routers of the application
    Root,       \* the router the server was given
    Endpoints,  \* what it registers: router, path, method, callback
    Mounts,     \* where it mounts routers: router, path, mounted router
    Requests,   \* the requests: route, method
    Wildcard,   \* symbols::wildcard
    Null        \* no router, no node

Here      == "CatchAllHere"
Recursive == "CatchAllRecursive"

ASSUME RootAssumption == Root \in Routers /\ IsFiniteSet(Routers)

(* No router is mounted, however deep, inside itself: handle_request would *)
(* call itself for ever.                                                   *)
ASSUME MountsAssumption ==
    \E rank \in [Routers -> 1 .. Cardinality(Routers)] :
        \A m \in Mounts : rank[m.router] < rank[m.mounted]

(* Routes are sequences of components, and only the application's routers  *)
(* are changed and mounted.                                                *)
Components == UNION {{route[i] : i \in 1 .. Len(route)} :
                       route \in {x.path : x \in Endpoints \cup Mounts}
                                 \cup {r.route : r \in Requests}}

ASSUME RoutesAssumption ==
    /\ \A x \in Endpoints \cup Mounts : x.router \in Routers /\ x.path \in Seq(Components)
    /\ \A m \in Mounts : m.mounted \in Routers
    /\ \A r \in Requests : r.route \in Seq(Components)

Prefixes(path) == {SubSeq(path, 1, n) : n \in 0 .. Len(path)}

Paths   == {<<>>} \cup UNION {Prefixes(x.path) : x \in Endpoints \cup Mounts}
Methods == {x.method : x \in Endpoints \cup Requests} \cup {Here, Recursive}

ASSUME NullAssumption == Null \notin Routers \cup Paths \cup Methods

VARIABLES
    tree,     \* RouterPrivate::route: the nodes of each router
    request,  \* what each worker handles: method, relative_route, full route
    frames,   \* its calls of handle_request, the innermost last
    answer,   \* what the innermost call has just returned, or "none"
    changed   \* history: some tree has changed since its request began

vars == <<tree, request, frames, answer, changed>>

Node   == [router |-> Null, endpoints |-> <<>>]
NoWork == [route |-> <<>>, relative |-> <<>>, method |-> Here]

Init ==
    /\ tree = [r \in Routers |-> [path \in {<<>>} |-> Node]]
    /\ request = [w \in Workers |-> NoWork]
    /\ frames = [w \in Workers |-> <<>>]
    /\ answer = [w \in Workers |-> "none"]
    /\ changed = [w \in Workers |-> FALSE]

Idle(w) == frames[w] = <<>> /\ answer[w] = "none"
Top(w)  == frames[w][Len(frames[w])]

-----------------------------------------------------------------------------
(* Changing a router.                                                      *)

(* A lock_guard waits until no handle_request is inside, in the router     *)
(* itself or in what it has called.                                        *)
Inside(w, r) == \E i \in 1 .. Len(frames[w]) :
                   frames[w][i].router = r /\ frames[w][i].at # "lock"
NoExclusion(r) == TRUE
Exclusive(r)   == \A w \in Workers : ~Inside(w, r)

(* get_or_create_subroute along the whole path.                            *)
LastNodeOnly(nodes, path) ==
    [p \in DOMAIN nodes \cup {path} |->
        IF p \in DOMAIN nodes THEN nodes[p] ELSE Node]

WithNodes(nodes, path) ==
    [p \in DOMAIN nodes \cup Prefixes(path) |->
        IF p \in DOMAIN nodes THEN nodes[p] ELSE Node]

Change(r, nodes) ==
    /\ Exclusive(r)
    /\ tree' = [tree EXCEPT ![r] = nodes]
    /\ changed' = [w \in Workers |-> ~Idle(w)]
    /\ UNCHANGED <<request, frames, answer>>

AddRouter(r, path, sub) ==
    Change(r, [WithNodes(tree[r], path) EXCEPT ![path].router = sub])

AddCallback(r, path, method, callback) ==
    LET put(e) == [m \in DOMAIN e \cup {method} |->
                     IF m = method THEN callback ELSE e[m]]
    IN  Change(r, [WithNodes(tree[r], path) EXCEPT ![path].endpoints = put(@)])

(* remove_route creates the nodes it looks for, and leaves the last one    *)
(* without router and endpoints.                                           *)
Cleared == Node

RemoveRoute(r, path) ==
    Change(r, [WithNodes(tree[r], path) EXCEPT ![path] = Cleared])

-----------------------------------------------------------------------------
(* Handling a request.                                                     *)

(* A call of handle_request: its router, the relative route it was given,  *)
(* how many components it has walked, the node it is at, the last node     *)
(* with a recursive catch-all, its route_result so far, and the callback   *)
(* it runs.                                                                *)
Call(r, route) ==
    [router |-> r, route |-> route, at |-> "lock", walked |-> 0, node |-> <<>>,
     catch |-> Null, result |-> "NotFound", running |-> Null]

HasCatchAllRecursive(r, path) == Recursive \in DOMAIN tree[r][path].endpoints

SetTop(w, frame) == frames' = [frames EXCEPT ![w][Len(frames[w])] = frame]

Begin(w) ==
    /\ Idle(w)
    /\ \E r \in Requests :
          request' = [request EXCEPT ![w] = [route |-> r.route, relative |-> r.route,
                                             method |-> r.method]]
    /\ frames' = [frames EXCEPT ![w] = <<Call(Root, request'[w].relative)>>]
    /\ changed' = [changed EXCEPT ![w] = FALSE]
    /\ UNCHANGED <<tree, answer>>

(* The shared lock; the walk starts at the root of the router.             *)
Lock(w) ==
    LET f == Top(w)
    IN  /\ ~Idle(w) /\ answer[w] = "none" /\ f.at = "lock"
        /\ SetTop(w, [f EXCEPT !.at = "node",
                               !.catch = IF HasCatchAllRecursive(f.router, <<>>)
                                         THEN <<>> ELSE Null])
        /\ UNCHANGED <<tree, request, answer, changed>>

(* A sub-router at the node is called with the rest of the route.          *)
Descend(w) ==
    LET f    == Top(w)
        sub  == tree[f.router][f.node].router
        rest == SubSeq(f.route, f.walked + 1, Len(f.route))
    IN  /\ ~Idle(w) /\ answer[w] = "none" /\ f.at = "node"
        /\ sub # Null
        /\ request' = [request EXCEPT ![w].relative = rest]
        /\ frames' = [frames EXCEPT
                        ![w] = Append(SubSeq(@, 1, Len(@) - 1), [f EXCEPT !.at = "sub"])
                               \o <<Call(sub, rest)>>]
        /\ UNCHANGED <<tree, answer, changed>>

(* The sub-router has returned: unless it handled the request the relative *)
(* route is swapped back and the walk goes on.                             *)
RouteLeft(w, f) == UNCHANGED request
SwapBack(w, f)  == request' = [request EXCEPT ![w].relative = f.route]
Kept(old, new)  == IF new # "NotFound" THEN new ELSE old

Ascend(w) ==
    LET f      == Top(w)
        result == Kept(f.result, answer[w])
    IN  /\ frames[w] # <<>> /\ f.at = "sub" /\ answer[w] # "none"
        /\ IF result = "Handled"
           THEN /\ frames' = [frames EXCEPT ![w] = SubSeq(@, 1, Len(@) - 1)]
                /\ UNCHANGED <<request, answer>>
           ELSE /\ SetTop(w, [f EXCEPT !.at = "walk", !.result = result])
                /\ SwapBack(w, f)
                /\ answer' = [answer EXCEPT ![w] = "none"]
        /\ UNCHANGED <<tree, changed>>

(* The child of a node for a component: the literal one, else the          *)
(* wildcard, else none.                                                    *)
WildcardFirst(r, node, component) ==
    IF Append(node, Wildcard) \in DOMAIN tree[r] THEN Append(node, Wildcard)
    ELSE IF Append(node, component) \in DOMAIN tree[r] THEN Append(node, component)
    ELSE Null
Child(r, node, component) ==
    IF Append(node, component) \in DOMAIN tree[r] THEN Append(node, component)
    ELSE IF Append(node, Wildcard) \in DOMAIN tree[r] THEN Append(node, Wildcard)
    ELSE Null

(* One component further; a component nobody registered ends the walk.     *)
Walk(w) ==
    LET f    == Top(w)
        next == Child(f.router, f.node, f.route[f.walked + 1])
    IN  /\ ~Idle(w) /\ answer[w] = "none"
        /\ \/ f.at = "walk"
           \/ f.at = "node" /\ tree[f.router][f.node].router = Null
        /\ f.walked < Len(f.route)
        /\ SetTop(w, IF next = Null
                     THEN [f EXCEPT !.at = "select", !.node = Null]
                     ELSE [f EXCEPT !.at = "node", !.node = next, !.walked = @ + 1,
                                    !.catch = IF HasCatchAllRecursive(f.router, next)
                                              THEN next ELSE @])
        /\ UNCHANGED <<tree, request, answer, changed>>

(* The method whose callback a node uses for a request, if it has one.     *)
Choice(endpoints, method) ==
    IF method \in DOMAIN endpoints THEN method
    ELSE IF Here \in DOMAIN endpoints THEN Here
    ELSE IF Recursive \in DOMAIN endpoints THEN Recursive
    ELSE Null

Return(w, result) ==
    /\ frames' = [frames EXCEPT ![w] = SubSeq(@, 1, Len(@) - 1)]
    /\ answer' = [answer EXCEPT ![w] = result]

Run(w, f, path, method) ==
    /\ SetTop(w, [f EXCEPT !.at = "callback",
                           !.running = [node |-> path, method |-> method,
                                        callback |-> tree[f.router][path].endpoints[method]]])
    /\ UNCHANGED answer

(* After the loop.  At the end of the route an empty node makes the result *)
(* NotFound, whatever a sub-router said; a recursive catch-all answers     *)
(* what would be NotFound.                                                 *)
Selected(r, f) ==
    IF f.node = Null THEN f.result
    ELSE IF tree[r][f.node].endpoints = <<>> THEN "NotFound"
    ELSE "InvalidMethod"

Select(w) ==
    LET f      == Top(w)
        end    == f.walked = Len(f.route) /\ f.node # Null
        method == IF f.node = Null THEN Null
                  ELSE Choice(tree[f.router][f.node].endpoints, request[w].method)
        result == Selected(f.router, f)
    IN  /\ ~Idle(w) /\ answer[w] = "none"
        /\ \/ f.at = "select"
           \/ end /\ f.at = "walk"
           \/ end /\ f.at = "node" /\ tree[f.router][f.node].router = Null
        /\ IF method # Null THEN Run(w, f, f.node, method)
           ELSE IF /\ result = "NotFound" /\ f.catch # Null
                   /\ HasCatchAllRecursive(f.router, f.catch)
                THEN Run(w, f, f.catch, Recursive)
           ELSE Return(w, result)
        /\ UNCHANGED <<tree, request, changed>>

CallbackReturns(w) ==
    /\ ~Idle(w) /\ answer[w] = "none" /\ Top(w).at = "callback"
    /\ Return(w, "Handled")
    /\ UNCHANGED <<tree, request, changed>>

(* An exception unwinds every call: the locks are released, nothing else   *)
(* is put back.                                                            *)
CallbackThrows(w) ==
    /\ ~Idle(w) /\ answer[w] = "none" /\ Top(w).at = "callback"
    /\ frames' = [frames EXCEPT ![w] = <<>>]
    /\ answer' = [answer EXCEPT ![w] = "InternalError"]
    /\ UNCHANGED <<tree, request, changed>>

(* thread_function has the result.                                         *)
Finish(w) ==
    /\ frames[w] = <<>> /\ answer[w] # "none"
    /\ answer' = [answer EXCEPT ![w] = "none"]
    /\ request' = [request EXCEPT ![w] = NoWork]
    /\ changed' = [changed EXCEPT ![w] = FALSE]
    /\ UNCHANGED <<tree, frames>>

AppStep ==
    \/ \E m \in Mounts : AddRouter(m.router, m.path, m.mounted)
    \/ \E e \in Endpoints : AddCallback(e.router, e.path, e.method, e.callback)
    \/ \E place \in {<<x.router, x.path>> : x \in Endpoints \cup Mounts} :
          RemoveRoute(place[1], place[2])

WorkerStep(w) ==
    \/ Begin(w)
    \/ Lock(w)
    \/ Descend(w)
    \/ Ascend(w)
    \/ Walk(w)
    \/ Select(w)
    \/ CallbackReturns(w)
    \/ CallbackThrows(w)
    \/ Finish(w)

Next == AppStep \/ \E w \in Workers : WorkerStep(w)

Spec == Init /\ [][Next]_vars

-----------------------------------------------------------------------------
(* Reference: which callback a request belongs to in the trees t, without  *)
(* a walk.                                                                 *)

Rest(route, n) == SubSeq(route, n + 1, Len(route))

(* A node lies on a route when its path spells the beginning of the route, *)
(* with a wildcard only where no literal node was registered beside it.    *)
OnRoute(nodes, route) ==
    {path \in DOMAIN nodes :
        /\ Len(path) <= Len(route)
        /\ \A i \in 1 .. Len(path) :
              LET literal == Append(SubSeq(path, 1, i - 1), route[i])
              IN  \/ path[i] = route[i]
                  \/ path[i] = Wildcard /\ literal \notin DOMAIN nodes}

Handled(r, path, method) == [result |-> "Handled", router |-> r, node |-> path, method |-> method]
Refused(result) == [result |-> result, router |-> Null, node |-> Null, method |-> Null]

Shallowest(paths) == CHOOSE p \in paths : \A q \in paths : Len(p) <= Len(q)
Deepest(paths)    == CHOOSE p \in paths : \A q \in paths : Len(p) >= Len(q)

Suffixes == UNION {{Rest(r.route, n) : n \in 0 .. Len(r.route)} : r \in Requests}

(* A mounted router that handles the request comes first, the shallowest   *)
(* of them; then the node the route ends at; then, for what nobody claims, *)
(* the deepest recursive catch-all on the way.  That a sub-router refuses  *)
(* the method counts only for a route that ends at no node.  outcome says  *)
(* what becomes of the request in the sub-routers.                         *)
Expected(t, outcome, r, route, method) ==
    LET on       == OnRoute(t[r], route)
        ends     == {p \in on : Len(p) = Len(route)}
        node(p)  == t[r][p]
        mounted  == {p \in on : node(p).router # Null}
        sub(p)   == outcome[<<node(p).router, Rest(route, Len(p))>>]
        handling == {p \in mounted : sub(p).result = "Handled"}
        refusing == {p \in mounted : sub(p).result = "InvalidMethod"}
        methods  == {method, Here, Recursive}
        chosen   == {p \in ends : methods \cap DOMAIN node(p).endpoints # {}}
        catching == {p \in on : Recursive \in DOMAIN node(p).endpoints}
    IN  IF handling # {} THEN sub(Shallowest(handling))
        ELSE IF chosen # {}
             THEN LET p == CHOOSE p \in chosen : TRUE
                  IN  Handled(r, p, Choice(node(p).endpoints, method))
        ELSE IF \E p \in ends : node(p).endpoints # <<>> THEN Refused("InvalidMethod")
        ELSE IF refusing # {} /\ ends = {} THEN Refused("InvalidMethod")
        ELSE IF catching # {} THEN Handled(r, Deepest(catching), Recursive)
        ELSE Refused("NotFound")

Reference(t, method) ==
    LET outcome[call \in Routers \X Suffixes] ==
            Expected(t, outcome, call[1], call[2], method)
    IN  outcome

-----------------------------------------------------------------------------
(* Correctness.                                                            *)

Results == {"Handled", "NotFound", "InvalidMethod", "InternalError"}

TypeOK ==
    /\ DOMAIN tree = Routers
    /\ \A r \in Routers :
          /\ <<>> \in DOMAIN tree[r]
          /\ DOMAIN tree[r] \subseteq Paths
          /\ \A path \in DOMAIN tree[r] :
                /\ Prefixes(path) \subseteq DOMAIN tree[r]
                /\ tree[r][path].router \in Routers \cup {Null}
                /\ DOMAIN tree[r][path].endpoints \subseteq Methods
    /\ answer \in [Workers -> Results \cup {"none"}]
    /\ changed \in [Workers -> BOOLEAN]
    /\ \A w \in Workers : \A i \in 1 .. Len(frames[w]) :
          /\ frames[w][i].router \in Routers
          /\ frames[w][i].walked \in 0 .. Len(frames[w][i].route)
          /\ frames[w][i].node \in Paths \cup {Null}
          /\ frames[w][i].result \in Results

(* As long as nobody changes a router in between, a request ends up where  *)
(* the reference says, through any nesting of routers: at that callback,   *)
(* or with that refusal.                                                   *)
DispatchIsReference ==
    \A w \in Workers :
        ~Idle(w) /\ ~changed[w] =>
            LET expected == Reference(tree, request[w].method)[<<Root, request[w].route>>]
            IN  IF frames[w] = <<>>
                THEN answer[w] \in {"InternalError", expected.result}
                ELSE LET f == Top(w) IN
                     f.at = "callback" =>
                         expected = Handled(f.router, f.running.node, f.running.method)

(* A callback finds in relative_route what its own router was given, and a *)
(* router what is left of the route behind the node it is mounted at: what *)
(* the sub-routers tried before have left there is taken back.             *)
RelativeRouteFits ==
    \A w \in Workers : frames[w] # <<>> =>
        /\ answer[w] = "none" => request[w].relative = Top(w).route
        /\ \A i \in 2 .. Len(frames[w]) :
              frames[w][i].route = Rest(frames[w][i - 1].route, frames[w][i - 1].walked)

(* add_route and remove_route never take away what is in use: a callback   *)
(* that runs is still the registered one (its std::function is neither     *)
(* destroyed nor assigned to), and a router that is inside a request is    *)
(* still mounted where it was called from.                                 *)
NothingInUseIsRemoved ==
    \A w \in Workers : \A i \in 1 .. Len(frames[w]) :
        LET f == frames[w][i]
        IN  /\ f.at = "callback" =>
                  /\ f.running.method \in DOMAIN tree[f.router][f.running.node].endpoints
                  /\ tree[f.router][f.running.node].endpoints[f.running.method]
                         = f.running.callback
            /\ f.at = "sub" /\ i < Len(frames[w]) =>
                  tree[f.router][f.node].router = frames[w][i + 1].router
=============================================================================
