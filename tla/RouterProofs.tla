----------------------------- MODULE RouterProofs -----------------------------
(***************************************************************************)
(* For any routers, routes, requests and workers: what a request is using  *)
(* stays registered, since a change waits for the shared locks that the    *)
(* calls on the stack hold, and every call has the route that belongs to   *)
(* it.  The invariant is about the stack of calls of each worker; the      *)
(* lemmas say what setting its top, pushing and popping keep.              *)
(*                                                                         *)
(* The last part is about dispatch: a request that nobody disturbs ends up *)
(* at the callback, or with the refusal, that Reference says.  Reference   *)
(* is recursive over routers that are mounted in each other; that it has   *)
(* the values of its definition is proved first, with the order of the     *)
(* natural numbers for an induction.                                       *)
(***************************************************************************)
EXTENDS Router, TLAPS, SequenceTheorems, WellFoundedInduction, FiniteSetTheorems

Callbacks == {e.callback : e \in Endpoints}

Nodes == [router : Routers \cup {Null},
          endpoints : UNION {[M -> Callbacks] : M \in SUBSET Methods}]

(* The trees: a node for every prefix of a path that has one.              *)
Closed(nodes) == /\ <<>> \in DOMAIN nodes
                 /\ \A path \in DOMAIN nodes : Prefixes(path) \subseteq DOMAIN nodes

NodeMaps == {nodes \in UNION {[P -> Nodes] : P \in SUBSET Paths} : Closed(nodes)}

Frames == [router : Routers, route : Seq(Components),
           at : {"lock", "node", "walk", "sub", "select", "callback"},
           walked : Nat, node : Paths \cup {Null}, catch : Paths \cup {Null},
           result : Results,
           running : [node : Paths, method : Methods, callback : Callbacks] \cup {Null}]

(* One call: it is at a node that exists, and the callback it runs is      *)
(* registered where it found it.                                           *)
FrameOK(t, f) ==
    /\ f \in Frames
    /\ f.walked <= Len(f.route)
    /\ f.at = "lock" => f.node = <<>>
    /\ f.at \in {"node", "walk", "sub"} => f.node \in DOMAIN t[f.router]
    /\ f.at = "select" => f.node = Null
    /\ f.at # "lock" /\ f.catch # Null => f.catch \in DOMAIN t[f.router]
    /\ f.at = "callback" =>
          LET e == t[f.router][f.running.node].endpoints
          IN  /\ f.running.method \in DOMAIN e
              /\ e[f.running.method] = f.running.callback

(* One call made by another.                                               *)
LinkOK(t, f, g) ==
    /\ g.route = Rest(f.route, f.walked)
    /\ f.at = "sub" => t[f.router][f.node].router = g.router

StackOK(t, s) ==
    /\ s \in Seq(Frames)
    /\ \A i \in 1 .. Len(s) : FrameOK(t, s[i])
    /\ \A i \in 2 .. Len(s) : LinkOK(t, s[i - 1], s[i])

Works == [route : Seq(Components), relative : Seq(Components), method : Methods]

IInv ==
    /\ tree \in [Routers -> NodeMaps]
    /\ request \in [Workers -> Works]
    /\ frames \in [Workers -> Seq(Frames)]
    /\ answer \in [Workers -> Results \cup {"none"}]
    /\ changed \in [Workers -> BOOLEAN]
    /\ \A w \in Workers :
          /\ StackOK(tree, frames[w])
          /\ frames[w] # <<>> /\ answer[w] = "none" => request[w].relative = Top(w).route

-----------------------------------------------------------------------------
(* The stack.                                                              *)

LEMMA Below ==
    ASSUME NEW S, NEW s \in Seq(S), s # <<>>
    PROVE  LET q == SubSeq(s, 1, Len(s) - 1)
           IN  /\ Len(s) \in Nat \ {0} /\ q \in Seq(S) /\ Len(q) = Len(s) - 1
               /\ \A i \in 1 .. Len(s) - 1 : q[i] = s[i]
<1>1. Len(s) \in Nat \ {0} /\ \A i \in 1 .. Len(s) - 1 : s[i] \in S
  OBVIOUS
<1> DEFINE n == Len(s) - 1
<1>2. 1 \in Int /\ n \in Int /\ n >= 0
  BY <1>1
<1> HIDE DEF n
<1>3. /\ SubSeq(s, 1, n) \in Seq(S)
      /\ Len(SubSeq(s, 1, n)) = IF 1 <= n THEN n - 1 + 1 ELSE 0
      /\ \A i \in 1 .. n - 1 + 1 : SubSeq(s, 1, n)[i] = s[1 + i - 1]
  <2>1. \A i \in 1 .. n : s[i] \in S
    BY <1>1 DEF n
  <2> QED BY <1>2, <2>1, SubSeqProperties
<1>4. Len(SubSeq(s, 1, n)) = n /\ \A i \in 1 .. n : SubSeq(s, 1, n)[i] = s[i]
  BY <1>2, <1>3
<1> QED BY <1>1, <1>3, <1>4 DEF n

(* A call returns.                                                         *)
LEMMA PopKeeps ==
    ASSUME NEW t, NEW s, StackOK(t, s), s # <<>>
    PROVE  StackOK(t, SubSeq(s, 1, Len(s) - 1))
<1> DEFINE q == SubSeq(s, 1, Len(s) - 1)
<1>1. s \in Seq(Frames)
  BY DEF StackOK
<1>2. /\ Len(s) \in Nat \ {0} /\ q \in Seq(Frames) /\ Len(q) = Len(s) - 1
      /\ \A i \in 1 .. Len(q) : q[i] = s[i]
  BY <1>1, Below
<1> HIDE DEF q
<1>3. \A i \in 1 .. Len(q) : FrameOK(t, q[i])
  BY <1>1, <1>2 DEF StackOK
<1>4. \A i \in 2 .. Len(q) : LinkOK(t, q[i - 1], q[i])
  <2> TAKE i \in 2 .. Len(q)
  <2>1. i \in 2 .. Len(s) /\ i \in 1 .. Len(q) /\ i - 1 \in 1 .. Len(q)
    BY <1>2
  <2>2. LinkOK(t, s[i - 1], s[i])
    BY <2>1 DEF StackOK
  <2> QED BY <1>2, <2>1, <2>2
<1> QED BY <1>2, <1>3, <1>4 DEF StackOK

(* The innermost call goes on, with its router and its route.              *)
LEMMA SetTopKeeps ==
    ASSUME NEW t, NEW s, StackOK(t, s), s # <<>>, NEW f, FrameOK(t, f),
           f.route = s[Len(s)].route, f.router = s[Len(s)].router
    PROVE  StackOK(t, [s EXCEPT ![Len(s)] = f])
<1> DEFINE n == Len(s)
           q == [s EXCEPT ![n] = f]
<1>1. s \in Seq(Frames) /\ n \in Nat \ {0} /\ f \in Frames
  <2>1. s \in Seq(Frames)
    BY DEF StackOK
  <2>2. f \in Frames
    BY DEF FrameOK
  <2> QED BY <2>1, <2>2
<1>2. q \in Seq(Frames) /\ Len(q) = n /\ q[n] = f /\ \A i \in 1 .. n - 1 : q[i] = s[i]
  BY <1>1
<1> HIDE DEF q
<1>3. \A i \in 1 .. n : FrameOK(t, q[i])
  <2> TAKE i \in 1 .. n
  <2>1. CASE i = n
    BY <2>1, <1>2
  <2>2. CASE i # n
    <3>1. i \in 1 .. n - 1
      BY <2>2, <1>1
    <3> QED BY <3>1, <1>2 DEF StackOK
  <2> QED BY <2>1, <2>2
<1>4. \A i \in 2 .. n : LinkOK(t, q[i - 1], q[i])
  <2> TAKE i \in 2 .. n
  <2>1. q[i - 1] = s[i - 1] /\ LinkOK(t, s[i - 1], s[i])
    <3>1. i - 1 \in 1 .. n - 1 /\ i \in 2 .. Len(s)
      BY <1>1
    <3> QED BY <3>1, <1>2 DEF StackOK
  <2>2. q[i].route = s[i].route /\ q[i].router = s[i].router
    <3>1. CASE i = n
      BY <3>1, <1>2
    <3>2. CASE i # n
      <4>1. i \in 1 .. n - 1
        BY <3>2, <1>1
      <4> QED BY <4>1, <1>2
    <3> QED BY <3>1, <3>2
  <2> QED BY <2>1, <2>2 DEF LinkOK
<1> QED BY <1>2, <1>3, <1>4 DEF StackOK, q

(* The innermost call becomes f, and calls g.                              *)
Push(s, f, g) == Append(SubSeq(s, 1, Len(s) - 1), f) \o <<g>>

LEMMA Pushed ==
    ASSUME NEW S, NEW s \in Seq(S), s # <<>>, NEW f \in S, NEW g \in S
    PROVE  /\ Push(s, f, g) \in Seq(S) /\ Len(Push(s, f, g)) = Len(s) + 1
           /\ Push(s, f, g)[Len(s) + 1] = g /\ Push(s, f, g)[Len(s)] = f
           /\ \A i \in 1 .. Len(s) - 1 : Push(s, f, g)[i] = s[i]
<1> DEFINE n == Len(s)
           a == SubSeq(s, 1, n - 1)
           b == Append(a, f)
           q == Push(s, f, g)
<1>1. n \in Nat \ {0} /\ a \in Seq(S) /\ Len(a) = n - 1 /\ \A i \in 1 .. n - 1 : a[i] = s[i]
  BY Below
<1>2. b \in Seq(S) /\ Len(b) = n /\ b[n] = f /\ \A i \in 1 .. n - 1 : b[i] = a[i]
  BY <1>1
<1> HIDE DEF a, b
<1>3. b \o <<g>> \in Seq(S) /\ Len(b \o <<g>>) = n + 1 /\ (b \o <<g>>)[n + 1] = g
      /\ \A i \in 1 .. n : (b \o <<g>>)[i] = b[i]
  BY <1>1, <1>2
<1>4. b \o <<g>> = q
  BY DEF a, b, Push
<1> HIDE DEF q
<1>5. q \in Seq(S) /\ Len(q) = n + 1 /\ q[n + 1] = g /\ \A i \in 1 .. n : q[i] = b[i]
  BY <1>3, <1>4
<1>6. q[n] = f
  BY <1>1, <1>2, <1>5
<1>7. \A i \in 1 .. n - 1 : q[i] = s[i]
  BY <1>1, <1>2, <1>5
<1> QED BY <1>5, <1>6, <1>7 DEF q

(* The innermost call makes another, with the rest of its route.           *)
LEMMA PushKeeps ==
    ASSUME NEW t, NEW s, StackOK(t, s), s # <<>>, NEW f, FrameOK(t, f),
           f.route = s[Len(s)].route, f.router = s[Len(s)].router,
           NEW g, FrameOK(t, g), LinkOK(t, f, g)
    PROVE  StackOK(t, Push(s, f, g))
<1> DEFINE n == Len(s)
           p == [s EXCEPT ![n] = f]
           q == Push(s, f, g)
<1>1. s \in Seq(Frames) /\ n \in Nat \ {0} /\ f \in Frames /\ g \in Frames
  <2>1. s \in Seq(Frames)
    BY DEF StackOK
  <2>2. f \in Frames /\ g \in Frames
    BY DEF FrameOK
  <2> QED BY <2>1, <2>2
<1>2. p \in Seq(Frames) /\ Len(p) = n /\ p[n] = f /\ \A i \in 1 .. n - 1 : p[i] = s[i]
  BY <1>1
<1>3. StackOK(t, p)
  BY SetTopKeeps
<1>4. q \in Seq(Frames) /\ Len(q) = n + 1 /\ q[n + 1] = g /\ q[n] = f
      /\ \A i \in 1 .. n - 1 : q[i] = s[i]
  BY <1>1, Pushed
<1> HIDE DEF p, q
<1>5. \A i \in 1 .. n : q[i] = p[i]
  BY <1>1, <1>2, <1>4
<1>6. \A i \in 1 .. n + 1 : FrameOK(t, q[i])
  <2> TAKE i \in 1 .. n + 1
  <2>1. CASE i = n + 1
    BY <2>1, <1>4
  <2>2. CASE i # n + 1
    <3>1. i \in 1 .. n
      BY <2>2, <1>1
    <3> QED BY <3>1, <1>2, <1>3, <1>5 DEF StackOK
  <2> QED BY <2>1, <2>2
<1>7. \A i \in 2 .. n + 1 : LinkOK(t, q[i - 1], q[i])
  <2> TAKE i \in 2 .. n + 1
  <2>1. CASE i = n + 1
    BY <2>1, <1>1, <1>4
  <2>2. CASE i # n + 1
    <3>1. i \in 2 .. n /\ i - 1 \in 1 .. n /\ i \in 1 .. n
      BY <2>2, <1>1
    <3> QED BY <3>1, <1>2, <1>3, <1>5 DEF StackOK
  <2> QED BY <2>1, <2>2
<1> QED BY <1>4, <1>6, <1>7 DEF StackOK, q
-----------------------------------------------------------------------------
(* The trees.                                                              *)

LEMMA PrefixOfPrefix ==
    ASSUME NEW S, NEW path \in Seq(S), NEW p \in Prefixes(path)
    PROVE  /\ p \in Seq(S) /\ <<>> \in Prefixes(p) /\ p \in Prefixes(p)
           /\ Prefixes(p) \subseteq Prefixes(path)
<1>1. PICK n \in 0 .. Len(path) : p = SubSeq(path, 1, n)
  BY DEF Prefixes
<1>2. n \in Nat /\ \A i \in 1 .. n : path[i] \in S
  BY <1>1
<1>3. p \in Seq(S) /\ Len(p) = n /\ \A i \in 1 .. n : p[i] = path[i]
  <2>1. /\ SubSeq(path, 1, n) \in Seq(S)
        /\ Len(SubSeq(path, 1, n)) = IF 1 <= n THEN n - 1 + 1 ELSE 0
        /\ \A i \in 1 .. n - 1 + 1 : SubSeq(path, 1, n)[i] = path[1 + i - 1]
    BY <1>2, SubSeqProperties
  <2> QED BY <1>1, <1>2, <2>1
<1>4. \A m \in 0 .. n : SubSeq(p, 1, m) = SubSeq(path, 1, m)
  <2> TAKE m \in 0 .. n
  <2>1. SubSeq(p, 1, m) \in Seq(S) /\ Len(SubSeq(p, 1, m)) = m
        /\ \A i \in 1 .. m : SubSeq(p, 1, m)[i] = p[i]
    <3>1. m \in Int /\ \A i \in 1 .. m : p[i] \in S
      BY <1>2, <1>3
    <3>2. /\ SubSeq(p, 1, m) \in Seq(S)
          /\ Len(SubSeq(p, 1, m)) = IF 1 <= m THEN m - 1 + 1 ELSE 0
          /\ \A i \in 1 .. m - 1 + 1 : SubSeq(p, 1, m)[i] = p[1 + i - 1]
      BY <3>1, SubSeqProperties
    <3> QED BY <3>1, <3>2
  <2>2. SubSeq(path, 1, m) \in Seq(S) /\ Len(SubSeq(path, 1, m)) = m
        /\ \A i \in 1 .. m : SubSeq(path, 1, m)[i] = path[i]
    <3>1. m \in Int /\ \A i \in 1 .. m : path[i] \in S
      BY <1>2
    <3>2. /\ SubSeq(path, 1, m) \in Seq(S)
          /\ Len(SubSeq(path, 1, m)) = IF 1 <= m THEN m - 1 + 1 ELSE 0
          /\ \A i \in 1 .. m - 1 + 1 : SubSeq(path, 1, m)[i] = path[1 + i - 1]
      BY <3>1, SubSeqProperties
    <3> QED BY <3>1, <3>2
  <2>3. \A i \in 1 .. m : SubSeq(p, 1, m)[i] = SubSeq(path, 1, m)[i]
    BY <1>2, <1>3, <2>1, <2>2
  <2> QED BY <2>1, <2>2, <2>3, SeqEqual
<1>5. Prefixes(p) \subseteq Prefixes(path)
  BY <1>1, <1>2, <1>3, <1>4 DEF Prefixes
<1>6. SubSeq(p, 1, 0) = <<>> /\ SubSeq(p, 1, n) = p
  BY <1>3, SubSeqEmpty, SubSeqFull
<1>7. <<>> \in Prefixes(p) /\ p \in Prefixes(p)
  <2>1. 0 \in 0 .. Len(p) /\ n \in 0 .. Len(p)
    BY <1>2, <1>3
  <2>2. SubSeq(p, 1, 0) \in Prefixes(p) /\ SubSeq(p, 1, n) \in Prefixes(p)
    BY <2>1 DEF Prefixes
  <2> QED BY <1>6, <2>2
<1> QED BY <1>3, <1>5, <1>7

LEMMA NodeIsNode == Node \in Nodes
<1>1. <<>> \in [{} -> Callbacks]
  OBVIOUS
<1> QED BY <1>1 DEF Node, Nodes

(* A registered path, and what it leads through, may be in a tree.         *)
LEMMA RegisteredPaths ==
    ASSUME NEW x \in Endpoints \cup Mounts
    PROVE  Prefixes(x.path) \subseteq Paths /\ x.path \in Seq(Components)
BY RoutesAssumption DEF Paths

(* get_or_create_subroute keeps what is there.                             *)
LEMMA WithNodesKeeps ==
    ASSUME NEW nodes \in NodeMaps, NEW path \in Seq(Components), Prefixes(path) \subseteq Paths
    PROVE  WithNodes(nodes, path) \in NodeMaps /\ path \in DOMAIN WithNodes(nodes, path)
<1> DEFINE P == DOMAIN nodes \cup Prefixes(path)
           q == WithNodes(nodes, path)
<1>1. nodes \in [DOMAIN nodes -> Nodes] /\ DOMAIN nodes \subseteq Paths /\ Closed(nodes)
  BY DEF NodeMaps
<1>2. q \in [P -> Nodes] /\ P \in SUBSET Paths
  BY <1>1, NodeIsNode DEF WithNodes
<1>3. Closed(q)
  <2>1. \A p \in Prefixes(path) : Prefixes(p) \subseteq Prefixes(path)
    BY PrefixOfPrefix
  <2> QED BY <1>1, <1>2, <2>1 DEF Closed
<1>4. path \in Prefixes(path)
  <2>1. SubSeq(path, 1, Len(path)) = path /\ Len(path) \in 0 .. Len(path)
    BY SubSeqFull
  <2> QED BY <2>1 DEF Prefixes
<1> QED BY <1>2, <1>3, <1>4 DEF NodeMaps

LEMMA PutKeeps ==
    ASSUME NEW nodes \in NodeMaps, NEW path \in DOMAIN nodes, NEW node \in Nodes
    PROVE  [nodes EXCEPT ![path] = node] \in NodeMaps
<1> DEFINE q == [nodes EXCEPT ![path] = node]
<1>1. nodes \in [DOMAIN nodes -> Nodes] /\ DOMAIN nodes \in SUBSET Paths /\ Closed(nodes)
  BY DEF NodeMaps
<1>2. q \in [DOMAIN nodes -> Nodes] /\ DOMAIN q = DOMAIN nodes
  BY <1>1
<1>3. Closed(q)
  BY <1>1, <1>2 DEF Closed
<1> QED BY <1>1, <1>2, <1>3 DEF NodeMaps

(* Nobody inside the router notices a change of it, and the others have    *)
(* their own trees.                                                        *)
LEMMA ChangeKeeps ==
    ASSUME IInv, NEW r \in Routers, NEW nodes \in NodeMaps, Change(r, nodes)
    PROVE  IInv'
<1>1. tree' \in [Routers -> NodeMaps] /\ tree' = [tree EXCEPT ![r] = nodes]
  BY DEF IInv, Change
<1>2. UNCHANGED <<request, frames, answer>> /\ changed' \in [Workers -> BOOLEAN]
  BY DEF Change
<1>3. ASSUME NEW w \in Workers PROVE StackOK(tree', frames[w])
  <2>1. StackOK(tree, frames[w])
    BY DEF IInv
  <2>2. ASSUME NEW i \in 1 .. Len(frames[w]), frames[w][i].at # "lock"
        PROVE  tree'[frames[w][i].router] = tree[frames[w][i].router]
    <3>1. frames[w][i].router # r
      BY <2>2 DEF Change, Exclusive, Inside
    <3>2. frames[w][i].router \in Routers
      BY <2>1 DEF StackOK, FrameOK, Frames
    <3> QED BY <3>1, <3>2, <1>1 DEF IInv
  <2>3. ASSUME NEW i \in 1 .. Len(frames[w]) PROVE FrameOK(tree', frames[w][i])
    <3>1. FrameOK(tree, frames[w][i])
      BY <2>1 DEF StackOK
    <3>2. CASE frames[w][i].at = "lock"
      BY <3>1, <3>2 DEF FrameOK
    <3>3. CASE frames[w][i].at # "lock"
      BY <3>1, <3>3, <2>2 DEF FrameOK
    <3> QED BY <3>2, <3>3
  <2>4. ASSUME NEW i \in 2 .. Len(frames[w])
        PROVE  LinkOK(tree', frames[w][i - 1], frames[w][i])
    <3>1. LinkOK(tree, frames[w][i - 1], frames[w][i]) /\ i - 1 \in 1 .. Len(frames[w])
      BY <2>1 DEF StackOK
    <3> QED BY <3>1, <2>2 DEF LinkOK
  <2> QED BY <2>1, <2>3, <2>4 DEF StackOK
<1> QED BY <1>1, <1>2, <1>3 DEF IInv, Top

LEMMA AppStepKeeps == ASSUME IInv, AppStep PROVE IInv'
<1>1. ASSUME NEW m \in Mounts, AddRouter(m.router, m.path, m.mounted) PROVE IInv'
  <2> DEFINE q == WithNodes(tree[m.router], m.path)
  <2>1. m.router \in Routers /\ m.mounted \in Routers /\ tree[m.router] \in NodeMaps
    BY RoutesAssumption DEF IInv
  <2>2. q \in NodeMaps /\ m.path \in DOMAIN q
    BY <2>1, RegisteredPaths, WithNodesKeeps
  <2> HIDE DEF q
  <2>3. q[m.path] \in Nodes
    BY <2>2 DEF NodeMaps
  <2>4. [q[m.path] EXCEPT !.router = m.mounted] \in Nodes
    BY <2>1, <2>3 DEF Nodes
  <2>5. [q EXCEPT ![m.path] = [q[m.path] EXCEPT !.router = m.mounted]] \in NodeMaps
    BY <2>2, <2>4, PutKeeps
  <2>6. [q EXCEPT ![m.path].router = m.mounted] \in NodeMaps
    BY <2>5
  <2>7. Change(m.router, [q EXCEPT ![m.path].router = m.mounted])
    BY <1>1 DEF AddRouter, q
  <2> QED BY <2>1, <2>6, <2>7, ChangeKeeps
<1>2. ASSUME NEW e \in Endpoints, AddCallback(e.router, e.path, e.method, e.callback)
      PROVE  IInv'
  <2> DEFINE q == WithNodes(tree[e.router], e.path)
             old == q[e.path].endpoints
             new == [m \in DOMAIN old \cup {e.method} |->
                       IF m = e.method THEN e.callback ELSE old[m]]
  <2>1. e.router \in Routers /\ e.method \in Methods /\ tree[e.router] \in NodeMaps
        /\ e.callback \in Callbacks
    BY RoutesAssumption DEF IInv, Methods, Callbacks
  <2>2. q \in NodeMaps /\ e.path \in DOMAIN q
    BY <2>1, RegisteredPaths, WithNodesKeeps
  <2> HIDE DEF q
  <2>3. q[e.path] \in Nodes
    BY <2>2 DEF NodeMaps
  <2>4. DOMAIN old \in SUBSET Methods /\ old \in [DOMAIN old -> Callbacks]
    BY <2>3 DEF Nodes
  <2>5. new \in [DOMAIN old \cup {e.method} -> Callbacks]
    BY <2>1, <2>4
  <2> HIDE DEF old, new
  <2>6. [q[e.path] EXCEPT !.endpoints = new] \in Nodes
    BY <2>1, <2>3, <2>4, <2>5 DEF Nodes
  <2>7. [q EXCEPT ![e.path] = [q[e.path] EXCEPT !.endpoints = new]] \in NodeMaps
    BY <2>2, <2>6, PutKeeps
  <2>8. [q EXCEPT ![e.path].endpoints = new] \in NodeMaps
    BY <2>7
  <2>9. Change(e.router, [q EXCEPT ![e.path].endpoints = new])
    BY <1>2 DEF AddCallback, q, old, new
  <2> QED BY <2>1, <2>8, <2>9, ChangeKeeps
<1>3. ASSUME NEW x \in Endpoints \cup Mounts, RemoveRoute(x.router, x.path) PROVE IInv'
  <2> DEFINE q == WithNodes(tree[x.router], x.path)
  <2>1. x.router \in Routers /\ tree[x.router] \in NodeMaps
    BY RoutesAssumption DEF IInv
  <2>2. q \in NodeMaps /\ x.path \in DOMAIN q
    BY <2>1, RegisteredPaths, WithNodesKeeps
  <2> HIDE DEF q
  <2>3. [q EXCEPT ![x.path] = Cleared] \in NodeMaps
    BY <2>2, PutKeeps, NodeIsNode DEF Cleared
  <2>4. Change(x.router, [q EXCEPT ![x.path] = Cleared])
    BY <1>3 DEF RemoveRoute, q
  <2> QED BY <2>1, <2>3, <2>4, ChangeKeeps
<1> QED BY <1>1, <1>2, <1>3 DEF AppStep
-----------------------------------------------------------------------------
(* The workers.                                                            *)

(* What a step of one worker has to show.                                  *)
Fits(work, s, said) == s # <<>> /\ said = "none" => work.relative = s[Len(s)].route

LEMMA StepKeeps ==
    ASSUME IInv, NEW w \in Workers, UNCHANGED tree,
           NEW s, StackOK(tree, s), frames' = [frames EXCEPT ![w] = s],
           NEW work \in Works, request' = [request EXCEPT ![w] = work],
           NEW said \in Results \cup {"none"}, answer' = [answer EXCEPT ![w] = said],
           changed' \in [Workers -> BOOLEAN],
           Fits(work, s, said)
    PROVE  IInv'
<1>1. s \in Seq(Frames)
  BY DEF StackOK
<1>2. /\ tree' \in [Routers -> NodeMaps] /\ request' \in [Workers -> Works]
      /\ frames' \in [Workers -> Seq(Frames)] /\ answer' \in [Workers -> Results \cup {"none"}]
  BY <1>1 DEF IInv
<1>3. ASSUME NEW u \in Workers
      PROVE  /\ StackOK(tree', frames'[u])
             /\ frames'[u] # <<>> /\ answer'[u] = "none" =>
                   request'[u].relative = frames'[u][Len(frames'[u])].route
  <2>1. CASE u = w
    <3>1. frames'[u] = s /\ request'[u] = work /\ answer'[u] = said
      BY <2>1 DEF IInv
    <3> QED BY <3>1 DEF Fits
  <2>2. CASE u # w
    <3>1. frames'[u] = frames[u] /\ request'[u] = request[u] /\ answer'[u] = answer[u]
      BY <2>2 DEF IInv
    <3> QED BY <3>1 DEF IInv, Top
  <2> QED BY <2>1, <2>2
<1> QED BY <1>2, <1>3 DEF IInv, Top

(* The innermost call goes on, and the request stays as it is.             *)
LEMMA TopStepKeeps ==
    ASSUME IInv, NEW w \in Workers, frames[w] # <<>>, answer[w] = "none",
           NEW f, FrameOK(tree, f), f.route = Top(w).route, f.router = Top(w).router,
           SetTop(w, f), UNCHANGED <<tree, request, answer, changed>>
    PROVE  IInv'
<1> DEFINE s == [frames[w] EXCEPT ![Len(frames[w])] = f]
<1>1. StackOK(tree, frames[w]) /\ frames[w] \in Seq(Frames) /\ f \in Frames
  BY DEF IInv, FrameOK
<1>2. StackOK(tree, s)
  BY <1>1, SetTopKeeps DEF Top
<1>3. frames' = [frames EXCEPT ![w] = s]
  BY DEF SetTop
<1>4. s[Len(s)].route = Top(w).route
  <2>1. Len(s) = Len(frames[w]) /\ s[Len(s)] = f
    BY <1>1
  <2> QED BY <2>1
<1>5. request[w].relative = Top(w).route
  BY DEF IInv
<1>6. /\ request' = [request EXCEPT ![w] = request[w]] /\ request[w] \in Works
      /\ answer' = [answer EXCEPT ![w] = "none"]
      /\ changed' \in [Workers -> BOOLEAN] /\ UNCHANGED tree
  BY DEF IInv
<1>7. Fits(request[w], s, "none")
  BY <1>4, <1>5 DEF Fits
<1>8. "none" \in Results \cup {"none"}
  OBVIOUS
<1> HIDE DEF s
<1> QED BY <1>2, <1>3, <1>6, <1>7, <1>8, StepKeeps

(* The innermost call returns.                                             *)
LEMMA ReturnKeeps ==
    ASSUME IInv, NEW w \in Workers, frames[w] # <<>>,
           NEW result \in Results, Return(w, result), UNCHANGED <<tree, request, changed>>
    PROVE  IInv'
<1> DEFINE s == SubSeq(frames[w], 1, Len(frames[w]) - 1)
<1>1. StackOK(tree, s)
  BY PopKeeps DEF IInv
<1>2. frames' = [frames EXCEPT ![w] = s] /\ answer' = [answer EXCEPT ![w] = result]
  BY DEF Return
<1>3. /\ request' = [request EXCEPT ![w] = request[w]] /\ request[w] \in Works
      /\ changed' \in [Workers -> BOOLEAN] /\ result # "none"
  BY DEF IInv, Results
<1>4. Fits(request[w], s, result)
  BY <1>3 DEF Fits
<1> HIDE DEF s
<1> QED BY <1>1, <1>2, <1>3, <1>4, StepKeeps

(* The innermost call and the node it is at.                               *)
LEMMA TopIsOK ==
    ASSUME IInv, NEW w \in Workers, frames[w] # <<>>
    PROVE  /\ FrameOK(tree, Top(w)) /\ Top(w) \in Frames /\ request[w] \in Works
           /\ tree[Top(w).router] \in [DOMAIN tree[Top(w).router] -> Nodes]
           /\ DOMAIN tree[Top(w).router] \subseteq Paths
           /\ <<>> \in DOMAIN tree[Top(w).router]
<1>1. frames[w] \in Seq(Frames) /\ Len(frames[w]) \in 1 .. Len(frames[w])
  BY DEF IInv
<1>2. FrameOK(tree, Top(w)) /\ Top(w) \in Frames
  BY <1>1 DEF IInv, StackOK, FrameOK, Top
<1>3. tree[Top(w).router] \in NodeMaps
  BY <1>2 DEF IInv, Frames
<1> QED BY <1>2, <1>3 DEF IInv, NodeMaps, Closed

LEMMA BeginKeeps == ASSUME IInv, NEW w \in Workers, Begin(w) PROVE IInv'
<1>1. PICK r \in Requests :
        request' = [request EXCEPT ![w] = [route |-> r.route, relative |-> r.route,
                                           method |-> r.method]]
  BY DEF Begin
<1> DEFINE work == [route |-> r.route, relative |-> r.route, method |-> r.method]
           f    == Call(Root, r.route)
<1>2. work \in Works
  BY RoutesAssumption DEF Works, Methods
<1>3. f \in Frames /\ FrameOK(tree, f)
  BY RootAssumption, RoutesAssumption DEF Frames, FrameOK, Call, Paths, Results
<1>4. StackOK(tree, <<f>>)
  BY <1>3 DEF StackOK
<1>5. frames' = [frames EXCEPT ![w] = <<f>>]
  BY <1>1 DEF Begin, IInv
<1>6. UNCHANGED tree /\ changed' \in [Workers -> BOOLEAN]
      /\ answer' = [answer EXCEPT ![w] = answer[w]] /\ answer[w] \in Results \cup {"none"}
  BY DEF Begin, IInv
<1>7. Fits(work, <<f>>, answer[w])
  BY DEF Call, Fits
<1> HIDE DEF work, f
<1> QED BY <1>1, <1>2, <1>4, <1>5, <1>6, <1>7, StepKeeps DEF work

LEMMA LockKeeps == ASSUME IInv, NEW w \in Workers, Lock(w) PROVE IInv'
<1> DEFINE f == Top(w)
           g == [f EXCEPT !.at = "node",
                          !.catch = IF HasCatchAllRecursive(f.router, <<>>)
                                    THEN <<>> ELSE Null]
<1>1. frames[w] # <<>> /\ answer[w] = "none" /\ f.at = "lock"
  BY DEF Lock, Idle
<1>2. f \in Frames /\ FrameOK(tree, f) /\ <<>> \in DOMAIN tree[f.router]
  BY <1>1, TopIsOK
<1>3. g \in Frames /\ g.route = f.route /\ g.router = f.router
  BY <1>2 DEF Frames, Paths
<1>4. FrameOK(tree, g)
  BY <1>1, <1>2, <1>3 DEF FrameOK, Frames
<1>5. SetTop(w, g) /\ UNCHANGED <<tree, request, answer, changed>>
  BY DEF Lock
<1> HIDE DEF g
<1> QED BY <1>1, <1>3, <1>4, <1>5, TopStepKeeps

LEMMA WalkKeeps == ASSUME IInv, NEW w \in Workers, Walk(w) PROVE IInv'
<1> DEFINE f == Top(w)
           next == Child(f.router, f.node, f.route[f.walked + 1])
           g == IF next = Null
                THEN [f EXCEPT !.at = "select", !.node = Null]
                ELSE [f EXCEPT !.at = "node", !.node = next, !.walked = @ + 1,
                               !.catch = IF HasCatchAllRecursive(f.router, next)
                                         THEN next ELSE @]
<1>1. /\ frames[w] # <<>> /\ answer[w] = "none" /\ f.walked < Len(f.route)
      /\ SetTop(w, g) /\ UNCHANGED <<tree, request, answer, changed>>
  BY DEF Walk, Idle
<1>2. f \in Frames /\ FrameOK(tree, f) /\ DOMAIN tree[f.router] \subseteq Paths
  BY <1>1, TopIsOK
<1>3. next = Null \/ next \in DOMAIN tree[f.router]
  BY DEF Child
<1> HIDE DEF next
<1>4. g \in Frames /\ g.route = f.route /\ g.router = f.router
  <2>1. next \in Paths \cup {Null}
    BY <1>2, <1>3
  <2> DEFINE c == IF HasCatchAllRecursive(f.router, next) THEN next ELSE f.catch
  <2>2. c \in Paths \cup {Null} /\ f.walked + 1 \in Nat
    BY <1>2, <2>1 DEF Frames
  <2> HIDE DEF c, f
  <2>3. [f EXCEPT !.at = "select", !.node = Null] \in Frames
    BY <1>2 DEF Frames
  <2>4. [f EXCEPT !.at = "node", !.node = next, !.walked = @ + 1, !.catch = c] \in Frames
    BY <1>2, <2>1, <2>2 DEF Frames
  <2>5. g \in Frames
    BY <2>3, <2>4 DEF c
  <2>6. g.route = f.route /\ g.router = f.router
    BY <1>2 DEF Frames
  <2> QED BY <2>5, <2>6
<1>5. f.at # "lock"
  BY DEF Walk
<1>6. FrameOK(tree, g)
  <2>1. CASE next = Null
    <3>1. /\ g.at = "select" /\ g.node = Null /\ g.walked = f.walked /\ g.catch = f.catch
          /\ g.route = f.route /\ g.router = f.router
      BY <2>1, <1>2 DEF Frames
    <3> HIDE DEF f, g
    <3> QED BY <3>1, <1>2, <1>4, <1>5 DEF FrameOK
  <2>2. CASE next # Null
    <3>1. /\ g.at = "node" /\ g.node = next /\ g.walked = f.walked + 1
          /\ g.catch = f.catch \/ g.catch = next
          /\ g.route = f.route /\ g.router = f.router
      BY <2>2, <1>2 DEF Frames
    <3>2. f.walked \in Nat /\ Len(f.route) \in Nat /\ next \in DOMAIN tree[f.router]
      BY <2>2, <1>2, <1>3 DEF Frames
    <3> HIDE DEF f, g
    <3> QED BY <3>1, <3>2, <1>1, <1>2, <1>4, <1>5 DEF FrameOK
  <2> QED BY <2>1, <2>2
<1> HIDE DEF g
<1> QED BY <1>1, <1>4, <1>6, TopStepKeeps

LEMMA DescendKeeps == ASSUME IInv, NEW w \in Workers, Descend(w) PROVE IInv'
<1> DEFINE f    == Top(w)
           g    == [f EXCEPT !.at = "sub"]
           sub  == tree[f.router][f.node].router
           rest == SubSeq(f.route, f.walked + 1, Len(f.route))
           c    == Call(sub, rest)
           s    == Push(frames[w], g, c)
           work == [request[w] EXCEPT !.relative = rest]
<1>1. /\ frames[w] # <<>> /\ answer[w] = "none" /\ f.at = "node" /\ sub # Null
      /\ UNCHANGED <<tree, answer, changed>>
  BY DEF Descend, Idle
<1>2. f \in Frames /\ FrameOK(tree, f) /\ f.node \in DOMAIN tree[f.router]
      /\ tree[f.router] \in [DOMAIN tree[f.router] -> Nodes] /\ request[w] \in Works
  BY <1>1, TopIsOK DEF FrameOK
<1>3. sub \in Routers
  BY <1>1, <1>2 DEF Nodes
<1>4. rest \in Seq(Components)
  <2>1. f.route \in Seq(Components) /\ f.walked \in Nat /\ Len(f.route) \in Nat
    BY <1>2 DEF Frames
  <2>2. f.walked + 1 \in Int /\ Len(f.route) \in Int
        /\ \A i \in f.walked + 1 .. Len(f.route) : f.route[i] \in Components
    BY <2>1
  <2> QED BY <2>2, SubSeqProperties
<1>5. g \in Frames /\ g.route = f.route /\ g.router = f.router /\ g.walked = f.walked
      /\ g.node = f.node /\ g.at = "sub"
  BY <1>2 DEF Frames
<1>6. FrameOK(tree, g)
  <2>1. g.catch = f.catch /\ f.at = "node"
    BY <1>1, <1>2 DEF Frames
  <2> HIDE DEF f, g
  <2> QED BY <2>1, <1>2, <1>5 DEF FrameOK
<1>7. FrameOK(tree, c) /\ c.route = rest /\ c.router = sub
  <2>1. c \in Frames
    <3> HIDE DEF rest, sub
    <3> QED BY <1>3, <1>4 DEF Call, Frames, Paths, Results
  <2>2. c.route = rest /\ c.router = sub /\ c.at = "lock" /\ c.node = <<>> /\ c.walked = 0
    BY DEF Call
  <2>3. Len(rest) >= 0
    BY <1>4
  <2> HIDE DEF c, rest, sub
  <2> QED BY <2>1, <2>2, <2>3 DEF FrameOK
<1>8. LinkOK(tree, g, c)
  BY <1>5, <1>7 DEF LinkOK, Rest
<1>9. frames' = [frames EXCEPT ![w] = s] /\ request' = [request EXCEPT ![w] = work]
  BY DEF Descend, Push
<1>10. work \in Works /\ work.relative = rest
  BY <1>2, <1>4 DEF Works
<1>11. /\ UNCHANGED tree
       /\ answer' = [answer EXCEPT ![w] = "none"]
       /\ changed' \in [Workers -> BOOLEAN] /\ StackOK(tree, frames[w])
       /\ f = frames[w][Len(frames[w])]
  BY <1>1 DEF IInv, Top
<1> HIDE DEF f, g, c, rest, sub, work
<1>12. StackOK(tree, s)
  BY <1>1, <1>5, <1>6, <1>7, <1>8, <1>11, PushKeeps
<1>13. s[Len(s)] = c
  <2>1. frames[w] \in Seq(Frames) /\ g \in Frames /\ c \in Frames
    BY <1>6, <1>7 DEF IInv, FrameOK
  <2> DEFINE old == frames[w]
  <2>2. old \in Seq(Frames) /\ old # <<>>
    BY <1>1, <2>1
  <2> HIDE DEF old
  <2>3. Len(Push(old, g, c)) = Len(old) + 1 /\ Push(old, g, c)[Len(old) + 1] = c
    BY <2>1, <2>2, Pushed
  <2> QED BY <2>3 DEF old
<1>14. Fits(work, s, "none")
  BY <1>7, <1>10, <1>13 DEF Fits
<1>15. "none" \in Results \cup {"none"}
  OBVIOUS
<1> HIDE DEF s
<1> QED BY <1>9, <1>10, <1>11, <1>12, <1>14, <1>15, StepKeeps
LEMMA AscendKeeps == ASSUME IInv, NEW w \in Workers, Ascend(w) PROVE IInv'
<1> DEFINE f == Top(w)
           result == Kept(f.result, answer[w])
           g == [f EXCEPT !.at = "walk", !.result = result]
<1>1. frames[w] # <<>> /\ f.at = "sub" /\ answer[w] # "none" /\ UNCHANGED <<tree, changed>>
  BY DEF Ascend
<1>2. f \in Frames /\ FrameOK(tree, f) /\ request[w] \in Works
  BY <1>1, TopIsOK
<1>3. answer[w] \in Results /\ f.result \in Results
  BY <1>1, <1>2 DEF IInv, Frames
<1>4. result \in Results
  BY <1>3 DEF Kept
<1>5. CASE result = "Handled"
  <2> DEFINE s == SubSeq(frames[w], 1, Len(frames[w]) - 1)
  <2>1. StackOK(tree, s)
    BY <1>1, PopKeeps DEF IInv
  <2>2. frames' = [frames EXCEPT ![w] = s] /\ UNCHANGED <<request, answer>>
    BY <1>5 DEF Ascend
  <2>3. /\ request' = [request EXCEPT ![w] = request[w]]
        /\ answer' = [answer EXCEPT ![w] = answer[w]] /\ answer[w] \in Results \cup {"none"}
        /\ changed' \in [Workers -> BOOLEAN] /\ UNCHANGED tree
    BY <1>1, <2>2 DEF IInv
  <2>4. Fits(request[w], s, answer[w])
    BY <1>1 DEF Fits
  <2> HIDE DEF s
  <2> QED BY <1>2, <2>1, <2>2, <2>3, <2>4, StepKeeps
<1>6. CASE result # "Handled"
  <2> DEFINE s == [frames[w] EXCEPT ![Len(frames[w])] = g]
             work == [request[w] EXCEPT !.relative = f.route]
  <2> HIDE DEF result
  <2>1. g \in Frames /\ g.route = f.route /\ g.router = f.router
    BY <1>2, <1>4 DEF Frames
  <2>2. FrameOK(tree, g)
    BY <1>1, <1>2, <2>1 DEF FrameOK, Frames
  <2>3. StackOK(tree, frames[w]) /\ frames[w] \in Seq(Frames) /\ f = frames[w][Len(frames[w])]
    BY DEF IInv, Top
  <2>4. /\ frames' = [frames EXCEPT ![w] = s] /\ request' = [request EXCEPT ![w] = work]
        /\ answer' = [answer EXCEPT ![w] = "none"]
        /\ changed' \in [Workers -> BOOLEAN] /\ UNCHANGED tree
    BY <1>1, <1>6 DEF Ascend, SetTop, SwapBack, IInv, result
  <2>5. work \in Works /\ work.relative = f.route
    BY <1>2 DEF Works, Frames
  <2> HIDE DEF g, f, work
  <2>6. StackOK(tree, s)
    BY <1>1, <2>1, <2>2, <2>3, SetTopKeeps
  <2>7. s[Len(s)] = g
    <3>1. Len(s) = Len(frames[w]) /\ Len(frames[w]) \in 1 .. Len(frames[w])
      BY <1>1, <2>3
    <3> QED BY <2>1, <2>3, <3>1
  <2>8. Fits(work, s, "none") /\ "none" \in Results \cup {"none"}
    BY <2>1, <2>5, <2>7 DEF Fits
  <2> HIDE DEF s
  <2> QED BY <2>4, <2>5, <2>6, <2>8, StepKeeps
<1> QED BY <1>5, <1>6

(* A callback that is called is the one registered there.                  *)
LEMMA RunKeeps ==
    ASSUME IInv, NEW w \in Workers, frames[w] # <<>>, answer[w] = "none",
           Top(w).at # "lock", NEW path, NEW method \in DOMAIN tree[Top(w).router][path].endpoints,
           path \in DOMAIN tree[Top(w).router],
           Run(w, Top(w), path, method), UNCHANGED <<tree, request, changed>>
    PROVE  IInv'
<1> DEFINE f == Top(w)
           e == tree[f.router][path].endpoints
           run == [node |-> path, method |-> method, callback |-> e[method]]
           g == [f EXCEPT !.at = "callback", !.running = run]
<1>1. f \in Frames /\ FrameOK(tree, f) /\ tree[f.router] \in [DOMAIN tree[f.router] -> Nodes]
      /\ DOMAIN tree[f.router] \subseteq Paths
  BY TopIsOK
<1>2. path \in Paths /\ method \in Methods /\ e[method] \in Callbacks
  <2>1. tree[f.router][path] \in Nodes
    BY <1>1
  <2> QED BY <1>1, <2>1 DEF Nodes
<1>3. run \in [node : Paths, method : Methods, callback : Callbacks]
  BY <1>2
<1>4. SetTop(w, g) /\ UNCHANGED <<tree, request, answer, changed>>
  BY DEF Run
<1>5. run.node = path /\ run.method = method /\ run.callback = e[method]
  OBVIOUS
<1> HIDE DEF run
<1>6. g \in Frames /\ g.route = f.route /\ g.router = f.router /\ g.at = "callback"
      /\ g.running = run /\ g.walked = f.walked /\ g.catch = f.catch
  BY <1>1, <1>3 DEF Frames
<1>7. FrameOK(tree, g)
  <2>1. f.at # "lock"
    OBVIOUS
  <2>2. tree[g.router][g.running.node].endpoints = e
    BY <1>5, <1>6
  <2> HIDE DEF f, g, e
  <2>3. g.running.method \in DOMAIN e /\ e[g.running.method] = g.running.callback
    BY <1>5, <1>6 DEF e, f
  <2> QED BY <2>1, <2>2, <2>3, <1>1, <1>6 DEF FrameOK
<1> HIDE DEF g
<1> QED BY <1>4, <1>6, <1>7, TopStepKeeps

LEMMA SelectKeeps == ASSUME IInv, NEW w \in Workers, Select(w) PROVE IInv'
<1> DEFINE f == Top(w)
           method == IF f.node = Null THEN Null
                     ELSE Choice(tree[f.router][f.node].endpoints, request[w].method)
           result == Selected(f.router, f)
<1>1. /\ frames[w] # <<>> /\ answer[w] = "none" /\ f.at # "lock"
      /\ UNCHANGED <<tree, request, changed>>
  BY DEF Select, Idle
<1>2. f \in Frames /\ FrameOK(tree, f)
  BY <1>1, TopIsOK
<1>3. CASE method # Null
  <2>1. f.node # Null /\ method \in DOMAIN tree[f.router][f.node].endpoints
    BY <1>3 DEF Choice
  <2>2. f.node \in DOMAIN tree[f.router]
    BY <1>2, <2>1 DEF Select, FrameOK
  <2>3. Run(w, f, f.node, method)
    BY <1>3 DEF Select
  <2> HIDE DEF method
  <2> QED BY <1>1, <2>1, <2>2, <2>3, RunKeeps
<1>4. CASE /\ method = Null
           /\ result = "NotFound" /\ f.catch # Null
           /\ HasCatchAllRecursive(f.router, f.catch)
  <2>1. Recursive \in DOMAIN tree[f.router][f.catch].endpoints
    BY <1>4 DEF HasCatchAllRecursive
  <2>2. f.catch \in DOMAIN tree[f.router]
    <3>1. f.at # "lock" /\ f.catch # Null
      BY <1>4 DEF Select
    <3> HIDE DEF f
    <3> QED BY <1>2, <3>1 DEF FrameOK
  <2>3. Run(w, f, f.catch, Recursive)
    BY <1>4 DEF Select
  <2> QED BY <1>1, <2>1, <2>2, <2>3, RunKeeps
<1>5. CASE /\ method = Null
           /\ ~(/\ result = "NotFound" /\ f.catch # Null
                /\ HasCatchAllRecursive(f.router, f.catch))
  <2>1. Return(w, result)
    BY <1>5 DEF Select
  <2>2. result \in Results
    BY <1>2 DEF Selected, Frames, Results
  <2> HIDE DEF result
  <2> QED BY <1>1, <2>1, <2>2, ReturnKeeps
<1> QED BY <1>3, <1>4, <1>5

LEMMA CallbackKeeps ==
    ASSUME IInv, NEW w \in Workers, CallbackReturns(w) \/ CallbackThrows(w)
    PROVE  IInv'
<1>1. CASE CallbackReturns(w)
  <2>1. "Handled" \in Results
    BY DEF Results
  <2>2. frames[w] # <<>> /\ Return(w, "Handled") /\ UNCHANGED <<tree, request, changed>>
    BY <1>1 DEF CallbackReturns, Idle
  <2> QED BY <2>1, <2>2, ReturnKeeps
<1>2. CASE CallbackThrows(w)
  <2>1. StackOK(tree, <<>>)
    BY DEF StackOK
  <2>2. /\ frames' = [frames EXCEPT ![w] = <<>>] /\ UNCHANGED tree
        /\ answer' = [answer EXCEPT ![w] = "InternalError"]
        /\ request' = [request EXCEPT ![w] = request[w]] /\ request[w] \in Works
        /\ changed' \in [Workers -> BOOLEAN]
    BY <1>2 DEF CallbackThrows, IInv
  <2>3. "InternalError" \in Results \cup {"none"} /\ Fits(request[w], <<>>, "InternalError")
    BY DEF Results, Fits
  <2> QED BY <2>1, <2>2, <2>3, StepKeeps
<1> QED BY <1>1, <1>2

LEMMA FinishKeeps == ASSUME IInv, NEW w \in Workers, Finish(w) PROVE IInv'
<1>1. StackOK(tree, <<>>) /\ Fits(NoWork, <<>>, "none") /\ NoWork \in Works
  BY DEF StackOK, Fits, NoWork, Works, Methods
<1>2. /\ frames' = [frames EXCEPT ![w] = <<>>] /\ UNCHANGED tree
      /\ answer' = [answer EXCEPT ![w] = "none"] /\ "none" \in Results \cup {"none"}
      /\ request' = [request EXCEPT ![w] = NoWork]
      /\ changed' \in [Workers -> BOOLEAN]
  BY DEF Finish, IInv
<1> QED BY <1>1, <1>2, StepKeeps

-----------------------------------------------------------------------------
(* The specification.                                                      *)

LEMMA InitIInv == Init => IInv
<1> SUFFICES ASSUME Init PROVE IInv
  OBVIOUS
<1>1. [path \in {<<>>} |-> Node] \in NodeMaps
  <2>1. <<>> \in Paths
    BY DEF Paths
  <2>2. Prefixes(<<>>) \subseteq {<<>>}
    <3>1. \A n \in 0 .. Len(<<>>) : n \in Int /\ n < 1
      OBVIOUS
    <3>2. \A n \in 0 .. Len(<<>>) : SubSeq(<<>>, 1, n) = <<>>
      BY <3>1, SubSeqEmpty
    <3> QED BY <3>2 DEF Prefixes
  <2> DEFINE q == [path \in {<<>>} |-> Node]
  <2>3. q \in [{<<>>} -> Nodes] /\ DOMAIN q = {<<>>} /\ {<<>>} \in SUBSET Paths
    BY <2>1, NodeIsNode
  <2> HIDE DEF q
  <2>4. Closed(q)
    BY <2>2, <2>3 DEF Closed
  <2>5. q \in UNION {[P -> Nodes] : P \in SUBSET Paths}
    BY <2>3
  <2>6. q \in NodeMaps
    BY <2>4, <2>5 DEF NodeMaps
  <2> QED BY <2>6 DEF q
<1>2. StackOK(tree, <<>>)
  BY DEF StackOK
<1>3. NoWork \in Works
  BY DEF NoWork, Works, Methods
<1> QED BY <1>1, <1>2, <1>3 DEF Init, IInv

LEMMA NextIInv == IInv /\ [Next]_vars => IInv'
<1> SUFFICES ASSUME IInv, [Next]_vars PROVE IInv'
  OBVIOUS
<1>1. CASE AppStep
  BY <1>1, AppStepKeeps
<1>2. ASSUME NEW w \in Workers, WorkerStep(w) PROVE IInv'
  BY <1>2, BeginKeeps, LockKeeps, DescendKeeps, AscendKeeps, WalkKeeps, SelectKeeps,
     CallbackKeeps, FinishKeeps DEF WorkerStep
<1>3. CASE UNCHANGED vars
  BY <1>3 DEF vars, IInv, Top
<1> QED BY <1>1, <1>2, <1>3 DEF Next

LEMMA Inductive == Spec => []IInv
BY InitIInv, NextIInv, PTL DEF Spec

(* Trees, calls and answers keep their types: a node has all its parents,  *)
(* and the walk of handle_request never leaves the tree or the route.      *)
THEOREM TypeCorrect == Spec => []TypeOK
<1>1. IInv => TypeOK
  <2> SUFFICES ASSUME IInv PROVE TypeOK
    OBVIOUS
  <2>1. ASSUME NEW r \in Routers
        PROVE  /\ <<>> \in DOMAIN tree[r] /\ DOMAIN tree[r] \subseteq Paths
               /\ \A path \in DOMAIN tree[r] :
                     /\ Prefixes(path) \subseteq DOMAIN tree[r]
                     /\ tree[r][path].router \in Routers \cup {Null}
                     /\ DOMAIN tree[r][path].endpoints \subseteq Methods
    <3>1. tree[r] \in NodeMaps
      BY DEF IInv
    <3>2. \A path \in DOMAIN tree[r] : tree[r][path] \in Nodes
      BY <3>1 DEF NodeMaps
    <3>3. \A path \in DOMAIN tree[r] : /\ tree[r][path].router \in Routers \cup {Null}
                                       /\ DOMAIN tree[r][path].endpoints \subseteq Methods
      BY <3>2 DEF Nodes
    <3> QED BY <3>1, <3>3 DEF NodeMaps, Closed
  <2>2. ASSUME NEW w \in Workers, NEW i \in 1 .. Len(frames[w])
        PROVE  /\ frames[w][i].router \in Routers
               /\ frames[w][i].walked \in 0 .. Len(frames[w][i].route)
               /\ frames[w][i].node \in Paths \cup {Null}
               /\ frames[w][i].result \in Results
    <3>1. StackOK(tree, frames[w])
      BY DEF IInv
    <3>2. FrameOK(tree, frames[w][i])
      BY <3>1 DEF StackOK
    <3>3. frames[w][i] \in Frames /\ frames[w][i].walked <= Len(frames[w][i].route)
      BY <3>2 DEF FrameOK
    <3> QED BY <3>3 DEF Frames
  <2> QED BY <2>1, <2>2 DEF IInv, TypeOK
<1> QED BY Inductive, <1>1, PTL

(* A route or router that a request is using is not taken away: a change   *)
(* waits for the shared locks of every call on the stack.                  *)
THEOREM InUseIsKept == Spec => []NothingInUseIsRemoved
<1>1. IInv => NothingInUseIsRemoved
  <2> SUFFICES ASSUME IInv, NEW w \in Workers, NEW i \in 1 .. Len(frames[w])
               PROVE  LET f == frames[w][i]
                      IN  /\ f.at = "callback" =>
                             LET e == tree[f.router][f.running.node].endpoints
                             IN  /\ f.running.method \in DOMAIN e
                                 /\ e[f.running.method] = f.running.callback
                          /\ f.at = "sub" /\ i < Len(frames[w]) =>
                                tree[f.router][f.node].router = frames[w][i + 1].router
    BY DEF NothingInUseIsRemoved
  <2>1. StackOK(tree, frames[w]) /\ Len(frames[w]) \in Nat
    BY DEF IInv
  <2>2. FrameOK(tree, frames[w][i])
    BY <2>1 DEF StackOK
  <2>3. ASSUME i < Len(frames[w]) PROVE LinkOK(tree, frames[w][i], frames[w][i + 1])
    <3>1. i + 1 \in 2 .. Len(frames[w]) /\ i + 1 - 1 = i
      BY <2>1, <2>3
    <3> QED BY <2>1, <3>1 DEF StackOK
  <2> QED BY <2>2, <2>3 DEF FrameOK, LinkOK
<1> QED BY Inductive, <1>1, PTL

(* Every router and callback finds the part of the route that is its own,  *)
(* however many sub-routers were tried before.                             *)
THEOREM RouteIsOwn == Spec => []RelativeRouteFits
<1>1. IInv => RelativeRouteFits
  <2> SUFFICES ASSUME IInv, NEW w \in Workers, frames[w] # <<>>
               PROVE  /\ answer[w] = "none" => request[w].relative = Top(w).route
                      /\ \A i \in 2 .. Len(frames[w]) :
                            frames[w][i].route
                                = Rest(frames[w][i - 1].route, frames[w][i - 1].walked)
    BY DEF RelativeRouteFits
  <2>1. StackOK(tree, frames[w]) /\ (answer[w] = "none" => request[w].relative = Top(w).route)
    BY DEF IInv
  <2>2. \A i \in 2 .. Len(frames[w]) : LinkOK(tree, frames[w][i - 1], frames[w][i])
    BY <2>1 DEF StackOK
  <2> QED BY <2>1, <2>2 DEF LinkOK
<1> QED BY Inductive, <1>1, PTL

-----------------------------------------------------------------------------
(* Induction, as a statement about sets.                                   *)

LEMMA LeastNumber ==
    ASSUME NEW T \in SUBSET Nat, T # {}
    PROVE  \E least \in T : \A n \in T : least <= n
<1>1. IsWellFoundedOn(OpToRel(<, Nat), Nat)
  BY NatLessThanWellFounded
<1>2. PICK least \in T : \A n \in T : <<n, least>> \notin OpToRel(<, Nat)
  BY <1>1, WFMin
<1>3. \A m, n \in Nat : m < n => <<m, n>> \in OpToRel(<, Nat)
  BY DEF OpToRel
<1>4. \A n \in T : ~(n < least)
  BY <1>2, <1>3
<1>5. \A n \in T : least <= n
  BY <1>4
<1> QED BY <1>5

LEMMA Induction ==
    ASSUME NEW S, 0 \in S, \A n \in Nat : n \in S => n + 1 \in S
    PROVE  Nat \subseteq S
<1> DEFINE T == Nat \ S
<1> SUFFICES ASSUME T # {} PROVE FALSE
  OBVIOUS
<1>1. PICK least \in T : \A n \in T : least <= n
  BY LeastNumber
<1>2. least # 0 /\ least - 1 \in Nat /\ least - 1 \notin T
  BY <1>1
<1> QED BY <1>2

-----------------------------------------------------------------------------
(* Sequences.                                                              *)

LEMMA Slice ==
    ASSUME NEW S, NEW s \in Seq(S), NEW m \in 1 .. Len(s) + 1, NEW n \in m - 1 .. Len(s)
    PROVE  /\ SubSeq(s, m, n) \in Seq(S) /\ Len(SubSeq(s, m, n)) = n - m + 1
           /\ \A i \in 1 .. n - m + 1 : SubSeq(s, m, n)[i] = s[m + i - 1]
<1>1. m \in Int /\ n \in Int /\ \A i \in m .. n : s[i] \in S
  OBVIOUS
<1>2. /\ SubSeq(s, m, n) \in Seq(S)
      /\ Len(SubSeq(s, m, n)) = IF m <= n THEN n - m + 1 ELSE 0
      /\ \A i \in 1 .. n - m + 1 : SubSeq(s, m, n)[i] = s[m + i - 1]
  BY <1>1, SubSeqProperties
<1> QED BY <1>1, <1>2

LEMMA Prefix ==
    ASSUME NEW S, NEW s \in Seq(S), NEW n \in 0 .. Len(s)
    PROVE  /\ SubSeq(s, 1, n) \in Seq(S) /\ Len(SubSeq(s, 1, n)) = n
           /\ \A i \in 1 .. n : SubSeq(s, 1, n)[i] = s[i]
<1>1. 1 \in 1 .. Len(s) + 1 /\ n \in 1 - 1 .. Len(s) /\ n - 1 + 1 = n
  OBVIOUS
<1>2. /\ SubSeq(s, 1, n) \in Seq(S) /\ Len(SubSeq(s, 1, n)) = n - 1 + 1
      /\ \A i \in 1 .. n - 1 + 1 : SubSeq(s, 1, n)[i] = s[1 + i - 1]
  BY <1>1, Slice
<1> QED BY <1>1, <1>2

LEMMA PrefixOfSlice ==
    ASSUME NEW S, NEW s \in Seq(S), NEW n \in 0 .. Len(s), NEW m \in 0 .. n
    PROVE  SubSeq(SubSeq(s, 1, n), 1, m) = SubSeq(s, 1, m)
<1> DEFINE p == SubSeq(s, 1, n)
           a == SubSeq(p, 1, m)
           b == SubSeq(s, 1, m)
<1>1. p \in Seq(S) /\ Len(p) = n /\ \A i \in 1 .. n : p[i] = s[i]
  BY Prefix
<1>2. m \in 0 .. Len(p) /\ m \in 0 .. Len(s)
  BY <1>1
<1> HIDE DEF p
<1>3. a \in Seq(S) /\ Len(a) = m /\ \A i \in 1 .. m : a[i] = p[i]
  BY <1>1, <1>2, Prefix
<1>4. b \in Seq(S) /\ Len(b) = m /\ \A i \in 1 .. m : b[i] = s[i]
  BY <1>2, Prefix
<1> HIDE DEF a, b
<1>5. \A i \in 1 .. Len(a) : a[i] = b[i]
  BY <1>1, <1>3, <1>4
<1>6. a = b
  BY <1>3, <1>4, <1>5, SeqEqual
<1> QED BY <1>6 DEF a, b, p

(* What is left of a route, and of that again.                             *)
LEMMA RestOfRoute ==
    ASSUME NEW S, NEW route \in Seq(S), NEW n \in 0 .. Len(route)
    PROVE  /\ Rest(route, n) \in Seq(S) /\ Len(Rest(route, n)) = Len(route) - n
           /\ \A i \in 1 .. Len(route) - n : Rest(route, n)[i] = route[n + i]
<1>1. n + 1 \in 1 .. Len(route) + 1 /\ Len(route) \in (n + 1) - 1 .. Len(route)
  OBVIOUS
<1>2. /\ SubSeq(route, n + 1, Len(route)) \in Seq(S)
      /\ Len(SubSeq(route, n + 1, Len(route))) = Len(route) - (n + 1) + 1
      /\ \A i \in 1 .. Len(route) - (n + 1) + 1 :
            SubSeq(route, n + 1, Len(route))[i] = route[(n + 1) + i - 1]
  BY <1>1, Slice
<1>3. Len(route) - (n + 1) + 1 = Len(route) - n
      /\ \A i \in 1 .. Len(route) - n : (n + 1) + i - 1 = n + i
  OBVIOUS
<1> DEFINE q == SubSeq(route, n + 1, Len(route))
<1>4. q \in Seq(S) /\ Len(q) = Len(route) - n
      /\ \A i \in 1 .. Len(route) - n : q[i] = route[(n + 1) + i - 1]
  BY <1>2, <1>3
<1> HIDE DEF q
<1>5. \A i \in 1 .. Len(route) - n : q[i] = route[n + i]
  BY <1>3, <1>4
<1> QED BY <1>4, <1>5 DEF Rest, q

LEMMA RestOfRest ==
    ASSUME NEW S, NEW route \in Seq(S), NEW n \in 0 .. Len(route), NEW m \in 0 .. Len(route) - n
    PROVE  Rest(Rest(route, n), m) = Rest(route, n + m)
<1> DEFINE q == Rest(route, n)
           a == Rest(q, m)
           b == Rest(route, n + m)
<1>1. q \in Seq(S) /\ Len(q) = Len(route) - n /\ \A i \in 1 .. Len(route) - n : q[i] = route[n + i]
  BY RestOfRoute
<1>2. m \in 0 .. Len(q) /\ n + m \in 0 .. Len(route)
  BY <1>1
<1> HIDE DEF q
<1>3. a \in Seq(S) /\ Len(a) = Len(q) - m /\ \A i \in 1 .. Len(q) - m : a[i] = q[m + i]
  BY <1>1, <1>2, RestOfRoute
<1>4. /\ b \in Seq(S) /\ Len(b) = Len(route) - (n + m)
      /\ \A i \in 1 .. Len(route) - (n + m) : b[i] = route[n + m + i]
  BY <1>2, RestOfRoute
<1> HIDE DEF a, b
<1>5. Len(a) = Len(b) /\ \A i \in 1 .. Len(a) : a[i] = b[i]
  <2>1. Len(a) = Len(b)
    BY <1>1, <1>3, <1>4
  <2>2. ASSUME NEW i \in 1 .. Len(a) PROVE a[i] = b[i]
    <3>1. m + i \in 1 .. Len(route) - n /\ i \in 1 .. Len(q) - m
          /\ i \in 1 .. Len(route) - (n + m) /\ n + (m + i) = n + m + i
      BY <1>1, <1>3
    <3> QED BY <1>1, <1>3, <1>4, <3>1
  <2> QED BY <2>1, <2>2
<1>6. a = b
  BY <1>3, <1>4, <1>5, SeqEqual
<1> QED BY <1>6 DEF a, b, q

(* Suffixes has every rest of its routes.                                  *)
LEMMA SuffixesClosed ==
    ASSUME NEW route \in Suffixes
    PROVE  /\ route \in Seq(Components)
           /\ \A n \in 0 .. Len(route) : Rest(route, n) \in Suffixes
<1>1. PICK r \in Requests : route \in {Rest(r.route, n) : n \in 0 .. Len(r.route)}
  BY DEF Suffixes
<1>2. PICK k \in 0 .. Len(r.route) : route = Rest(r.route, k)
  BY <1>1
<1>3. r.route \in Seq(Components)
  BY RoutesAssumption
<1>4. route \in Seq(Components) /\ Len(route) = Len(r.route) - k
  BY <1>2, <1>3, RestOfRoute
<1>5. ASSUME NEW n \in 0 .. Len(route) PROVE Rest(route, n) \in Suffixes
  <2>1. n \in 0 .. Len(r.route) - k /\ k + n \in 0 .. Len(r.route)
    BY <1>3, <1>4
  <2>2. Rest(route, n) = Rest(r.route, k + n)
    BY <1>2, <1>3, <2>1, RestOfRest
  <2> QED BY <2>1, <2>2 DEF Suffixes
<1> QED BY <1>4, <1>5

LEMMA RequestIsSuffix ==
    ASSUME NEW r \in Requests
    PROVE  r.route \in Suffixes
<1>1. r.route \in Seq(Components)
  BY RoutesAssumption
<1>2. Rest(r.route, 0) = r.route /\ 0 \in 0 .. Len(r.route)
  BY <1>1, SubSeqFull DEF Rest
<1> QED BY <1>2 DEF Suffixes
LEMMA Snoc ==
    ASSUME NEW S, NEW s \in Seq(S), NEW x \in S
    PROVE  /\ Append(s, x) \in Seq(S) /\ Len(Append(s, x)) = Len(s) + 1
           /\ Append(s, x)[Len(s) + 1] = x
           /\ \A i \in 1 .. Len(s) : Append(s, x)[i] = s[i]
           /\ \A n \in 0 .. Len(s) : SubSeq(Append(s, x), 1, n) = SubSeq(s, 1, n)
<1> DEFINE a == Append(s, x)
<1>1. /\ a \in Seq(S) /\ Len(a) = Len(s) + 1 /\ a[Len(s) + 1] = x
      /\ \A i \in 1 .. Len(s) : a[i] = s[i]
  OBVIOUS
<1> HIDE DEF a
<1>2. ASSUME NEW n \in 0 .. Len(s) PROVE SubSeq(a, 1, n) = SubSeq(s, 1, n)
  <2> DEFINE p == SubSeq(a, 1, n)
             q == SubSeq(s, 1, n)
  <2>1. p \in Seq(S) /\ Len(p) = n /\ \A i \in 1 .. n : p[i] = a[i]
    BY <1>1, Prefix
  <2>2. q \in Seq(S) /\ Len(q) = n /\ \A i \in 1 .. n : q[i] = s[i]
    BY Prefix
  <2> HIDE DEF p, q
  <2>3. \A i \in 1 .. Len(p) : p[i] = q[i]
    BY <1>1, <2>1, <2>2
  <2>4. p = q
    BY <2>1, <2>2, <2>3, SeqEqual
  <2> QED BY <2>4 DEF p, q
<1> QED BY <1>1, <1>2 DEF a

LEMMA LastOfPrefix ==
    ASSUME NEW S, NEW s \in Seq(S), NEW n \in 1 .. Len(s)
    PROVE  SubSeq(s, 1, n) = Append(SubSeq(s, 1, n - 1), s[n])
<1> DEFINE p == SubSeq(s, 1, n)
           q == SubSeq(s, 1, n - 1)
           a == Append(q, s[n])
<1>1. p \in Seq(S) /\ Len(p) = n /\ \A i \in 1 .. n : p[i] = s[i]
  BY Prefix
<1>2. q \in Seq(S) /\ Len(q) = n - 1 /\ \A i \in 1 .. n - 1 : q[i] = s[i]
  <2>1. n - 1 \in 0 .. Len(s)
    OBVIOUS
  <2> QED BY <2>1, Prefix
<1> HIDE DEF p, q
<1>3. s[n] \in S
  OBVIOUS
<1>4. /\ a \in Seq(S) /\ Len(a) = Len(q) + 1 /\ a[Len(q) + 1] = s[n]
      /\ \A i \in 1 .. Len(q) : a[i] = q[i]
  BY <1>2, <1>3, Snoc
<1> HIDE DEF a
<1>5. \A i \in 1 .. Len(p) : p[i] = a[i]
  <2> TAKE i \in 1 .. Len(p)
  <2>1. CASE i = n
    BY <2>1, <1>1, <1>2, <1>4
  <2>2. CASE i # n
    <3>1. i \in 1 .. n - 1
      BY <2>2, <1>1
    <3> QED BY <3>1, <1>1, <1>2, <1>4
  <2> QED BY <2>1, <2>2
<1>6. p = a
  BY <1>1, <1>2, <1>4, <1>5, SeqEqual
<1> QED BY <1>6 DEF p, a, q

-----------------------------------------------------------------------------
(* The nodes on a route.                                                   *)

LEMMA PathIsSeq ==
    ASSUME NEW p \in Paths
    PROVE  p \in Seq(Components)
<1>1. CASE p = <<>>
  BY <1>1
<1>2. CASE p # <<>>
  <2>1. PICK x \in Endpoints \cup Mounts : p \in Prefixes(x.path)
    BY <1>2 DEF Paths
  <2>2. x.path \in Seq(Components)
    BY RoutesAssumption
  <2> QED BY <2>1, <2>2, PrefixOfPrefix
<1> QED BY <1>1, <1>2

LEMMA OnRouteIsPath ==
    ASSUME NEW nodes \in NodeMaps, NEW route, NEW p \in OnRoute(nodes, route)
    PROVE  p \in DOMAIN nodes /\ p \in Seq(Components) /\ Len(p) <= Len(route)
<1>1. p \in DOMAIN nodes /\ Len(p) <= Len(route)
  BY DEF OnRoute
<1>2. DOMAIN nodes \subseteq Paths
  BY DEF NodeMaps
<1> QED BY <1>1, <1>2, PathIsSeq

LEMMA PrefixInTree ==
    ASSUME NEW nodes \in NodeMaps, NEW p \in DOMAIN nodes, NEW n \in 0 .. Len(p)
    PROVE  SubSeq(p, 1, n) \in DOMAIN nodes
<1>1. Prefixes(p) \subseteq DOMAIN nodes
  BY DEF NodeMaps, Closed
<1> QED BY <1>1 DEF Prefixes

LEMMA RootOnRoute ==
    ASSUME NEW nodes \in NodeMaps, NEW route \in Seq(Components)
    PROVE  <<>> \in OnRoute(nodes, route)
BY DEF NodeMaps, Closed, OnRoute

LEMMA PrefixOnRoute ==
    ASSUME NEW nodes \in NodeMaps, NEW route \in Seq(Components),
           NEW p \in OnRoute(nodes, route), NEW n \in 0 .. Len(p)
    PROVE  SubSeq(p, 1, n) \in OnRoute(nodes, route)
<1> DEFINE q == SubSeq(p, 1, n)
<1>1. p \in DOMAIN nodes /\ p \in Seq(Components) /\ Len(p) <= Len(route)
  BY OnRouteIsPath
<1>2. q \in DOMAIN nodes
  BY <1>1, PrefixInTree
<1>3. q \in Seq(Components) /\ Len(q) = n /\ \A i \in 1 .. n : q[i] = p[i]
  BY <1>1, Prefix
<1>4. \A i \in 1 .. n : SubSeq(q, 1, i - 1) = SubSeq(p, 1, i - 1)
  <2> TAKE i \in 1 .. n
  <2>1. i - 1 \in 0 .. n
    OBVIOUS
  <2> QED BY <1>1, <2>1, PrefixOfSlice
<1> HIDE DEF q
<1>5. \A i \in 1 .. n : LET literal == Append(SubSeq(p, 1, i - 1), route[i])
                        IN  p[i] = route[i] \/ (p[i] = Wildcard /\ literal \notin DOMAIN nodes)
  <2> TAKE i \in 1 .. n
  <2>1. i \in 1 .. Len(p)
    BY <1>1
  <2> QED BY <2>1 DEF OnRoute
<1>6. Len(q) <= Len(route)
  BY <1>1, <1>3
<1> QED BY <1>2, <1>3, <1>4, <1>5, <1>6 DEF OnRoute, q

(* A route has one node of each depth at most.                             *)
LEMMA OneNodeOfADepth ==
    ASSUME NEW nodes \in NodeMaps, NEW route \in Seq(Components),
           NEW p \in OnRoute(nodes, route), NEW q \in OnRoute(nodes, route), Len(p) = Len(q)
    PROVE  p = q
<1>1. p \in DOMAIN nodes /\ p \in Seq(Components) /\ q \in DOMAIN nodes /\ q \in Seq(Components)
  BY OnRouteIsPath
<1> DEFINE T == {i \in 1 .. Len(p) : p[i] # q[i]}
<1>2. CASE T = {}
  <2>1. \A i \in 1 .. Len(p) : p[i] = q[i]
    BY <1>2
  <2> QED BY <1>1, <2>1, SeqEqual
<1>3. CASE T # {}
  <2>1. T \in SUBSET Nat
    OBVIOUS
  <2>2. PICK i \in T : \A n \in T : i <= n
    BY <1>3, <2>1, LeastNumber
  <2>3. i \in 1 .. Len(p) /\ i \in 1 .. Len(q) /\ p[i] # q[i]
    BY <2>2
  <2>4. i \in Nat /\ \A n \in 1 .. i - 1 : p[n] = q[n]
    <3>1. \A n \in 1 .. i - 1 : n \in 1 .. Len(p) /\ ~(i <= n)
      BY <2>3
    <3> QED BY <2>2, <2>3, <3>1
  <2> HIDE DEF T
  <2> DEFINE a == SubSeq(p, 1, i - 1)
             b == SubSeq(q, 1, i - 1)
  <2>5. a = b
    <3>1. i - 1 \in 0 .. Len(p) /\ i - 1 \in 0 .. Len(q)
      BY <1>1, <2>3
    <3>2. a \in Seq(Components) /\ Len(a) = i - 1 /\ \A n \in 1 .. i - 1 : a[n] = p[n]
      BY <1>1, <3>1, Prefix
    <3>3. b \in Seq(Components) /\ Len(b) = i - 1 /\ \A n \in 1 .. i - 1 : b[n] = q[n]
      BY <1>1, <3>1, Prefix
    <3> HIDE DEF a, b
    <3>4. \A n \in 1 .. Len(a) : a[n] = b[n]
      BY <2>4, <3>2, <3>3
    <3> QED BY <3>2, <3>3, <3>4, SeqEqual
  <2>6. SubSeq(p, 1, i) = Append(a, p[i]) /\ SubSeq(q, 1, i) = Append(b, q[i])
    BY <1>1, <2>3, LastOfPrefix
  <2>7. SubSeq(p, 1, i) \in DOMAIN nodes /\ SubSeq(q, 1, i) \in DOMAIN nodes
    <3>1. i \in 0 .. Len(p) /\ i \in 0 .. Len(q)
      BY <1>1, <2>3
    <3> QED BY <1>1, <3>1, PrefixInTree
  <2>8. /\ p[i] = route[i] \/ (p[i] = Wildcard /\ Append(a, route[i]) \notin DOMAIN nodes)
        /\ q[i] = route[i] \/ (q[i] = Wildcard /\ Append(b, route[i]) \notin DOMAIN nodes)
    BY <2>3 DEF OnRoute
  <2> HIDE DEF a, b
  <2>9. CASE p[i] = route[i]
    <3>1. Append(a, route[i]) \in DOMAIN nodes
      BY <2>6, <2>7, <2>9
    <3> QED BY <2>3, <2>5, <2>8, <2>9, <3>1
  <2>10. CASE p[i] # route[i]
    <3>1. p[i] = Wildcard /\ Append(a, route[i]) \notin DOMAIN nodes
      BY <2>8, <2>10
    <3>2. q[i] # route[i]
      BY <2>5, <2>6, <2>7, <3>1
    <3> QED BY <2>3, <2>8, <3>1, <3>2
  <2> QED BY <2>9, <2>10
<1> QED BY <1>2, <1>3

(* Child finds the next node on the route, if there is one; if there is    *)
(* none, the route has no deeper node either.                              *)
LEMMA ChildIsNext ==
    ASSUME NEW r, tree[r] \in NodeMaps, NEW route \in Seq(Components),
           NEW p \in OnRoute(tree[r], route), Len(p) < Len(route)
    PROVE  LET c == Child(r, p, route[Len(p) + 1])
           IN  /\ c # Null => c \in OnRoute(tree[r], route) /\ Len(c) = Len(p) + 1
               /\ c = Null => \A q \in OnRoute(tree[r], route) : Len(q) <= Len(p)
<1> DEFINE nodes == tree[r]
           x == route[Len(p) + 1]
           S == Components \cup {Wildcard}
           c == Child(r, p, x)
<1>1. p \in DOMAIN nodes /\ p \in Seq(Components)
  BY OnRouteIsPath
<1>2. p \in Seq(S) /\ Len(p) \in Nat /\ x \in S /\ Wildcard \in S
  BY <1>1
<1>3. DOMAIN nodes \subseteq Paths /\ Null \notin DOMAIN nodes
  BY NullAssumption DEF NodeMaps
<1>4. ASSUME NEW y \in S, Append(p, y) \in DOMAIN nodes,
             y = x \/ (y = Wildcard /\ Append(p, x) \notin DOMAIN nodes)
      PROVE  Append(p, y) \in OnRoute(nodes, route) /\ Len(Append(p, y)) = Len(p) + 1
  <2> DEFINE a == Append(p, y)
  <2>1. /\ a \in Seq(S) /\ Len(a) = Len(p) + 1 /\ a[Len(p) + 1] = y
        /\ \A i \in 1 .. Len(p) : a[i] = p[i]
        /\ \A n \in 0 .. Len(p) : SubSeq(a, 1, n) = SubSeq(p, 1, n)
    BY <1>2, Snoc
  <2>2. SubSeq(p, 1, Len(p)) = p
    BY <1>2, SubSeqFull
  <2> HIDE DEF a
  <2>3. ASSUME NEW i \in 1 .. Len(a)
        PROVE  LET literal == Append(SubSeq(a, 1, i - 1), route[i])
               IN  a[i] = route[i] \/ (a[i] = Wildcard /\ literal \notin DOMAIN nodes)
    <3>1. CASE i = Len(p) + 1
      <4>1. SubSeq(a, 1, i - 1) = p
        BY <1>2, <2>1, <2>2, <3>1
      <4> QED BY <1>4, <2>1, <3>1, <4>1
    <3>2. CASE i # Len(p) + 1
      <4>1. i \in 1 .. Len(p) /\ i - 1 \in 0 .. Len(p)
        BY <1>2, <2>1, <3>2
      <4>2. a[i] = p[i] /\ SubSeq(a, 1, i - 1) = SubSeq(p, 1, i - 1)
        BY <2>1, <4>1
      <4> QED BY <4>1, <4>2 DEF OnRoute
    <3> QED BY <3>1, <3>2
  <2>4. Len(a) <= Len(route) /\ a \in DOMAIN nodes
    BY <1>2, <1>4, <2>1 DEF a
  <2> QED BY <2>1, <2>3, <2>4 DEF OnRoute, a
<1>5. CASE c # Null
  <2>1. \/ c = Append(p, x) /\ Append(p, x) \in DOMAIN nodes
        \/ /\ c = Append(p, Wildcard) /\ Append(p, Wildcard) \in DOMAIN nodes
           /\ Append(p, x) \notin DOMAIN nodes
    BY <1>5 DEF Child
  <2> HIDE DEF c, x
  <2> QED BY <1>2, <1>4, <1>5, <2>1 DEF c, x
<1>6. CASE c = Null
  <2>1. Append(p, x) \notin DOMAIN nodes /\ Append(p, Wildcard) \notin DOMAIN nodes
    BY <1>3, <1>6 DEF Child
  <2>2. ASSUME NEW q \in OnRoute(nodes, route), Len(q) > Len(p) PROVE FALSE
    <3> DEFINE n == Len(p)
               d == SubSeq(q, 1, n + 1)
               e == SubSeq(q, 1, n)
    <3>1. q \in DOMAIN nodes /\ q \in Seq(Components)
      BY OnRouteIsPath
    <3>2. n \in 0 .. Len(q) /\ n + 1 \in 0 .. Len(q) /\ n + 1 \in 1 .. Len(q) /\ n + 1 - 1 = n
      BY <1>2, <2>2, <3>1
    <3>3. e \in OnRoute(nodes, route) /\ Len(e) = n
      BY <3>1, <3>2, PrefixOnRoute, Prefix
    <3>4. e = p
      BY <3>3, OneNodeOfADepth
    <3>5. d = Append(e, q[n + 1]) /\ d \in DOMAIN nodes
      BY <3>1, <3>2, LastOfPrefix, PrefixInTree
    <3>6. q[n + 1] = x \/ q[n + 1] = Wildcard
      BY <3>2 DEF OnRoute
    <3> HIDE DEF d, e
    <3> QED BY <2>1, <3>4, <3>5, <3>6
  <2>3. \A q \in OnRoute(nodes, route) : Len(q) <= Len(p)
    <3> TAKE q \in OnRoute(nodes, route)
    <3>1. Len(q) \in Nat
      BY OnRouteIsPath
    <3> QED BY <1>2, <2>2, <3>1
  <2> QED BY <1>6, <2>3
<1> QED BY <1>5, <1>6
-----------------------------------------------------------------------------
(* The reference.                                                          *)

(* The parts of Expected.                                                  *)
SubOutcome(t, outcome, r, route, p) == outcome[<<t[r][p].router, Rest(route, Len(p))>>]

MountedOn(t, r, route) == {p \in OnRoute(t[r], route) : t[r][p].router # Null}
Answering(t, outcome, r, route, result) ==
    {p \in MountedOn(t, r, route) : SubOutcome(t, outcome, r, route, p).result = result}
Ends(t, r, route) == {p \in OnRoute(t[r], route) : Len(p) = Len(route)}
Chosen(t, r, route, method) ==
    {p \in Ends(t, r, route) :
        {method, Here, Recursive} \cap DOMAIN t[r][p].endpoints # {}}
Catching(t, r, route) ==
    {p \in OnRoute(t[r], route) : Recursive \in DOMAIN t[r][p].endpoints}

LEMMA ExpectedIs ==
    ASSUME NEW t, NEW outcome, NEW r, NEW route, NEW method
    PROVE  Expected(t, outcome, r, route, method) =
             LET handling == Answering(t, outcome, r, route, "Handled")
                 chosen   == Chosen(t, r, route, method)
             IN  IF handling # {}
                 THEN SubOutcome(t, outcome, r, route, Shallowest(handling))
                 ELSE IF chosen # {}
                 THEN LET p == CHOOSE p \in chosen : TRUE
                      IN  Handled(r, p, Choice(t[r][p].endpoints, method))
                 ELSE IF \E p \in Ends(t, r, route) : t[r][p].endpoints # <<>>
                 THEN Refused("InvalidMethod")
                 ELSE IF /\ Answering(t, outcome, r, route, "InvalidMethod") # {}
                         /\ Ends(t, r, route) = {}
                 THEN Refused("InvalidMethod")
                 ELSE IF Catching(t, r, route) # {}
                 THEN Handled(r, Deepest(Catching(t, r, route)), Recursive)
                 ELSE Refused("NotFound")
BY DEF Expected, SubOutcome, MountedOn, Answering, Ends, Chosen, Catching

(* Every non-empty set of nodes has a shallowest one.                      *)
LEMMA ShallowestIs ==
    ASSUME NEW P \in SUBSET Seq(Components), P # {}
    PROVE  Shallowest(P) \in P /\ \A p \in P : Len(Shallowest(P)) <= Len(p)
<1> DEFINE T == {Len(p) : p \in P}
<1>1. T \in SUBSET Nat /\ T # {}
  <2>1. \A p \in P : Len(p) \in Nat
    OBVIOUS
  <2> QED BY <2>1
<1>2. PICK least \in T : \A n \in T : least <= n
  BY <1>1, LeastNumber
<1>3. \E p \in P : \A q \in P : Len(p) <= Len(q)
  BY <1>2
<1> QED BY <1>3 DEF Shallowest

(* The reference for a router depends on that for the routers mounted in   *)
(* it and on no other.                                                     *)
LEMMA OnlySubsMatter ==
    ASSUME NEW t \in [Routers -> NodeMaps], NEW r \in Routers, NEW route, NEW method,
           NEW f, NEW g,
           \A p \in MountedOn(t, r, route) :
              SubOutcome(t, f, r, route, p) = SubOutcome(t, g, r, route, p)
    PROVE  Expected(t, f, r, route, method) = Expected(t, g, r, route, method)
<1>1. \A result : Answering(t, f, r, route, result) = Answering(t, g, r, route, result)
  BY DEF Answering
<1>2. ASSUME Answering(t, f, r, route, "Handled") # {}
      PROVE  LET p == Shallowest(Answering(t, f, r, route, "Handled"))
             IN  SubOutcome(t, f, r, route, p) = SubOutcome(t, g, r, route, p)
  <2>1. Answering(t, f, r, route, "Handled") \in SUBSET Seq(Components)
    BY OnRouteIsPath DEF Answering, MountedOn
  <2>2. Shallowest(Answering(t, f, r, route, "Handled"))
            \in Answering(t, f, r, route, "Handled")
    BY <1>2, <2>1, ShallowestIs
  <2> QED BY <2>2 DEF Answering
<1>3. CASE Answering(t, f, r, route, "Handled") # {}
  BY <1>1, <1>2, <1>3, ExpectedIs
<1>4. CASE Answering(t, f, r, route, "Handled") = {}
  <2>1. Answering(t, g, r, route, "Handled") = {}
    BY <1>1, <1>4
  <2>2. Answering(t, f, r, route, "InvalidMethod") = Answering(t, g, r, route, "InvalidMethod")
    BY <1>1
  <2> DEFINE Left(a) ==
               IF Chosen(t, r, route, method) # {}
               THEN LET p == CHOOSE p \in Chosen(t, r, route, method) : TRUE
                    IN  Handled(r, p, Choice(t[r][p].endpoints, method))
               ELSE IF \E p \in Ends(t, r, route) : t[r][p].endpoints # <<>>
               THEN Refused("InvalidMethod")
               ELSE IF a # {} /\ Ends(t, r, route) = {}
               THEN Refused("InvalidMethod")
               ELSE IF Catching(t, r, route) # {}
               THEN Handled(r, Deepest(Catching(t, r, route)), Recursive)
               ELSE Refused("NotFound")
  <2>3. Expected(t, f, r, route, method) = Left(Answering(t, f, r, route, "InvalidMethod"))
    BY <1>4, ExpectedIs
  <2>4. Expected(t, g, r, route, method) = Left(Answering(t, g, r, route, "InvalidMethod"))
    BY <2>1, ExpectedIs
  <2> HIDE DEF Left
  <2> QED BY <2>2, <2>3, <2>4
<1> QED BY <1>3, <1>4

LEMMA OutcomeResult ==
    ASSUME NEW t \in [Routers -> NodeMaps], NEW outcome, NEW r \in Routers, NEW route,
           NEW method
    PROVE  Expected(t, outcome, r, route, method).result
               \in {"Handled", "InvalidMethod", "NotFound"}
<1> DEFINE handling == Answering(t, outcome, r, route, "Handled")
<1>1. CASE handling # {}
  <2>1. handling \in SUBSET Seq(Components)
    BY OnRouteIsPath DEF Answering, MountedOn
  <2>2. Shallowest(handling) \in handling
    BY <1>1, <2>1, ShallowestIs
  <2>3. SubOutcome(t, outcome, r, route, Shallowest(handling)).result = "Handled"
    BY <2>2 DEF Answering
  <2> HIDE DEF handling
  <2> QED BY <1>1, <2>3, ExpectedIs DEF handling
<1>2. CASE handling = {}
  <2>1. /\ \A p, m : Handled(r, p, m).result = "Handled"
        /\ \A result : Refused(result).result = result
    BY DEF Handled, Refused
  <2> QED BY <1>2, <2>1, ExpectedIs
<1> QED BY <1>1, <1>2

(* Whatever is mounted, was mounted by one of the registrations.           *)
MountsOK(t) ==
    \A r \in Routers : \A p \in DOMAIN t[r] :
        t[r][p].router # Null => \E m \in Mounts : m.router = r /\ m.mounted = t[r][p].router

LEMMA SubCall ==
    ASSUME NEW t \in [Routers -> NodeMaps], NEW r \in Routers, NEW route \in Suffixes,
           NEW p \in MountedOn(t, r, route)
    PROVE  <<t[r][p].router, Rest(route, Len(p))>> \in Routers \X Suffixes
<1>1. p \in OnRoute(t[r], route) /\ t[r][p].router # Null /\ t[r] \in NodeMaps
  BY DEF MountedOn
<1>2. p \in DOMAIN t[r] /\ p \in Seq(Components) /\ Len(p) <= Len(route)
  BY <1>1, OnRouteIsPath
<1>3. t[r][p] \in Nodes
  BY <1>1, <1>2 DEF NodeMaps
<1>4. t[r][p].router \in Routers
  BY <1>1, <1>3 DEF Nodes
<1>5. route \in Seq(Components) /\ Len(p) \in 0 .. Len(route)
  BY <1>2, SuffixesClosed
<1>6. Rest(route, Len(p)) \in Suffixes
  BY <1>5, SuffixesClosed
<1> QED BY <1>4, <1>6

(* The function that Reference names exists: it can be built from the      *)
(* routers nothing is mounted in to those they are mounted in.             *)
LEMMA ReferenceExists ==
    ASSUME NEW t \in [Routers -> NodeMaps], MountsOK(t), NEW method
    PROVE  \E f : f = [call \in Routers \X Suffixes |->
                          Expected(t, f, call[1], call[2], method)]
<1> DEFINE D == Routers \X Suffixes
           E(f, call) == Expected(t, f, call[1], call[2], method)
           N == Cardinality(Routers)
<1>1. N \in Nat
  BY RootAssumption, FS_CardinalityType
<1>2. PICK rank \in [Routers -> 1 .. N] :
        \A m \in Mounts : rank[m.router] < rank[m.mounted]
  BY MountsAssumption
<1> DEFINE Solved(f, n) == \A call \in D : rank[call[1]] > N - n => f[call] = E(f, call)
           S == {n \in Nat : \E f : f = [call \in D |-> f[call]] /\ Solved(f, n)}
<1>3. 0 \in S
  <2> DEFINE f == [call \in D |-> Null]
  <2>1. f = [call \in D |-> f[call]]
    OBVIOUS
  <2>2. \A call \in D : ~(rank[call[1]] > N - 0)
    BY <1>1, <1>2
  <2>3. Solved(f, 0)
    BY <2>2
  <2> HIDE DEF f
  <2> QED BY <2>1, <2>3
<1>4. ASSUME NEW n \in Nat, n \in S PROVE n + 1 \in S
  <2>1. PICK f : f = [call \in D |-> f[call]] /\ Solved(f, n)
    BY <1>4
  <2> HIDE DEF E
  <2> DEFINE g == [call \in D |-> E(f, call)]
  <2>2. ASSUME NEW call \in D, rank[call[1]] > N - (n + 1) PROVE g[call] = E(g, call)
    <3> DEFINE r == call[1]
               route == call[2]
    <3>1. r \in Routers /\ route \in Suffixes
      OBVIOUS
    <3>2. ASSUME NEW p \in MountedOn(t, r, route)
          PROVE  SubOutcome(t, f, r, route, p) = SubOutcome(t, g, r, route, p)
      <4> DEFINE sub == <<t[r][p].router, Rest(route, Len(p))>>
      <4>1. sub \in D /\ sub[1] = t[r][p].router
        BY <3>1, SubCall
      <4>2. p \in DOMAIN t[r] /\ t[r][p].router # Null
        BY <3>1, OnRouteIsPath DEF MountedOn
      <4>3. PICK m \in Mounts : m.router = r /\ m.mounted = t[r][p].router
        BY <3>1, <4>2 DEF MountsOK
      <4>4. rank[sub[1]] > rank[r]
        BY <1>2, <4>1, <4>3
      <4>5. rank[sub[1]] \in Nat /\ rank[r] \in Nat
        BY <1>1, <1>2, <3>1, <4>1
      <4>6. rank[sub[1]] > N - n
        BY <1>1, <2>2, <4>4, <4>5
      <4>7. f[sub] = g[sub]
        BY <2>1, <4>1, <4>6
      <4> QED BY <4>7 DEF SubOutcome
    <3>3. E(f, call) = E(g, call)
      BY <3>1, <3>2, OnlySubsMatter DEF E
    <3> QED BY <3>3
  <2>3. g = [call \in D |-> g[call]]
    OBVIOUS
  <2>4. Solved(g, n + 1)
    BY <2>2
  <2> HIDE DEF g, Solved
  <2>5. n + 1 \in Nat /\ \E h : h = [call \in D |-> h[call]] /\ Solved(h, n + 1)
    BY <2>3, <2>4
  <2> QED BY <2>5
<1> HIDE DEF S
<1>5. N \in S
  BY <1>1, <1>3, <1>4, Induction
<1>6. PICK f : f = [call \in D |-> f[call]] /\ Solved(f, N)
  BY <1>5 DEF S
<1>7. \A call \in D : rank[call[1]] > N - N
  BY <1>1, <1>2
<1>8. [call \in D |-> f[call]] = [call \in D |-> E(f, call)]
  BY <1>6, <1>7
<1>9. f = [call \in D |-> E(f, call)]
  BY <1>6, <1>8
<1> QED BY <1>9

(* The reference is what its definition says, for every call of every      *)
(* router: as handle_request it comes to an end although routers call each *)
(* other, because none is mounted inside itself.                           *)
THEOREM ReferenceIs ==
    ASSUME NEW t \in [Routers -> NodeMaps], MountsOK(t), NEW method,
           NEW r \in Routers, NEW route \in Suffixes
    PROVE  Reference(t, method)[<<r, route>>]
               = Expected(t, Reference(t, method), r, route, method)
<1>1. Reference(t, method) = [call \in Routers \X Suffixes |->
                                Expected(t, Reference(t, method), call[1], call[2], method)]
  BY ReferenceExists DEF Reference
<1> QED BY <1>1
-----------------------------------------------------------------------------
(* The walk.                                                               *)

(* What a reference o says of a call.                                      *)
Due(o, f) == o[<<f.router, f.route>>]

(* The nodes whose sub-routers a call has tried.                           *)
Tried(f, p) == \/ Len(p) < f.walked
               \/ Len(p) = f.walked /\ f.at \in {"walk", "select"}

ResultOK(t, o, f) ==
    /\ f.result \in {"NotFound", "InvalidMethod"}
    /\ \A p \in Answering(t, o, f.router, f.route, "Handled") : ~Tried(f, p)
    /\ f.result = "InvalidMethod" <=>
          \E p \in Answering(t, o, f.router, f.route, "InvalidMethod") : Tried(f, p)

CatchOK(t, f) ==
    LET catching == Catching(t, f.router, f.route)
    IN  /\ f.catch = Null => \A p \in catching : Len(p) > f.walked
        /\ f.catch # Null =>
              /\ f.catch \in catching
              /\ \A p \in catching : Len(p) <= f.walked => Len(p) <= Len(f.catch)

PlaceOK(t, o, f) ==
    LET on == OnRoute(t[f.router], f.route)
    IN  /\ f.at \in {"node", "sub", "walk"} => f.node \in on /\ Len(f.node) = f.walked
        /\ f.at = "sub" => t[f.router][f.node].router # Null
        /\ f.at = "select" => /\ f.node = Null /\ f.walked < Len(f.route)
                              /\ \A p \in on : Len(p) <= f.walked
        /\ f.at = "callback" => Due(o, f) = Handled(f.router, f.running.node, f.running.method)

CallOK(t, o, f) ==
    /\ f.route \in Suffixes
    /\ PlaceOK(t, o, f)
    /\ f.at \in {"node", "sub", "walk", "select"} => ResultOK(t, o, f) /\ CatchOK(t, f)
    /\ f.at = "lock" => f.walked = 0 /\ f.result = "NotFound"

(* A call that is to be handled is handled as the request is.              *)
HeirOK(t, o, due, f) ==
    /\ CallOK(t, o, f)
    /\ Due(o, f).result = "Handled" => Due(o, f) = due

(* The stack of a request of a method for a route: every call but the      *)
(* innermost waits for its sub-router, whose answer is the reference's.    *)
DispatchOK(t, method, route, s, said) ==
    LET o   == Reference(t, method)
        due == o[<<Root, route>>]
        n   == Len(s)
    IN  /\ \A i \in 1 .. n : HeirOK(t, o, due, s[i])
        /\ \A i \in 1 .. n - 1 : s[i].at = "sub"
        /\ s # <<>> => s[1].router = Root /\ s[1].route = route
        /\ said = "none" => s # <<>> /\ s[n].at # "sub"
        /\ said # "none" /\ s # <<>> =>
              /\ s[n].at = "sub"
              /\ said = SubOutcome(t, o, s[n].router, s[n].route, s[n].node).result
        /\ said # "none" /\ s = <<>> => said \in {"InternalError", due.result}

Trees == {t \in [Routers -> NodeMaps] : MountsOK(t)}

LEMMA DueIs ==
    ASSUME NEW t \in Trees, NEW method, NEW f \in Frames, f.route \in Suffixes
    PROVE  LET o == Reference(t, method)
           IN  /\ Due(o, f) = Expected(t, o, f.router, f.route, method)
               /\ Due(o, f).result \in {"Handled", "InvalidMethod", "NotFound"}
<1>1. f.router \in Routers /\ t \in [Routers -> NodeMaps] /\ MountsOK(t)
  BY DEF Frames, Trees
<1> QED BY <1>1, ReferenceIs, OutcomeResult DEF Due

(* The first sub-router that handles the request decides.                  *)
LEMMA SubDecides ==
    ASSUME NEW t \in Trees, NEW method, NEW f \in Frames,
           CallOK(t, Reference(t, method), f), f.at \in {"node", "sub"},
           t[f.router][f.node].router # Null,
           SubOutcome(t, Reference(t, method), f.router, f.route, f.node).result = "Handled"
    PROVE  Due(Reference(t, method), f)
               = SubOutcome(t, Reference(t, method), f.router, f.route, f.node)
<1> DEFINE o == Reference(t, method)
           handling == Answering(t, o, f.router, f.route, "Handled")
<1>1. f.route \in Suffixes /\ ResultOK(t, o, f) /\ f.node \in OnRoute(t[f.router], f.route)
      /\ Len(f.node) = f.walked
  BY DEF CallOK, PlaceOK
<1>2. t[f.router] \in NodeMaps /\ f.route \in Seq(Components) /\ f.walked \in Nat
  BY <1>1, SuffixesClosed DEF Trees, Frames
<1> HIDE DEF o
<1>3. f.node \in handling
  BY <1>1 DEF Answering, MountedOn, o
<1>4. handling \in SUBSET OnRoute(t[f.router], f.route)
  BY DEF Answering, MountedOn
<1>5. handling \in SUBSET Seq(Components)
  BY <1>2, <1>4, OnRouteIsPath
<1>6. Shallowest(handling) \in handling /\ Len(Shallowest(handling)) <= Len(f.node)
  BY <1>3, <1>5, ShallowestIs
<1>7. ~Tried(f, Shallowest(handling))
  BY <1>1, <1>6 DEF ResultOK
<1>8. Len(Shallowest(handling)) = Len(f.node)
  <2>1. Len(Shallowest(handling)) \in Nat /\ ~(Len(Shallowest(handling)) < f.walked)
    BY <1>5, <1>6, <1>7 DEF Tried
  <2> QED BY <1>1, <1>2, <1>6, <2>1
<1>9. Shallowest(handling) = f.node
  BY <1>1, <1>2, <1>4, <1>6, <1>8, OneNodeOfADepth
<1>10. Due(o, f) = Expected(t, o, f.router, f.route, method)
  BY <1>1, DueIs DEF o
<1> QED BY <1>3, <1>9, <1>10, ExpectedIs DEF o

(* At the end of the walk all sub-routers have been tried.                 *)
LEMMA WalkIsOver ==
    ASSUME NEW t \in Trees, NEW method, NEW f \in Frames,
           CallOK(t, Reference(t, method), f), f.at \in {"node", "walk", "select"},
           f.at = "node" => t[f.router][f.node].router = Null,
           f.at # "select" => f.walked = Len(f.route)
    PROVE  LET o == Reference(t, method)
               refusing == Answering(t, o, f.router, f.route, "InvalidMethod")
           IN  /\ Answering(t, o, f.router, f.route, "Handled") = {}
               /\ refusing # {} <=> f.result = "InvalidMethod"
               /\ Catching(t, f.router, f.route) = {} <=> f.catch = Null
               /\ f.catch # Null => Deepest(Catching(t, f.router, f.route)) = f.catch
               /\ f.at = "select" => Ends(t, f.router, f.route) = {}
               /\ f.at # "select" => Ends(t, f.router, f.route) = {f.node}
<1> DEFINE o == Reference(t, method)
           on == OnRoute(t[f.router], f.route)
           catching == Catching(t, f.router, f.route)
<1>1. f.route \in Suffixes /\ PlaceOK(t, o, f) /\ ResultOK(t, o, f) /\ CatchOK(t, f)
  BY DEF CallOK
<1> HIDE DEF o
<1>2. t[f.router] \in NodeMaps /\ f.route \in Seq(Components) /\ f.walked \in Nat
      /\ Len(f.route) \in Nat
  BY <1>1, SuffixesClosed DEF Trees, Frames
<1>3. \A p \in on : p \in Seq(Components) /\ Len(p) \in Nat /\ Len(p) <= Len(f.route)
  BY <1>2, OnRouteIsPath
<1>4. \A p \in on : Len(p) <= f.walked
  BY <1>1, <1>3 DEF PlaceOK
<1>5. \A p, q \in on : Len(p) = Len(q) => p = q
  BY <1>2, OneNodeOfADepth
<1>6. f.at # "select" => f.node \in on /\ Len(f.node) = f.walked
  BY <1>1 DEF PlaceOK
<1>7. ASSUME NEW result, NEW p \in Answering(t, o, f.router, f.route, result)
      PROVE  Tried(f, p)
  <2>1. p \in on /\ t[f.router][p].router # Null
    BY <1>7 DEF Answering, MountedOn
  <2>2. Len(p) <= f.walked /\ Len(p) \in Nat
    BY <1>3, <1>4, <2>1
  <2>3. CASE f.at = "node"
    <3>1. p # f.node
      BY <2>1, <2>3
    <3>2. Len(p) # f.walked
      BY <1>5, <1>6, <2>1, <2>3, <3>1
    <3> QED BY <1>2, <2>2, <3>2 DEF Tried
  <2>4. CASE f.at # "node"
    BY <1>2, <2>2, <2>4 DEF Tried
  <2> QED BY <2>3, <2>4
<1>8. /\ Answering(t, o, f.router, f.route, "Handled") = {}
      /\ Answering(t, o, f.router, f.route, "InvalidMethod") # {} <=> f.result = "InvalidMethod"
  BY <1>1, <1>7 DEF ResultOK
<1>9. catching \in SUBSET on
  BY DEF Catching
<1>10. catching = {} <=> f.catch = Null
  <2>1. CASE f.catch = Null
    <3>1. \A p \in catching : Len(p) > f.walked
      BY <1>1, <2>1 DEF CatchOK
    <3>2. \A p \in catching : Len(p) <= f.walked /\ Len(p) \in Nat
      BY <1>3, <1>4, <1>9
    <3> QED BY <1>2, <2>1, <3>1, <3>2
  <2>2. CASE f.catch # Null
    BY <1>1, <2>2 DEF CatchOK
  <2> QED BY <2>1, <2>2
<1>11. ASSUME f.catch # Null PROVE Deepest(catching) = f.catch
  <2>1. f.catch \in catching /\ \A p \in catching : Len(f.catch) >= Len(p)
    <3>1. f.catch \in catching /\ \A p \in catching : Len(p) <= Len(f.catch)
      BY <1>1, <1>4, <1>9, <1>11 DEF CatchOK
    <3>2. \A p \in catching : Len(p) \in Nat
      BY <1>3, <1>9
    <3> HIDE DEF catching
    <3> QED BY <3>1, <3>2
  <2>2. \A p \in catching : (\A q \in catching : Len(p) >= Len(q)) => p = f.catch
    <3> TAKE p \in catching
    <3> HAVE \A q \in catching : Len(p) >= Len(q)
    <3>1. Len(p) >= Len(f.catch) /\ Len(f.catch) >= Len(p)
      BY <2>1
    <3>2. p \in on /\ f.catch \in on /\ Len(p) \in Nat /\ Len(f.catch) \in Nat
      BY <1>3, <1>9, <2>1
    <3>3. Len(p) = Len(f.catch)
      BY <3>1, <3>2
    <3> QED BY <1>5, <3>2, <3>3
  <2> HIDE DEF catching
  <2> QED BY <2>1, <2>2 DEF Deepest
<1>12. f.at = "select" => Ends(t, f.router, f.route) = {}
  BY <1>1, <1>2, <1>3 DEF PlaceOK, Ends
<1>13. f.at # "select" => Ends(t, f.router, f.route) = {f.node}
  BY <1>5, <1>6 DEF Ends
<1> QED BY <1>8, <1>10, <1>11, <1>12, <1>13 DEF o
-----------------------------------------------------------------------------
(* The stack of a request.                                                 *)

(* The innermost call goes on.                                             *)
LEMMA Advance ==
    ASSUME NEW t, NEW method, NEW route, NEW s \in Seq(Frames), s # <<>>, NEW said,
           DispatchOK(t, method, route, s, said),
           NEW g \in Frames, g.router = s[Len(s)].router, g.route = s[Len(s)].route,
           g.at # "sub", CallOK(t, Reference(t, method), g)
    PROVE  DispatchOK(t, method, route, [s EXCEPT ![Len(s)] = g], "none")
<1> DEFINE n == Len(s)
           q == [s EXCEPT ![n] = g]
           o == Reference(t, method)
           due == Reference(t, method)[<<Root, route>>]
<1>1. n \in Nat \ {0} /\ q \in Seq(Frames) /\ Len(q) = n /\ q[n] = g
      /\ \A i \in 1 .. n - 1 : q[i] = s[i]
  OBVIOUS
<1>2. /\ \A i \in 1 .. n : HeirOK(t, o, due, s[i])
      /\ \A i \in 1 .. n - 1 : s[i].at = "sub"
      /\ s[1].router = Root /\ s[1].route = route
  BY DEF DispatchOK
<1>3. CallOK(t, o, g) /\ g.router = s[n].router /\ g.route = s[n].route
  OBVIOUS
<1> HIDE DEF q, o, due
<1>4. HeirOK(t, o, due, g)
  <2>1. HeirOK(t, o, due, s[n]) /\ Due(o, g) = Due(o, s[n])
    BY <1>1, <1>2, <1>3 DEF Due
  <2> QED BY <1>3, <2>1 DEF HeirOK
<1>5. \A i \in 1 .. n : HeirOK(t, o, due, q[i])
  <2> TAKE i \in 1 .. n
  <2>1. CASE i = n
    BY <1>1, <1>4, <2>1
  <2>2. CASE i # n
    <3>1. i \in 1 .. n - 1
      BY <1>1, <2>2
    <3> QED BY <1>1, <1>2, <3>1
  <2> QED BY <2>1, <2>2
<1>6. q[1].router = Root /\ q[1].route = route
  <2>1. CASE n = 1
    BY <1>1, <1>2, <1>3, <2>1
  <2>2. CASE n # 1
    <3>1. 1 \in 1 .. n - 1
      BY <1>1, <2>2
    <3> QED BY <1>1, <1>2, <3>1
  <2> QED BY <2>1, <2>2
<1>7. q # <<>> /\ q[n].at # "sub" /\ \A i \in 1 .. n - 1 : q[i].at = "sub"
  BY <1>1, <1>2
<1>8. DispatchOK(t, method, route, q, "none")
  BY <1>1, <1>5, <1>6, <1>7 DEF DispatchOK, o, due
<1> QED BY <1>8 DEF q

(* The innermost call returns what the reference says.                     *)
LEMMA ReturnOK ==
    ASSUME NEW t, NEW method, NEW route, NEW s, StackOK(t, s), s # <<>>, NEW said,
           DispatchOK(t, method, route, s, said),
           NEW result, result = Due(Reference(t, method), s[Len(s)]).result, result # "none"
    PROVE  DispatchOK(t, method, route, SubSeq(s, 1, Len(s) - 1), result)
<1> DEFINE n == Len(s)
           q == SubSeq(s, 1, n - 1)
           o == Reference(t, method)
           due == Reference(t, method)[<<Root, route>>]
<1>1. n \in Nat \ {0} /\ q \in Seq(Frames) /\ Len(q) = n - 1
      /\ \A i \in 1 .. n - 1 : q[i] = s[i]
  <2>1. s \in Seq(Frames)
    BY DEF StackOK
  <2> QED BY <2>1, Below
<1>2. /\ \A i \in 1 .. n : HeirOK(t, o, due, s[i])
      /\ \A i \in 1 .. n - 1 : s[i].at = "sub"
      /\ s[1].router = Root /\ s[1].route = route
  BY DEF DispatchOK
<1>3. n > 1 => LinkOK(t, s[n - 1], s[n]) /\ s[n - 1] \in Frames
  <2> HAVE n > 1
  <2>1. n \in 2 .. Len(s) /\ n - 1 \in 1 .. Len(s)
    BY <1>1
  <2> QED BY <2>1 DEF StackOK, FrameOK
<1>4. n > 1 => s[n - 1].at = "sub" /\ Len(s[n - 1].node) = s[n - 1].walked
  <2> HAVE n > 1
  <2>1. n - 1 \in 1 .. n - 1 /\ n - 1 \in 1 .. n
    BY <1>1
  <2>2. HeirOK(t, o, due, s[n - 1]) /\ s[n - 1].at = "sub"
    BY <1>2, <2>1
  <2> QED BY <2>2 DEF HeirOK, CallOK, PlaceOK
<1>0. result = Due(o, s[n]).result /\ result # "none"
  OBVIOUS
<1> HIDE DEF q, o, due
<1>5. CASE n = 1
  <2>1. q = <<>>
    BY <1>1, <1>5
  <2>2. result = due.result
    BY <1>0, <1>2, <1>5 DEF due, Due
  <2>3. DispatchOK(t, method, route, q, result)
    BY <1>0, <1>1, <1>5, <2>1, <2>2 DEF DispatchOK, o, due
  <2> QED BY <2>3 DEF q
<1>6. CASE n # 1
  <2>1. n > 1 /\ 1 \in 1 .. n - 1 /\ n - 1 \in 1 .. n - 1 /\ n - 1 \in Nat
    BY <1>1, <1>6
  <2>2. result = SubOutcome(t, o, s[n - 1].router, s[n - 1].route, s[n - 1].node).result
    BY <1>0, <1>3, <1>4, <2>1 DEF SubOutcome, LinkOK, Due
  <2>3. q[n - 1] = s[n - 1] /\ q[1] = s[1]
    BY <1>1, <2>1
  <2>4. \A i \in 1 .. n - 1 : HeirOK(t, o, due, q[i])
    BY <1>1, <1>2
  <2>5. \A i \in 1 .. n - 1 - 1 : q[i].at = "sub"
    BY <1>1, <1>2
  <2>6. q # <<>>
    BY <1>1, <2>1
  <2>7. q[n - 1].at = "sub" /\ q[1].router = Root /\ q[1].route = route
    BY <1>2, <1>4, <2>1, <2>3
  <2>8. DispatchOK(t, method, route, q, result)
    BY <1>0, <1>1, <2>2, <2>3, <2>4, <2>5, <2>6, <2>7 DEF DispatchOK, o, due
  <2> QED BY <2>8 DEF q
<1> QED BY <1>5, <1>6
LEMMA SubResult ==
    ASSUME NEW t \in Trees, NEW method, NEW r \in Routers, NEW route \in Suffixes,
           NEW p \in MountedOn(t, r, route)
    PROVE  SubOutcome(t, Reference(t, method), r, route, p).result
               \in {"Handled", "InvalidMethod", "NotFound"}
<1> DEFINE sub  == t[r][p].router
           rest == Rest(route, Len(p))
<1>1. t \in [Routers -> NodeMaps] /\ MountsOK(t)
  BY DEF Trees
<1>2. sub \in Routers /\ rest \in Suffixes
  BY <1>1, SubCall
<1> HIDE DEF sub, rest
<1>3. Reference(t, method)[<<sub, rest>>].result \in {"Handled", "InvalidMethod", "NotFound"}
  BY <1>1, <1>2, ReferenceIs, OutcomeResult
<1> QED BY <1>3 DEF SubOutcome, sub, rest

(* The innermost call makes another.                                       *)
SameBut(f, h, at) ==
    /\ f.at = at /\ f.router = h.router /\ f.route = h.route /\ f.walked = h.walked
    /\ f.node = h.node /\ f.catch = h.catch /\ f.result = h.result
CalledBy(g, t, f) ==
    /\ g.at = "lock" /\ g.walked = 0 /\ g.result = "NotFound"
    /\ g.router = t[f.router][f.node].router /\ g.router # Null
    /\ g.route = Rest(f.route, f.walked)

LEMMA CallSub ==
    ASSUME NEW t \in Trees, NEW method, NEW route, NEW s \in Seq(Frames), s # <<>>,
           DispatchOK(t, method, route, s, "none"), s[Len(s)].at = "node",
           NEW f \in Frames, SameBut(f, s[Len(s)], "sub"),
           NEW g \in Frames, CalledBy(g, t, f)
    PROVE  DispatchOK(t, method, route, Push(s, f, g), "none")
<1> DEFINE n == Len(s)
           h == s[n]
           q == Push(s, f, g)
           o == Reference(t, method)
           due == Reference(t, method)[<<Root, route>>]
<1>1. n \in Nat \ {0} /\ h \in Frames
      /\ q \in Seq(Frames) /\ Len(q) = n + 1 /\ q[n + 1] = g /\ q[n] = f
      /\ \A i \in 1 .. n - 1 : q[i] = s[i]
  <2>1. n \in Nat \ {0} /\ h \in Frames
    OBVIOUS
  <2>2. /\ Push(s, f, g) \in Seq(Frames) /\ Len(Push(s, f, g)) = Len(s) + 1
        /\ Push(s, f, g)[Len(s) + 1] = g /\ Push(s, f, g)[Len(s)] = f
        /\ \A i \in 1 .. Len(s) - 1 : Push(s, f, g)[i] = s[i]
    BY Pushed
  <2> QED BY <2>1, <2>2
<1>2. /\ \A i \in 1 .. n : HeirOK(t, o, due, s[i])
      /\ \A i \in 1 .. n - 1 : s[i].at = "sub"
      /\ s[1].router = Root /\ s[1].route = route
  BY DEF DispatchOK
<1>3. /\ f.at = "sub" /\ f.router = h.router /\ f.route = h.route /\ f.walked = h.walked
      /\ f.node = h.node /\ f.catch = h.catch /\ f.result = h.result
  BY DEF SameBut
<1>4. /\ g.at = "lock" /\ g.router = t[f.router][f.node].router /\ g.router # Null
      /\ g.route = Rest(f.route, f.walked) /\ g.walked = 0 /\ g.result = "NotFound"
  BY DEF CalledBy
<1>5. h.at = "node" /\ HeirOK(t, o, due, h)
  <2>1. n \in 1 .. n
    BY <1>1
  <2> QED BY <1>2, <2>1
<1> HIDE DEF q, o, due, h
<1>6. CallOK(t, o, h) /\ f.node \in OnRoute(t[f.router], f.route) /\ Len(f.node) = f.walked
      /\ f.route \in Suffixes
  BY <1>3, <1>5 DEF HeirOK, CallOK, PlaceOK
<1>7. CallOK(t, o, f)
  <2>1. \A p : Tried(f, p) <=> Tried(h, p)
    BY <1>3, <1>5 DEF Tried
  <2>2. ResultOK(t, o, h) /\ CatchOK(t, h)
    BY <1>5, <1>6 DEF CallOK
  <2>3. ResultOK(t, o, f) /\ CatchOK(t, f)
    BY <1>3, <2>1, <2>2 DEF ResultOK, CatchOK
  <2>4. PlaceOK(t, o, f)
    BY <1>3, <1>4, <1>5, <1>6 DEF PlaceOK
  <2> QED BY <1>3, <1>6, <2>3, <2>4 DEF CallOK
<1>8. HeirOK(t, o, due, f)
  <2>1. Due(o, f) = Due(o, h)
    BY <1>3 DEF Due
  <2> QED BY <1>5, <1>7, <2>1 DEF HeirOK
<1>9. CallOK(t, o, g)
  <2>1. f.walked \in 0 .. Len(f.route)
    <3>1. t[f.router] \in NodeMaps
      BY DEF Trees, Frames
    <3>2. Len(f.node) \in Nat /\ Len(f.node) <= Len(f.route) /\ Len(f.route) \in Nat
      BY <1>6, <3>1, OnRouteIsPath, SuffixesClosed
    <3> QED BY <1>6, <3>2
  <2>2. g.route \in Suffixes
    BY <1>4, <1>6, <2>1, SuffixesClosed
  <2> QED BY <1>4, <2>2 DEF CallOK, PlaceOK
<1>10. HeirOK(t, o, due, g)
  <2>1. Due(o, g) = SubOutcome(t, o, f.router, f.route, f.node)
    BY <1>4, <1>5, <1>6 DEF Due, SubOutcome
  <2>2. ASSUME Due(o, g).result = "Handled" PROVE Due(o, g) = due
    <3>1. Due(o, f) = Due(o, g)
      BY <1>3, <1>4, <1>7, <2>1, <2>2, SubDecides DEF o
    <3> QED BY <1>8, <2>2, <3>1 DEF HeirOK
  <2> QED BY <1>9, <2>2 DEF HeirOK
<1>11. \A i \in 1 .. n + 1 : HeirOK(t, o, due, q[i])
  <2> TAKE i \in 1 .. n + 1
  <2>1. CASE i = n
    BY <1>1, <1>8, <2>1
  <2>2. CASE i = n + 1
    BY <1>1, <1>10, <2>2
  <2>3. CASE i # n /\ i # n + 1
    <3>1. i \in 1 .. n - 1 /\ i \in 1 .. n
      BY <1>1, <2>3
    <3> QED BY <1>1, <1>2, <3>1
  <2> QED BY <2>1, <2>2, <2>3
<1>12. \A i \in 1 .. n : q[i].at = "sub"
  <2> TAKE i \in 1 .. n
  <2>1. CASE i = n
    BY <1>1, <1>3, <2>1
  <2>2. CASE i # n
    <3>1. i \in 1 .. n - 1
      BY <1>1, <2>2
    <3> QED BY <1>1, <1>2, <3>1
  <2> QED BY <2>1, <2>2
<1>13. q[1].router = Root /\ q[1].route = route
  <2>1. CASE n = 1
    BY <1>1, <1>2, <1>3, <2>1 DEF h
  <2>2. CASE n # 1
    <3>1. n \in Nat \ {0} /\ n # 1
      BY <1>1, <2>2
    <3> HIDE DEF n
    <3>2. 1 \in 1 .. n - 1
      BY <3>1
    <3> QED BY <1>1, <1>2, <3>2
  <2> QED BY <2>1, <2>2
<1>14. q # <<>> /\ q[n + 1].at # "sub"
  BY <1>1, <1>4
<1>15. /\ \A i \in 1 .. Len(q) : HeirOK(t, o, due, q[i])
       /\ \A i \in 1 .. Len(q) - 1 : q[i].at = "sub"
       /\ q[Len(q)].at # "sub"
  <2>1. Len(q) = n + 1 /\ Len(q) - 1 = n
    BY <1>1
  <2> QED BY <1>11, <1>12, <1>14, <2>1
<1>16. DispatchOK(t, method, route, q, "none")
  BY <1>13, <1>14, <1>15 DEF DispatchOK, o, due
<1> QED BY <1>16 DEF q
-----------------------------------------------------------------------------
(* The steps of a call.                                                    *)

LEMMA LockOK ==
    ASSUME NEW t \in Trees, NEW o, NEW f \in Frames, CallOK(t, o, f), f.at = "lock",
           NEW g \in Frames, g.at = "node", g.node = <<>>, g.router = f.router,
           g.route = f.route, g.walked = f.walked, g.result = f.result,
           g.catch = IF Recursive \in DOMAIN t[f.router][<<>>].endpoints THEN <<>> ELSE Null
    PROVE  CallOK(t, o, g)
<1>1. g.route \in Suffixes /\ g.walked = 0 /\ g.result = "NotFound"
  BY DEF CallOK
<1>2. t[g.router] \in NodeMaps /\ g.route \in Seq(Components)
  BY <1>1, SuffixesClosed DEF Trees, Frames
<1> DEFINE on == OnRoute(t[g.router], g.route)
           catching == Catching(t, g.router, g.route)
<1>3. <<>> \in on /\ \A p \in on : Len(p) \in Nat /\ (Len(p) <= 0 => p = <<>>)
  <2>1. <<>> \in on
    BY <1>2, RootOnRoute
  <2>2. \A p \in on : p \in Seq(Components)
    BY <1>2, OnRouteIsPath
  <2> QED BY <2>1, <2>2
<1>4. /\ catching \in SUBSET on
      /\ <<>> \in catching <=> Recursive \in DOMAIN t[g.router][<<>>].endpoints
  BY <1>3 DEF Catching
<1>5. Len(<<>>) = 0 /\ <<>> # Null
  BY NullAssumption DEF Paths
<1>6. g.catch = IF <<>> \in catching THEN <<>> ELSE Null
  BY <1>4
<1> HIDE DEF on, catching
<1>7. PlaceOK(t, o, g)
  BY <1>1, <1>3, <1>5 DEF PlaceOK, on
<1>8. \A p \in on : ~Tried(g, p)
  BY <1>1, <1>3 DEF Tried
<1>9. ResultOK(t, o, g)
  <2>1. \A result : Answering(t, o, g.router, g.route, result) \in SUBSET on
    BY DEF Answering, MountedOn, on
  <2> QED BY <1>1, <1>8, <2>1 DEF ResultOK
<1>10. CatchOK(t, g)
  <2>1. CASE <<>> \in catching
    <3>1. g.catch = <<>> /\ \A p \in catching : Len(p) <= g.walked => Len(p) <= Len(<<>>)
      BY <1>1, <1>5, <1>6, <2>1
    <3> QED BY <1>5, <2>1, <3>1 DEF CatchOK, catching
  <2>2. CASE <<>> \notin catching
    <3>1. g.catch = Null /\ \A p \in catching : Len(p) > g.walked
      BY <1>1, <1>3, <1>4, <1>6, <2>2
    <3> QED BY <1>5, <3>1 DEF CatchOK, catching
  <2> QED BY <2>1, <2>2
<1> QED BY <1>1, <1>7, <1>9, <1>10 DEF CallOK

(* At a node that is done with every node as deep has been tried.          *)
LEMMA TriedIs ==
    ASSUME NEW t \in Trees, NEW o, NEW f \in Frames, CallOK(t, o, f), f.at \in {"node", "walk"},
           f.at = "node" => t[f.router][f.node].router = Null,
           NEW result, NEW p \in Answering(t, o, f.router, f.route, result)
    PROVE  Len(p) \in Nat /\ (Tried(f, p) <=> Len(p) <= f.walked)
<1> DEFINE on == OnRoute(t[f.router], f.route)
<1>1. f.route \in Suffixes /\ f.node \in on /\ Len(f.node) = f.walked
  BY DEF CallOK, PlaceOK
<1>2. t[f.router] \in NodeMaps /\ f.route \in Seq(Components) /\ f.walked \in Nat
  BY <1>1, SuffixesClosed DEF Trees, Frames
<1>3. p \in on /\ t[f.router][p].router # Null
  BY DEF Answering, MountedOn
<1>4. Len(p) \in Nat
  BY <1>2, <1>3, OnRouteIsPath
<1> HIDE DEF on
<1>5. Len(p) = f.walked => p = f.node
  BY <1>1, <1>2, <1>3, OneNodeOfADepth DEF on
<1>6. Len(p) = f.walked => f.at = "walk"
  BY <1>3, <1>5
<1>7. Len(p) <= f.walked <=> Len(p) < f.walked \/ Len(p) = f.walked
  BY <1>2, <1>4
<1> QED BY <1>4, <1>6, <1>7 DEF Tried

LEMMA WalkOK ==
    ASSUME tree \in Trees, NEW o, NEW f \in Frames, CallOK(tree, o, f),
           f.at \in {"node", "walk"}, f.at = "node" => tree[f.router][f.node].router = Null,
           f.walked < Len(f.route),
           NEW next, next = Child(f.router, f.node, f.route[f.walked + 1]),
           NEW g \in Frames, g.router = f.router, g.route = f.route, g.result = f.result,
           next = Null => /\ g.at = "select" /\ g.node = Null
                          /\ g.walked = f.walked /\ g.catch = f.catch,
           next # Null => /\ g.at = "node" /\ g.node = next /\ g.walked = f.walked + 1
                          /\ g.catch = IF HasCatchAllRecursive(f.router, next)
                                       THEN next ELSE f.catch
    PROVE  CallOK(tree, o, g)
<1> DEFINE on == OnRoute(tree[f.router], f.route)
           catching == Catching(tree, f.router, f.route)
<1>1. /\ f.route \in Suffixes /\ f.node \in on /\ Len(f.node) = f.walked
      /\ ResultOK(tree, o, f) /\ CatchOK(tree, f)
  BY DEF CallOK, PlaceOK
<1>2. tree[f.router] \in NodeMaps /\ f.route \in Seq(Components) /\ f.walked \in Nat
  BY <1>1, SuffixesClosed DEF Trees, Frames
<1>3. \A p \in on : p \in Seq(Components) /\ Len(p) \in Nat
  BY <1>2, OnRouteIsPath
<1>4. \A p, q \in on : Len(p) = Len(q) => p = q
  BY <1>2, OneNodeOfADepth
<1>5. /\ next # Null => next \in on /\ Len(next) = f.walked + 1
      /\ next = Null => \A p \in on : Len(p) <= f.walked
  <2> DEFINE c == Child(f.router, f.node, f.route[Len(f.node) + 1])
  <2>1. /\ c # Null => c \in on /\ Len(c) = Len(f.node) + 1
        /\ c = Null => \A p \in on : Len(p) <= Len(f.node)
    BY <1>1, <1>2, ChildIsNext
  <2>2. next = c
    BY <1>1
  <2> HIDE DEF c, on
  <2> QED BY <1>1, <2>1, <2>2
<1>6. /\ catching \in SUBSET on
      /\ \A p \in on : p \in catching <=> HasCatchAllRecursive(f.router, p)
  BY DEF Catching, HasCatchAllRecursive
<1>7. \A result : \A p \in Answering(tree, o, f.router, f.route, result) :
         /\ p \in on /\ Len(p) \in Nat
         /\ Tried(f, p) <=> Len(p) <= f.walked
  BY TriedIs DEF Answering, MountedOn
<1>8. f.route \in Suffixes /\ f.walked < Len(f.route) /\ g.route \in Suffixes
  BY <1>1
<1> HIDE DEF on, catching
<1>9. CASE next = Null
  <2>1. PlaceOK(tree, o, g)
    BY <1>5, <1>8, <1>9 DEF PlaceOK, on
  <2>2. \A result : \A p \in Answering(tree, o, f.router, f.route, result) :
           Tried(g, p) <=> Tried(f, p)
    BY <1>2, <1>5, <1>7, <1>9 DEF Tried
  <2>3. ResultOK(tree, o, g)
    BY <1>1, <2>2 DEF ResultOK
  <2>4. CatchOK(tree, g)
    BY <1>1, <1>9 DEF CatchOK
  <2> QED BY <1>8, <1>9, <2>1, <2>3, <2>4 DEF CallOK
<1>10. CASE next # Null
  <2>1. PlaceOK(tree, o, g)
    BY <1>5, <1>10 DEF PlaceOK, on
  <2>2. \A result : \A p \in Answering(tree, o, f.router, f.route, result) :
           Tried(g, p) <=> Tried(f, p)
    <3>1. \A p : Len(p) \in Nat => (Tried(g, p) <=> Len(p) <= f.walked)
      BY <1>2, <1>10 DEF Tried
    <3> QED BY <1>7, <3>1
  <2>3. ResultOK(tree, o, g)
    BY <1>1, <2>2 DEF ResultOK
  <2>4. CatchOK(tree, g)
    <3>1. CASE next \in catching
      <4>1. g.catch = next
        BY <1>5, <1>6, <1>10, <3>1
      <4>2. \A p \in catching : Len(p) <= g.walked => Len(p) <= Len(next)
        BY <1>5, <1>10
      <4> QED BY <1>10, <3>1, <4>1, <4>2 DEF CatchOK, catching
    <3>2. CASE next \notin catching
      <4>1. g.catch = f.catch
        BY <1>5, <1>6, <1>10, <3>2
      <4>2. \A p \in catching : Len(p) <= g.walked => Len(p) <= f.walked
        <5> TAKE p \in catching
        <5>1. Len(p) # f.walked + 1 /\ Len(p) \in Nat
          BY <1>3, <1>4, <1>5, <1>6, <1>10, <3>2
        <5> QED BY <1>2, <1>10, <5>1
      <4>3. \A p \in catching : Len(p) > f.walked => Len(p) > g.walked
        <5> TAKE p \in catching
        <5>1. Len(p) # f.walked + 1 /\ Len(p) \in Nat
          BY <1>3, <1>4, <1>5, <1>6, <1>10, <3>2
        <5> QED BY <1>2, <1>10, <5>1
      <4> QED BY <1>1, <4>1, <4>2, <4>3 DEF CatchOK, catching
    <3> QED BY <3>1, <3>2
  <2> QED BY <1>8, <1>10, <2>1, <2>3, <2>4 DEF CallOK
<1> QED BY <1>9, <1>10
LEMMA AscendOK ==
    ASSUME NEW t \in Trees, NEW method, NEW f \in Frames,
           CallOK(t, Reference(t, method), f), f.at = "sub",
           NEW said,
           said = SubOutcome(t, Reference(t, method), f.router, f.route, f.node).result,
           Kept(f.result, said) # "Handled",
           NEW g \in Frames, SameBut(g, [f EXCEPT !.result = Kept(f.result, said)], "walk")
    PROVE  CallOK(t, Reference(t, method), g)
<1> DEFINE o == Reference(t, method)
           on == OnRoute(t[f.router], f.route)
           catching == Catching(t, f.router, f.route)
           sub == SubOutcome(t, o, f.router, f.route, f.node)
<1>1. /\ f.route \in Suffixes /\ f.node \in on /\ Len(f.node) = f.walked
      /\ t[f.router][f.node].router # Null
      /\ ResultOK(t, o, f) /\ CatchOK(t, f)
  BY DEF CallOK, PlaceOK
<1>2. t[f.router] \in NodeMaps /\ f.route \in Seq(Components) /\ f.walked \in Nat
      /\ f.router \in Routers
  BY <1>1, SuffixesClosed DEF Trees, Frames
<1>3. \A p, q \in on : Len(p) = Len(q) => p = q
  BY <1>2, OneNodeOfADepth
<1>4. f.node \in MountedOn(t, f.router, f.route)
  BY <1>1 DEF MountedOn
<1>5. said = sub.result /\ said \in {"Handled", "InvalidMethod", "NotFound"}
  BY <1>1, <1>2, <1>4, SubResult
<1>6. /\ g.at = "walk" /\ g.router = f.router /\ g.route = f.route /\ g.walked = f.walked
      /\ g.node = f.node /\ g.catch = f.catch /\ g.result = Kept(f.result, said)
  BY DEF SameBut, Frames
<1>7. f.result \in {"NotFound", "InvalidMethod"}
  BY <1>1 DEF ResultOK
<1>8. /\ said # "Handled" /\ g.result \in {"NotFound", "InvalidMethod"}
      /\ g.result = "InvalidMethod" <=> said = "InvalidMethod" \/ f.result = "InvalidMethod"
  <2>1. Kept(f.result, said) # "Handled"
    OBVIOUS
  <2> QED BY <1>5, <1>6, <1>7, <2>1 DEF Kept
<1> HIDE DEF o, on, catching, sub
<1>9. \A result : \A p : p \in Answering(t, o, f.router, f.route, result) =>
         /\ p \in on
         /\ Tried(g, p) <=> Tried(f, p) \/ p = f.node
         /\ p = f.node => result = said
  <2> TAKE result, p
  <2> HAVE p \in Answering(t, o, f.router, f.route, result)
  <2>1. p \in on /\ SubOutcome(t, o, f.router, f.route, p).result = result
    BY DEF Answering, MountedOn, on
  <2>2. Len(p) = f.walked <=> p = f.node
    BY <1>1, <1>3, <2>1
  <2>3. Tried(f, p) <=> Len(p) < f.walked
    <3>1. f.at = "sub"
      OBVIOUS
    <3> QED BY <3>1 DEF Tried
  <2>4. Tried(g, p) <=> Len(p) < f.walked \/ Len(p) = f.walked
    BY <1>6 DEF Tried
  <2> QED BY <1>5, <2>1, <2>2, <2>3, <2>4 DEF sub
<1>10. said = "InvalidMethod" => f.node \in Answering(t, o, f.router, f.route, "InvalidMethod")
  BY <1>4, <1>5 DEF Answering, sub
<1>11. ResultOK(t, o, g)
  <2>1. \A p \in Answering(t, o, g.router, g.route, "Handled") : ~Tried(g, p)
    BY <1>1, <1>6, <1>8, <1>9 DEF ResultOK
  <2>2. (\E p \in Answering(t, o, g.router, g.route, "InvalidMethod") : Tried(g, p))
           <=> said = "InvalidMethod" \/ f.result = "InvalidMethod"
    <3>1. f.result = "InvalidMethod"
             <=> \E p \in Answering(t, o, f.router, f.route, "InvalidMethod") : Tried(f, p)
      BY <1>1 DEF ResultOK
    <3> QED BY <1>6, <1>9, <1>10, <3>1
  <2> QED BY <1>8, <2>1, <2>2 DEF ResultOK
<1>12. CatchOK(t, g)
  BY <1>1, <1>6 DEF CatchOK
<1>13. PlaceOK(t, o, g)
  BY <1>1, <1>6 DEF PlaceOK, on
<1>14. CallOK(t, o, g)
  BY <1>1, <1>6, <1>11, <1>12, <1>13 DEF CallOK
<1> QED BY <1>14 DEF o

(* After the loop a call does what the reference says.                     *)
LEMMA SelectOK ==
    ASSUME NEW t \in Trees, NEW asked \in Methods, NEW f \in Frames,
           CallOK(t, Reference(t, asked), f), f.at \in {"node", "walk", "select"},
           f.at = "node" => t[f.router][f.node].router = Null,
           f.at # "select" => f.walked = Len(f.route),
           NEW method,
           method = IF f.node = Null THEN Null
                    ELSE Choice(t[f.router][f.node].endpoints, asked),
           NEW result,
           result = IF f.node = Null THEN f.result
                    ELSE IF t[f.router][f.node].endpoints = <<>> THEN "NotFound"
                    ELSE "InvalidMethod"
    PROVE  LET due == Due(Reference(t, asked), f)
               catches == /\ result = "NotFound" /\ f.catch # Null
                          /\ Recursive \in DOMAIN t[f.router][f.catch].endpoints
           IN  /\ method # Null => due = Handled(f.router, f.node, method)
               /\ method = Null /\ catches => due = Handled(f.router, f.catch, Recursive)
               /\ method = Null /\ ~catches => due.result = result
<1> DEFINE o == Reference(t, asked)
           due == Due(Reference(t, asked), f)
           ends == Ends(t, f.router, f.route)
           chosen == Chosen(t, f.router, f.route, asked)
           catching == Catching(t, f.router, f.route)
           handling == Answering(t, Reference(t, asked), f.router, f.route, "Handled")
           refusing == Answering(t, Reference(t, asked), f.router, f.route, "InvalidMethod")
           own(p) == t[f.router][p].endpoints
<1>1. f.route \in Suffixes /\ PlaceOK(t, Reference(t, asked), f)
      /\ ResultOK(t, Reference(t, asked), f) /\ CatchOK(t, f)
  BY DEF CallOK
<1>2. /\ handling = {}
      /\ refusing # {} <=> f.result = "InvalidMethod"
      /\ catching = {} <=> f.catch = Null
      /\ f.catch # Null => Deepest(catching) = f.catch /\ f.catch \in catching
      /\ f.at = "select" => ends = {} /\ f.node = Null
      /\ f.at # "select" => ends = {f.node} /\ f.node # Null
  <2>1. f.catch # Null => f.catch \in catching
    BY <1>1 DEF CatchOK
  <2>2. f.at = "select" => f.node = Null
    BY <1>1 DEF PlaceOK
  <2>3. f.at # "select" => f.node # Null
    <3>1. f.at # "select" => f.node \in OnRoute(t[f.router], f.route)
      BY <1>1 DEF PlaceOK
    <3>2. t[f.router] \in NodeMaps
      BY DEF Trees, Frames
    <3>3. OnRoute(t[f.router], f.route) \subseteq Paths
      BY <3>2, OnRouteIsPath DEF NodeMaps
    <3> QED BY <3>1, <3>3, NullAssumption
  <2>4. /\ handling = {}
        /\ refusing # {} <=> f.result = "InvalidMethod"
        /\ catching = {} <=> f.catch = Null
        /\ f.catch # Null => Deepest(catching) = f.catch
        /\ f.at = "select" => ends = {}
        /\ f.at # "select" => ends = {f.node}
    BY WalkIsOver
  <2> HIDE DEF handling, refusing, catching, ends
  <2> QED BY <2>1, <2>2, <2>3, <2>4
<1>3. f.catch # Null => Recursive \in DOMAIN own(f.catch)
  BY <1>2 DEF Catching
<1>4. due = IF chosen # {}
            THEN LET p == CHOOSE p \in chosen : TRUE
                 IN  Handled(f.router, p, Choice(own(p), asked))
            ELSE IF \E p \in ends : own(p) # <<>> THEN Refused("InvalidMethod")
            ELSE IF refusing # {} /\ ends = {} THEN Refused("InvalidMethod")
            ELSE IF catching # {} THEN Handled(f.router, Deepest(catching), Recursive)
            ELSE Refused("NotFound")
  <2>1. due = Expected(t, Reference(t, asked), f.router, f.route, asked)
    BY <1>1, DueIs
  <2> HIDE DEF due
  <2> QED BY <1>2, <2>1, ExpectedIs
<1>5. chosen = {p \in ends : {asked, Here, Recursive} \cap DOMAIN own(p) # {}}
  BY DEF Chosen
<1>6. \A p : Choice(own(p), asked) = Null
             <=> {asked, Here, Recursive} \cap DOMAIN own(p) = {}
  <2>1. asked # Null /\ Here # Null /\ Recursive # Null
    BY NullAssumption DEF Methods
  <2> QED BY <2>1 DEF Choice
<1>7. \A name : Refused(name).result = name
  BY DEF Refused
<1>8. f.result \in {"NotFound", "InvalidMethod"}
  BY <1>1 DEF ResultOK
<1>9. /\ method = IF f.node = Null THEN Null ELSE Choice(own(f.node), asked)
      /\ result = IF f.node = Null THEN f.result
                  ELSE IF own(f.node) = <<>> THEN "NotFound" ELSE "InvalidMethod"
  OBVIOUS
<1> DEFINE catches == result = "NotFound" /\ f.catch # Null /\ Recursive \in DOMAIN own(f.catch)
<1> HIDE DEF due, ends, chosen, catching, handling, refusing, own
<1>10. CASE f.at = "select"
  <2>1. chosen = {} /\ method = Null /\ result = f.result /\ ends = {}
    BY <1>2, <1>5, <1>9, <1>10
  <2>2. due = IF refusing # {} THEN Refused("InvalidMethod")
              ELSE IF catching # {} THEN Handled(f.router, Deepest(catching), Recursive)
              ELSE Refused("NotFound")
    BY <1>4, <2>1
  <2>3. catches => due = Handled(f.router, f.catch, Recursive)
    BY <1>2, <1>8, <2>1, <2>2
  <2>4. ~catches => due.result = result
    BY <1>2, <1>3, <1>7, <1>8, <2>1, <2>2
  <2> QED BY <2>1, <2>3, <2>4 DEF due, own
<1>11. CASE f.at # "select"
  <2>1. /\ ends = {f.node} /\ f.node # Null /\ method = Choice(own(f.node), asked)
        /\ result = IF own(f.node) = <<>> THEN "NotFound" ELSE "InvalidMethod"
    BY <1>2, <1>9, <1>11
  <2>2. CASE method # Null
    <3>1. chosen = {f.node}
      BY <1>5, <1>6, <2>1, <2>2
    <3>2. due = Handled(f.router, f.node, method)
      BY <1>4, <2>1, <3>1
    <3> QED BY <2>2, <3>2 DEF due
  <2>3. CASE method = Null
    <3>1. chosen = {}
      BY <1>5, <1>6, <2>1, <2>3
    <3>2. due = IF own(f.node) # <<>> THEN Refused("InvalidMethod")
                ELSE IF catching # {} THEN Handled(f.router, Deepest(catching), Recursive)
                ELSE Refused("NotFound")
      BY <1>4, <2>1, <3>1
    <3>3. catches => due = Handled(f.router, f.catch, Recursive)
      BY <1>2, <2>1, <3>2
    <3>4. ~catches => due.result = result
      BY <1>2, <1>3, <1>7, <2>1, <3>2
    <3> QED BY <2>3, <3>3, <3>4 DEF due, own
  <2> QED BY <2>2, <2>3
<1> QED BY <1>10, <1>11
-----------------------------------------------------------------------------
(* The invariant: every request that nobody has disturbed is where the     *)
(* reference leads it.                                                     *)

Dispatched(w) ==
    DispatchOK(tree, request[w].method, request[w].route, frames[w], answer[w])

DInv ==
    /\ MountsOK(tree)
    /\ \A w \in Workers : ~Idle(w) /\ ~changed[w] => Dispatched(w)

LEMMA ChangeMounts ==
    ASSUME IInv, MountsOK(tree), NEW r \in Routers, NEW nodes, Change(r, nodes),
           \A p \in DOMAIN nodes :
              nodes[p].router # Null =>
                 \/ p \in DOMAIN tree[r] /\ nodes[p].router = tree[r][p].router
                 \/ \E m \in Mounts : m.router = r /\ m.mounted = nodes[p].router
    PROVE  MountsOK(tree)'
<1>1. tree' = [tree EXCEPT ![r] = nodes] /\ DOMAIN tree = Routers
  BY DEF Change, IInv
<1>2. ASSUME NEW q \in Routers, NEW p \in DOMAIN tree'[q], tree'[q][p].router # Null
      PROVE  \E m \in Mounts : m.router = q /\ m.mounted = tree'[q][p].router
  <2>1. CASE q = r
    <3>1. tree'[q] = nodes
      BY <1>1, <2>1
    <3> QED BY <1>2, <2>1, <3>1 DEF MountsOK
  <2>2. CASE q # r
    <3>1. tree'[q] = tree[q]
      BY <1>1, <2>2
    <3> QED BY <1>2, <3>1 DEF MountsOK
  <2> QED BY <2>1, <2>2
<1> QED BY <1>2 DEF MountsOK

(* A changed router leaves only requests that have been disturbed.         *)
LEMMA AppStepDispatch == ASSUME IInv, DInv, AppStep PROVE DInv'
<1>1. PICK r, nodes : r \in Routers /\ Change(r, nodes) /\
        \A p \in DOMAIN nodes :
           nodes[p].router # Null =>
              \/ p \in DOMAIN tree[r] /\ nodes[p].router = tree[r][p].router
              \/ \E m \in Mounts : m.router = r /\ m.mounted = nodes[p].router
  <2>0. ASSUME NEW r, NEW path
        PROVE  LET q == WithNodes(tree[r], path)
               IN  \A p \in DOMAIN q : q[p].router # Null =>
                      p \in DOMAIN tree[r] /\ q[p].router = tree[r][p].router
    BY DEF WithNodes, Node
  <2>1. CASE \E m \in Mounts : AddRouter(m.router, m.path, m.mounted)
    <3>1. PICK m \in Mounts : AddRouter(m.router, m.path, m.mounted)
      BY <2>1
    <3> DEFINE q == WithNodes(tree[m.router], m.path)
               nodes == [q EXCEPT ![m.path].router = m.mounted]
    <3>2. \A p \in DOMAIN q : q[p].router # Null =>
             p \in DOMAIN tree[m.router] /\ q[p].router = tree[m.router][p].router
      BY <2>0
    <3>3. q \in [DOMAIN q -> Nodes]
      <4>1. m.router \in Routers /\ tree \in [Routers -> NodeMaps]
        BY RoutesAssumption DEF IInv
      <4>2. tree[m.router] \in [DOMAIN tree[m.router] -> Nodes]
        BY <4>1 DEF NodeMaps
      <4> QED BY <4>2, NodeIsNode DEF WithNodes
    <3> HIDE DEF q
    <3>4. DOMAIN nodes = DOMAIN q
      OBVIOUS
    <3>5. \A p \in DOMAIN q : IF p = m.path THEN nodes[p].router = m.mounted
                              ELSE nodes[p] = q[p]
      BY <3>3 DEF Nodes
    <3>6. Change(m.router, nodes) /\ m.router \in Routers
      BY <3>1, RoutesAssumption DEF AddRouter, q
    <3> HIDE DEF nodes
    <3> QED BY <3>2, <3>4, <3>5, <3>6
  <2>2. CASE \E e \in Endpoints : AddCallback(e.router, e.path, e.method, e.callback)
    <3>1. PICK e \in Endpoints : AddCallback(e.router, e.path, e.method, e.callback)
      BY <2>2
    <3> DEFINE q == WithNodes(tree[e.router], e.path)
               put(x) == [m \in DOMAIN x \cup {e.method} |->
                             IF m = e.method THEN e.callback ELSE x[m]]
               nodes == [q EXCEPT ![e.path].endpoints = put(@)]
    <3>2. \A p \in DOMAIN q : q[p].router # Null =>
             p \in DOMAIN tree[e.router] /\ q[p].router = tree[e.router][p].router
      BY <2>0
    <3>3. q \in [DOMAIN q -> Nodes]
      <4>1. e.router \in Routers /\ tree \in [Routers -> NodeMaps]
        BY RoutesAssumption DEF IInv
      <4>2. tree[e.router] \in [DOMAIN tree[e.router] -> Nodes]
        BY <4>1 DEF NodeMaps
      <4> QED BY <4>2, NodeIsNode DEF WithNodes
    <3>4. Change(e.router, nodes) /\ e.router \in Routers
      BY <3>1, RoutesAssumption DEF AddCallback
    <3> HIDE DEF q, put
    <3>5. DOMAIN nodes = DOMAIN q
      OBVIOUS
    <3>6. \A p \in DOMAIN q : nodes[p].router = q[p].router
      BY <3>3 DEF Nodes
    <3> HIDE DEF nodes
    <3> QED BY <3>2, <3>4, <3>5, <3>6
  <2>3. CASE \E place \in {<<x.router, x.path>> : x \in Endpoints \cup Mounts} :
                RemoveRoute(place[1], place[2])
    <3>1. PICK x \in Endpoints \cup Mounts : RemoveRoute(x.router, x.path)
      BY <2>3
    <3> DEFINE q == WithNodes(tree[x.router], x.path)
               nodes == [q EXCEPT ![x.path] = Cleared]
    <3>2. \A p \in DOMAIN q : q[p].router # Null =>
             p \in DOMAIN tree[x.router] /\ q[p].router = tree[x.router][p].router
      BY <2>0
    <3>3. Change(x.router, nodes) /\ x.router \in Routers
      BY <3>1, RoutesAssumption DEF RemoveRoute
    <3> HIDE DEF q
    <3>4. DOMAIN nodes = DOMAIN q
      OBVIOUS
    <3>5. \A p \in DOMAIN q : nodes[p].router # Null => nodes[p].router = q[p].router
      BY DEF Cleared, Node
    <3> HIDE DEF nodes
    <3> QED BY <3>2, <3>3, <3>4, <3>5
  <2> QED BY <2>1, <2>2, <2>3 DEF AppStep
<1>2. MountsOK(tree)'
  BY <1>1, ChangeMounts DEF DInv
<1>3. \A w \in Workers : (~Idle(w))' => changed'[w]
  BY <1>1 DEF Change, Idle
<1> QED BY <1>2, <1>3 DEF DInv
(* What a step of one worker has to show.                                  *)
LEMMA WorkerDispatch ==
    ASSUME IInv, DInv, NEW w \in Workers, UNCHANGED tree,
           NEW s, frames' = [frames EXCEPT ![w] = s],
           NEW work, request' = [request EXCEPT ![w] = work],
           NEW said, answer' = [answer EXCEPT ![w] = said],
           NEW c, changed' = [changed EXCEPT ![w] = c],
           ~c /\ ~(s = <<>> /\ said = "none") =>
               DispatchOK(tree, work.method, work.route, s, said)
    PROVE  DInv'
<1>1. /\ DOMAIN frames = Workers /\ DOMAIN request = Workers
      /\ DOMAIN answer = Workers /\ DOMAIN changed = Workers
  BY DEF IInv
<1>2. ASSUME NEW u \in Workers, ~(frames'[u] = <<>> /\ answer'[u] = "none"), ~changed'[u]
      PROVE  DispatchOK(tree', request'[u].method, request'[u].route, frames'[u], answer'[u])
  <2>1. CASE u = w
    <3>1. frames'[u] = s /\ request'[u] = work /\ answer'[u] = said /\ changed'[u] = c
      BY <1>1, <2>1
    <3> QED BY <1>2, <3>1
  <2>2. CASE u # w
    <3>1. /\ frames'[u] = frames[u] /\ request'[u] = request[u]
          /\ answer'[u] = answer[u] /\ changed'[u] = changed[u]
      BY <1>1, <2>2
    <3>2. Dispatched(u)
      BY <1>2, <3>1 DEF DInv, Idle
    <3> QED BY <3>1, <3>2 DEF Dispatched
  <2> QED BY <2>1, <2>2
<1>3. MountsOK(tree)'
  BY DEF DInv, MountsOK
<1> QED BY <1>2, <1>3 DEF DInv, Dispatched, Idle

(* The innermost call of a request that nobody has disturbed.              *)
LEMMA TopDispatched ==
    ASSUME IInv, DInv, NEW w \in Workers, frames[w] # <<>>
    PROVE  /\ tree \in Trees /\ request[w].method \in Methods
           /\ frames[w] \in Seq(Frames) /\ Top(w) \in Frames
           /\ StackOK(tree, frames[w])
           /\ ~changed[w] => /\ Dispatched(w)
                             /\ CallOK(tree, Reference(tree, request[w].method), Top(w))
<1>1. tree \in Trees
  BY DEF IInv, DInv, Trees
<1>2. request[w] \in Works /\ frames[w] \in Seq(Frames) /\ StackOK(tree, frames[w])
  BY DEF IInv
<1>3. Top(w) \in Frames /\ Len(frames[w]) \in 1 .. Len(frames[w])
  BY <1>2 DEF Top
<1>4. ~changed[w] => Dispatched(w)
  BY DEF DInv, Idle
<1>5. Dispatched(w) => CallOK(tree, Reference(tree, request[w].method), Top(w))
  BY <1>3 DEF Dispatched, DispatchOK, HeirOK, Top
<1> QED BY <1>1, <1>2, <1>3, <1>4, <1>5 DEF Works

(* The innermost call goes on.                                             *)
LEMMA TopDispatch ==
    ASSUME IInv, DInv, IInv', NEW w \in Workers, frames[w] # <<>>, UNCHANGED <<tree, changed>>,
           NEW g, SetTop(w, g), g.router = Top(w).router, g.route = Top(w).route,
           g.at # "sub", answer' = [answer EXCEPT ![w] = "none"],
           NEW work, request' = [request EXCEPT ![w] = work],
           work.method = request[w].method, work.route = request[w].route,
           ~changed[w] /\ g \in Frames => CallOK(tree, Reference(tree, request[w].method), g)
    PROVE  DInv'
<1> DEFINE s == [frames[w] EXCEPT ![Len(frames[w])] = g]
<1>1. frames' = [frames EXCEPT ![w] = s] /\ frames[w] \in Seq(Frames)
  BY DEF SetTop, IInv
<1>2. g \in Frames
  <2>1. frames'[w] = s /\ frames'[w] \in Seq(Frames)
    BY <1>1 DEF IInv
  <2>2. Len(frames[w]) \in 1 .. Len(frames[w]) /\ DOMAIN s = 1 .. Len(frames[w])
        /\ s[Len(frames[w])] = g
    BY <1>1
  <2>3. s \in Seq(Frames)
    BY <2>1
  <2> HIDE DEF s
  <2>4. s[Len(frames[w])] \in Frames
    BY <2>2, <2>3
  <2> QED BY <2>2, <2>4
<1>3. ~changed[w] => DispatchOK(tree, work.method, work.route, s, "none")
  <2> HAVE ~changed[w]
  <2>1. DispatchOK(tree, request[w].method, request[w].route, frames[w], answer[w])
    BY TopDispatched DEF Dispatched
  <2>2. g.router = frames[w][Len(frames[w])].router /\ g.route = frames[w][Len(frames[w])].route
    BY DEF Top
  <2>3. CallOK(tree, Reference(tree, request[w].method), g)
    BY <1>2
  <2> QED BY <1>1, <1>2, <2>1, <2>2, <2>3, Advance
<1>4. changed' = [changed EXCEPT ![w] = changed[w]]
  BY DEF IInv
<1> HIDE DEF s
<1> QED BY <1>1, <1>3, <1>4, WorkerDispatch

(* The innermost call returns.                                             *)
LEMMA ReturnDispatch ==
    ASSUME IInv, DInv, NEW w \in Workers, frames[w] # <<>>, UNCHANGED tree,
           request' = [request EXCEPT ![w] = @], changed' = [changed EXCEPT ![w] = @],
           NEW result, result # "none",
           frames' = [frames EXCEPT ![w] = SubSeq(@, 1, Len(@) - 1)],
           answer' = [answer EXCEPT ![w] = result],
           ~changed[w] => result = Due(Reference(tree, request[w].method), Top(w)).result
    PROVE  DInv'
<1> DEFINE s == SubSeq(frames[w], 1, Len(frames[w]) - 1)
           work == request[w]
           c == changed[w]
<1>1. frames' = [frames EXCEPT ![w] = s]
  OBVIOUS
<1>2. request' = [request EXCEPT ![w] = work] /\ changed' = [changed EXCEPT ![w] = c]
  BY DEF IInv
<1>3. ~c /\ ~(s = <<>> /\ result = "none") =>
         DispatchOK(tree, work.method, work.route, s, result)
  <2> SUFFICES ASSUME ~c PROVE DispatchOK(tree, work.method, work.route, s, result)
    OBVIOUS
  <2>1. StackOK(tree, frames[w])
        /\ DispatchOK(tree, request[w].method, request[w].route, frames[w], answer[w])
    BY TopDispatched DEF Dispatched
  <2>2. result = Due(Reference(tree, request[w].method), frames[w][Len(frames[w])]).result
    BY DEF Top
  <2> QED BY <2>1, <2>2, ReturnOK
<1>4. UNCHANGED tree /\ answer' = [answer EXCEPT ![w] = result]
  OBVIOUS
<1> HIDE DEF s, work, c
<1> QED BY <1>4, <1>1, <1>2, <1>3, WorkerDispatch
LEMMA BeginDispatch == ASSUME IInv, DInv, NEW w \in Workers, Begin(w) PROVE DInv'
<1>1. PICK r \in Requests :
        request' = [request EXCEPT ![w] = [route |-> r.route, relative |-> r.route,
                                           method |-> r.method]]
  BY DEF Begin
<1> DEFINE work == [route |-> r.route, relative |-> r.route, method |-> r.method]
           f == Call(Root, r.route)
           o == Reference(tree, r.method)
           due == Reference(tree, r.method)[<<Root, r.route>>]
<1>2. frames' = [frames EXCEPT ![w] = <<f>>]
  BY <1>1 DEF Begin, IInv
<1>3. /\ UNCHANGED tree /\ answer' = [answer EXCEPT ![w] = "none"]
      /\ changed' = [changed EXCEPT ![w] = FALSE]
  BY DEF Begin, Idle, IInv
<1>4. f.router = Root /\ f.route = r.route /\ f.at = "lock" /\ f.walked = 0
      /\ f.result = "NotFound"
  BY DEF Call
<1>5. work.method = r.method /\ work.route = r.route
  OBVIOUS
<1> HIDE DEF work, f, o, due
<1>6. CallOK(tree, o, f)
  BY <1>4, RequestIsSuffix DEF CallOK, PlaceOK
<1>7. HeirOK(tree, o, due, f)
  <2>1. Due(o, f) = due
    BY <1>4 DEF Due, due, o
  <2> QED BY <1>6, <2>1 DEF HeirOK
<1> DEFINE s == <<f>>
<1>8. Len(s) = 1 /\ s[1] = f /\ s # <<>>
  OBVIOUS
<1> HIDE DEF s
<1>9. DispatchOK(tree, r.method, r.route, s, "none")
  <2>1. /\ \A i \in 1 .. Len(s) : HeirOK(tree, o, due, s[i])
        /\ \A i \in 1 .. Len(s) - 1 : s[i].at = "sub"
        /\ s[1].router = Root /\ s[1].route = r.route /\ s[Len(s)].at # "sub"
    BY <1>4, <1>7, <1>8
  <2> QED BY <1>8, <2>1 DEF DispatchOK, o, due
<1>10. frames' = [frames EXCEPT ![w] = s] /\ request' = [request EXCEPT ![w] = work]
  BY <1>1, <1>2 DEF s, work
<1> QED BY <1>3, <1>5, <1>9, <1>10, WorkerDispatch

LEMMA LockDispatch == ASSUME IInv, DInv, IInv', NEW w \in Workers, Lock(w) PROVE DInv'
<1> DEFINE f == Top(w)
           catch == IF HasCatchAllRecursive(f.router, <<>>) THEN <<>> ELSE Null
           g == [f EXCEPT !.at = "node", !.catch = catch]
           work == request[w]
<1>1. frames[w] # <<>> /\ answer[w] = "none" /\ f.at = "lock" /\ SetTop(w, g)
      /\ UNCHANGED <<tree, changed>>
  BY DEF Lock, Idle
<1>2. /\ tree \in Trees /\ f \in Frames
      /\ ~changed[w] => CallOK(tree, Reference(tree, request[w].method), f)
  BY <1>1, TopDispatched
<1>3. /\ request' = [request EXCEPT ![w] = work] /\ answer' = [answer EXCEPT ![w] = "none"]
      /\ work.method = request[w].method /\ work.route = request[w].route
  BY <1>1 DEF Lock, IInv
<1>4. /\ g.at = "node" /\ g.node = f.node /\ g.router = f.router /\ g.route = f.route
      /\ g.walked = f.walked /\ g.result = f.result /\ g.catch = catch
  BY <1>2 DEF Frames
<1>5. f.node = <<>>
  BY <1>1, TopIsOK DEF FrameOK
<1> HIDE DEF g, work
<1>6. ASSUME ~changed[w], g \in Frames
      PROVE  CallOK(tree, Reference(tree, request[w].method), g)
  BY <1>1, <1>2, <1>4, <1>5, <1>6, LockOK DEF HasCatchAllRecursive
<1>7. g.at # "sub"
  BY <1>4
<1> QED BY <1>1, <1>3, <1>4, <1>6, <1>7, TopDispatch

LEMMA WalkDispatch == ASSUME IInv, DInv, IInv', NEW w \in Workers, Walk(w) PROVE DInv'
<1> DEFINE f == Top(w)
           next == Child(f.router, f.node, f.route[f.walked + 1])
           catch == IF HasCatchAllRecursive(f.router, next) THEN next ELSE f.catch
           g == IF next = Null
                THEN [f EXCEPT !.at = "select", !.node = Null]
                ELSE [f EXCEPT !.at = "node", !.node = next, !.walked = @ + 1, !.catch = catch]
           work == request[w]
<1>1. /\ frames[w] # <<>> /\ answer[w] = "none" /\ f.walked < Len(f.route)
      /\ SetTop(w, g) /\ UNCHANGED <<tree, changed>>
      /\ f.at \in {"node", "walk"} /\ (f.at = "node" => tree[f.router][f.node].router = Null)
  BY DEF Walk, Idle
<1>2. /\ tree \in Trees /\ f \in Frames
      /\ ~changed[w] => CallOK(tree, Reference(tree, request[w].method), f)
  BY <1>1, TopDispatched
<1>3. /\ request' = [request EXCEPT ![w] = work] /\ answer' = [answer EXCEPT ![w] = "none"]
      /\ work.method = request[w].method /\ work.route = request[w].route
  BY <1>1 DEF Walk, IInv
<1> HIDE DEF next, f
<1>4. /\ g.router = f.router /\ g.route = f.route /\ g.result = f.result
      /\ next = Null => /\ g.at = "select" /\ g.node = Null
                        /\ g.walked = f.walked /\ g.catch = f.catch
      /\ next # Null => /\ g.at = "node" /\ g.node = next /\ g.walked = f.walked + 1
                        /\ g.catch = catch
  BY <1>2 DEF Frames
<1> HIDE DEF g, work
<1>5. ASSUME ~changed[w], g \in Frames
      PROVE  CallOK(tree, Reference(tree, request[w].method), g)
  <2> DEFINE o == Reference(tree, request[w].method)
  <2>1. CallOK(tree, o, f)
    BY <1>2, <1>5
  <2> HIDE DEF o
  <2>2. next = Child(f.router, f.node, f.route[f.walked + 1])
    BY DEF next
  <2>3. CallOK(tree, o, g)
    BY <1>1, <1>2, <1>4, <1>5, <2>1, <2>2, WalkOK
  <2> QED BY <2>3 DEF o
<1>6. g.at # "sub"
  BY <1>4
<1>7. frames[w] # <<>> /\ UNCHANGED <<tree, changed>> /\ SetTop(w, g)
      /\ g.router = Top(w).router /\ g.route = Top(w).route
  BY <1>1, <1>4 DEF f
<1> QED BY <1>3, <1>5, <1>6, <1>7, TopDispatch
LEMMA DescendDispatch == ASSUME IInv, DInv, IInv', NEW w \in Workers, Descend(w) PROVE DInv'
<1> DEFINE f    == Top(w)
           g    == [f EXCEPT !.at = "sub"]
           sub  == tree[f.router][f.node].router
           rest == SubSeq(f.route, f.walked + 1, Len(f.route))
           c    == Call(sub, rest)
           old  == frames[w]
           s    == Push(frames[w], g, c)
           work == [request[w] EXCEPT !.relative = rest]
<1>1. /\ old # <<>> /\ answer[w] = "none" /\ f.at = "node" /\ sub # Null
      /\ UNCHANGED <<tree, answer, changed>>
      /\ frames' = [frames EXCEPT ![w] = s] /\ request' = [request EXCEPT ![w] = work]
  BY DEF Descend, Idle, Push
<1>2. /\ tree \in Trees /\ f \in Frames /\ old \in Seq(Frames) /\ f = old[Len(old)]
      /\ ~changed[w] => Dispatched(w)
  BY <1>1, TopDispatched DEF Top
<1>3. work.method = request[w].method /\ work.route = request[w].route
  <2>1. request[w] \in Works
    BY DEF IInv
  <2> HIDE DEF rest
  <2> QED BY <2>1 DEF Works
<1>4. SameBut(g, f, "sub") /\ g \in Frames
  BY <1>2 DEF SameBut, Frames
<1>5. CalledBy(c, tree, g)
  <2>1. g.router = f.router /\ g.node = f.node /\ g.route = f.route /\ g.walked = f.walked
    BY <1>4 DEF SameBut
  <2>2. /\ c.at = "lock" /\ c.walked = 0 /\ c.result = "NotFound"
        /\ c.router = sub /\ c.route = rest
    BY DEF Call
  <2> HIDE DEF c, g
  <2> QED BY <1>1, <2>1, <2>2 DEF CalledBy, Rest
<1>6. /\ answer' = [answer EXCEPT ![w] = "none"]
      /\ changed' = [changed EXCEPT ![w] = changed[w]] /\ UNCHANGED tree
  BY <1>1 DEF IInv
<1>7. c \in Frames
  <2>1. sub \in Routers
    <3>1. f.node \in DOMAIN tree[f.router]
          /\ tree[f.router] \in [DOMAIN tree[f.router] -> Nodes]
      BY <1>1, TopIsOK DEF FrameOK
    <3>2. tree[f.router][f.node] \in Nodes
      BY <3>1
    <3> QED BY <1>1, <3>2 DEF Nodes
  <2>2. rest \in Seq(Components)
    <3>1. f.route \in Seq(Components) /\ f.walked \in Nat /\ f.walked <= Len(f.route)
      BY <1>1, <1>2, TopIsOK DEF FrameOK, Frames
    <3>2. f.walked \in 0 .. Len(f.route)
      BY <3>1
    <3> QED BY <3>1, <3>2, RestOfRoute DEF Rest
  <2> HIDE DEF sub, rest
  <2> QED BY <2>1, <2>2 DEF Call, Frames, Paths, Results
<1> HIDE DEF f, g, c, sub, rest, work, old
<1>8. ASSUME ~changed[w]
      PROVE  DispatchOK(tree, work.method, work.route, Push(old, g, c), "none")
  <2>1. DispatchOK(tree, work.method, work.route, old, "none")
    BY <1>1, <1>2, <1>3, <1>8 DEF Dispatched, old
  <2>2. old[Len(old)].at = "node" /\ SameBut(g, old[Len(old)], "sub")
    BY <1>1, <1>2, <1>4
  <2> QED BY <1>1, <1>2, <1>4, <1>5, <1>7, <2>1, <2>2, CallSub
<1>9. s = Push(old, g, c)
  BY DEF old
<1> HIDE DEF s
<1> QED BY <1>1, <1>6, <1>8, <1>9, WorkerDispatch

LEMMA AscendDispatch == ASSUME IInv, DInv, IInv', NEW w \in Workers, Ascend(w) PROVE DInv'
<1> DEFINE f == Top(w)
           result == Kept(f.result, answer[w])
           g == [f EXCEPT !.at = "walk", !.result = result]
           o == Reference(tree, request[w].method)
           sub == SubOutcome(tree, o, f.router, f.route, f.node)
<1>1. frames[w] # <<>> /\ f.at = "sub" /\ answer[w] # "none" /\ UNCHANGED <<tree, changed>>
  BY DEF Ascend
<1>2. /\ tree \in Trees /\ f \in Frames
      /\ ~changed[w] => Dispatched(w) /\ CallOK(tree, o, f)
  BY <1>1, TopDispatched
<1>3. ~changed[w] => answer[w] = sub.result
  BY <1>1, <1>2 DEF Dispatched, DispatchOK, Top
<1>4. CASE result = "Handled"
  <2>1. frames' = [frames EXCEPT ![w] = SubSeq(@, 1, Len(@) - 1)] /\ UNCHANGED <<request, answer>>
    BY <1>4 DEF Ascend
  <2>2. /\ request' = [request EXCEPT ![w] = @] /\ changed' = [changed EXCEPT ![w] = @]
        /\ answer' = [answer EXCEPT ![w] = answer[w]] /\ UNCHANGED tree
    BY <1>1, <2>1 DEF IInv
  <2>3. ASSUME ~changed[w] PROVE answer[w] = Due(o, f).result
    <3>1. f.result # "Handled" /\ tree[f.router][f.node].router # Null
      BY <1>1, <1>2, <2>3 DEF CallOK, ResultOK, PlaceOK
    <3>2. answer[w] = "Handled"
      BY <1>4, <3>1 DEF Kept
    <3>3. sub.result = "Handled"
      BY <1>3, <2>3, <3>2
    <3>4. f.at \in {"node", "sub"} /\ CallOK(tree, o, f)
      BY <1>1, <1>2, <2>3
    <3> HIDE DEF f
    <3>5. Due(o, f) = sub
      BY <1>2, <3>1, <3>3, <3>4, SubDecides
    <3> QED BY <1>3, <2>3, <3>5
  <2> QED BY <1>1, <2>1, <2>2, <2>3, ReturnDispatch
<1>5. CASE result # "Handled"
  <2> DEFINE work == [request[w] EXCEPT !.relative = f.route]
  <2>1. /\ SetTop(w, g) /\ request' = [request EXCEPT ![w] = work]
        /\ answer' = [answer EXCEPT ![w] = "none"]
    BY <1>5 DEF Ascend, SwapBack, IInv
  <2>2. work.method = request[w].method /\ work.route = request[w].route
    <3>1. request[w] \in Works
      BY DEF IInv
    <3> HIDE DEF f
    <3> QED BY <3>1 DEF Works
  <2> HIDE DEF result
  <2>3. SameBut(g, [f EXCEPT !.result = result], "walk")
    BY <1>2 DEF SameBut, Frames
  <2>4. g.at = "walk" /\ g.router = f.router /\ g.route = f.route
    BY <1>2 DEF Frames
  <2> HIDE DEF f, g, work, o
  <2>5. ASSUME ~changed[w], g \in Frames PROVE CallOK(tree, o, g)
    <3>1. CallOK(tree, Reference(tree, request[w].method), f)
          /\ answer[w] = SubOutcome(tree, Reference(tree, request[w].method),
                                    f.router, f.route, f.node).result
      BY <1>2, <1>3, <2>5 DEF o
    <3>2. Kept(f.result, answer[w]) # "Handled"
          /\ SameBut(g, [f EXCEPT !.result = Kept(f.result, answer[w])], "walk")
      BY <1>5, <2>3 DEF result
    <3> QED BY <1>1, <1>2, <2>5, <3>1, <3>2, AscendOK DEF o
  <2>6. frames[w] # <<>> /\ g.router = Top(w).router /\ g.route = Top(w).route /\ g.at # "sub"
    BY <1>1, <2>4 DEF f
  <2> QED BY <1>1, <2>1, <2>2, <2>5, <2>6, TopDispatch DEF o
<1> QED BY <1>4, <1>5
(* A callback that the reference names is called.                          *)
LEMMA RunDispatch ==
    ASSUME IInv, DInv, IInv', NEW w \in Workers, frames[w] # <<>>, answer[w] = "none",
           NEW path, NEW method, Run(w, Top(w), path, method),
           UNCHANGED <<tree, request, changed>>,
           ~changed[w] => Due(Reference(tree, request[w].method), Top(w))
                              = Handled(Top(w).router, path, method)
    PROVE  DInv'
<1> DEFINE f == Top(w)
           run == [node |-> path, method |-> method,
                   callback |-> tree[f.router][path].endpoints[method]]
           g == [f EXCEPT !.at = "callback", !.running = run]
           o == Reference(tree, request[w].method)
           work == request[w]
<1>1. f \in Frames /\ (~changed[w] => CallOK(tree, o, f))
  BY TopDispatched
<1>2. SetTop(w, g) /\ run.node = path /\ run.method = method
  BY DEF Run
<1>3. /\ request' = [request EXCEPT ![w] = work] /\ answer' = [answer EXCEPT ![w] = "none"]
      /\ work.method = request[w].method /\ work.route = request[w].route
  BY DEF Run, IInv
<1>4. ~changed[w] => Due(o, f) = Handled(f.router, path, method)
  OBVIOUS
<1> HIDE DEF run
<1>5. g.at = "callback" /\ g.router = f.router /\ g.route = f.route /\ g.running = run
  BY <1>1 DEF Frames
<1> HIDE DEF g, f, o, work
<1>6. ASSUME ~changed[w], g \in Frames PROVE CallOK(tree, o, g)
  <2>1. Due(o, g) = Handled(g.router, g.running.node, g.running.method)
    BY <1>2, <1>4, <1>5, <1>6 DEF Due
  <2>2. g.route \in Suffixes
    BY <1>1, <1>5, <1>6 DEF CallOK
  <2> QED BY <1>5, <2>1, <2>2 DEF CallOK, PlaceOK
<1>7. g.router = Top(w).router /\ g.route = Top(w).route /\ g.at # "sub"
      /\ UNCHANGED <<tree, changed>>
  BY <1>5 DEF f
<1> QED BY <1>2, <1>3, <1>6, <1>7, TopDispatch DEF o

LEMMA SelectDispatch == ASSUME IInv, DInv, IInv', NEW w \in Workers, Select(w) PROVE DInv'
<1> DEFINE f == Top(w)
           asked == request[w].method
           method == IF f.node = Null THEN Null
                     ELSE Choice(tree[f.router][f.node].endpoints, asked)
           result == Selected(f.router, f)
           due == Due(Reference(tree, asked), f)
           catches == /\ result = "NotFound" /\ f.catch # Null
                      /\ Recursive \in DOMAIN tree[f.router][f.catch].endpoints
<1>1. /\ frames[w] # <<>> /\ answer[w] = "none"
      /\ UNCHANGED <<tree, request, changed>>
      /\ f.at \in {"node", "walk", "select"}
      /\ f.at = "node" => tree[f.router][f.node].router = Null
      /\ f.at # "select" => f.walked = Len(f.route)
  BY DEF Select, Idle
<1>2. /\ tree \in Trees /\ f \in Frames /\ asked \in Methods
      /\ ~changed[w] => CallOK(tree, Reference(tree, asked), f)
  BY <1>1, TopDispatched
<1>3. IF method # Null THEN Run(w, f, f.node, method)
      ELSE IF catches THEN Run(w, f, f.catch, Recursive)
      ELSE Return(w, result)
  BY DEF Select, HasCatchAllRecursive
<1>4. /\ result = IF f.node = Null THEN f.result
                  ELSE IF tree[f.router][f.node].endpoints = <<>> THEN "NotFound"
                  ELSE "InvalidMethod"
      /\ method = IF f.node = Null THEN Null
                  ELSE Choice(tree[f.router][f.node].endpoints, asked)
  BY DEF Selected
<1>5. f.result # "none" /\ result # "none"
  <2>1. f.result \in Results
    BY <1>2 DEF Frames
  <2> QED BY <1>4, <2>1 DEF Results
<1> HIDE DEF f, asked, method, result, due
<1>6. ASSUME ~changed[w]
      PROVE  /\ method # Null => due = Handled(f.router, f.node, method)
             /\ method = Null /\ catches => due = Handled(f.router, f.catch, Recursive)
             /\ method = Null /\ ~catches => due.result = result
  BY <1>1, <1>2, <1>4, <1>6, SelectOK DEF due
<1> HIDE DEF catches
<1>7. CASE method # Null
  <2>1. Run(w, Top(w), f.node, method)
    BY <1>3, <1>7 DEF f
  <2>2. ~changed[w] => Due(Reference(tree, request[w].method), Top(w))
                           = Handled(Top(w).router, f.node, method)
    BY <1>6, <1>7 DEF due, f, asked
  <2> QED BY <1>1, <2>1, <2>2, RunDispatch
<1>8. CASE method = Null /\ catches
  <2>1. Run(w, Top(w), f.catch, Recursive)
    BY <1>3, <1>8 DEF f
  <2>2. ~changed[w] => Due(Reference(tree, request[w].method), Top(w))
                           = Handled(Top(w).router, f.catch, Recursive)
    BY <1>6, <1>8 DEF due, f, asked
  <2> QED BY <1>1, <2>1, <2>2, RunDispatch
<1>9. CASE method = Null /\ ~catches
  <2>1. /\ frames' = [frames EXCEPT ![w] = SubSeq(@, 1, Len(@) - 1)]
        /\ answer' = [answer EXCEPT ![w] = result]
    BY <1>3, <1>9 DEF Return
  <2>2. request' = [request EXCEPT ![w] = @] /\ changed' = [changed EXCEPT ![w] = @]
        /\ UNCHANGED tree
    BY <1>1 DEF IInv
  <2>3. ~changed[w] => result = Due(Reference(tree, request[w].method), Top(w)).result
    BY <1>6, <1>9 DEF due, f, asked
  <2> QED BY <1>1, <1>5, <2>1, <2>2, <2>3, ReturnDispatch
<1> QED BY <1>7, <1>8, <1>9

LEMMA CallbackDispatch ==
    ASSUME IInv, DInv, NEW w \in Workers, CallbackReturns(w) \/ CallbackThrows(w)
    PROVE  DInv'
<1>1. frames[w] # <<>> /\ answer[w] = "none" /\ Top(w).at = "callback"
      /\ UNCHANGED <<tree, request, changed>>
  BY DEF CallbackReturns, CallbackThrows, Idle
<1>2. request' = [request EXCEPT ![w] = @] /\ changed' = [changed EXCEPT ![w] = @]
      /\ UNCHANGED tree
  BY <1>1 DEF IInv
<1>3. CASE CallbackReturns(w)
  <2>1. /\ frames' = [frames EXCEPT ![w] = SubSeq(@, 1, Len(@) - 1)]
        /\ answer' = [answer EXCEPT ![w] = "Handled"]
    BY <1>3 DEF CallbackReturns, Return
  <2>2. ASSUME ~changed[w]
        PROVE  "Handled" = Due(Reference(tree, request[w].method), Top(w)).result
    <3>1. PlaceOK(tree, Reference(tree, request[w].method), Top(w))
      BY <1>1, <2>2, TopDispatched DEF CallOK
    <3> QED BY <1>1, <3>1 DEF PlaceOK, Handled
  <2> QED BY <1>1, <1>2, <2>1, <2>2, ReturnDispatch
<1>4. CASE CallbackThrows(w)
  <2> DEFINE work == request[w]
             c == changed[w]
             s == <<>>
             said == "InternalError"
  <2>1. /\ frames' = [frames EXCEPT ![w] = s] /\ answer' = [answer EXCEPT ![w] = said]
        /\ request' = [request EXCEPT ![w] = work] /\ changed' = [changed EXCEPT ![w] = c]
    BY <1>2, <1>4 DEF CallbackThrows
  <2>2. DispatchOK(tree, work.method, work.route, s, said)
    BY DEF DispatchOK
  <2> HIDE DEF work, c, s, said
  <2> QED BY <1>2, <2>1, <2>2, WorkerDispatch
<1> QED BY <1>3, <1>4

LEMMA FinishDispatch == ASSUME IInv, DInv, NEW w \in Workers, Finish(w) PROVE DInv'
<1>1. /\ frames' = [frames EXCEPT ![w] = <<>>] /\ UNCHANGED tree
      /\ answer' = [answer EXCEPT ![w] = "none"]
      /\ request' = [request EXCEPT ![w] = NoWork] /\ changed' = [changed EXCEPT ![w] = FALSE]
  BY DEF Finish, IInv
<1> QED BY <1>1, WorkerDispatch

LEMMA InitDInv == Init => DInv
<1> SUFFICES ASSUME Init PROVE DInv
  OBVIOUS
<1>1. \A w \in Workers : Idle(w)
  BY DEF Init, Idle
<1>2. \A r \in Routers : \A p \in DOMAIN tree[r] : tree[r][p].router = Null
  BY DEF Init, Node
<1> QED BY <1>1, <1>2 DEF DInv, MountsOK

LEMMA NextDInv == IInv /\ DInv /\ IInv' /\ [Next]_vars => DInv'
<1> SUFFICES ASSUME IInv, DInv, IInv', [Next]_vars PROVE DInv'
  OBVIOUS
<1>1. CASE AppStep
  BY <1>1, AppStepDispatch
<1>2. CASE \E w \in Workers : WorkerStep(w)
  BY <1>2, BeginDispatch, LockDispatch, DescendDispatch, AscendDispatch, WalkDispatch,
     SelectDispatch, CallbackDispatch, FinishDispatch DEF WorkerStep
<1>3. CASE UNCHANGED vars
  BY <1>3 DEF vars, DInv, MountsOK, Dispatched, Idle
<1> QED BY <1>1, <1>2, <1>3 DEF Next

(* A request runs the callback, or gets the refusal, that the reference    *)
(* computes from the trees, whatever the routers, the depth of their       *)
(* nesting and the other workers, as long as no router is changed while    *)
(* it is handled.                                                          *)
THEOREM DispatchFollowsReference == Spec => []DispatchIsReference
<1>1. IInv /\ DInv => DispatchIsReference
  <2> SUFFICES ASSUME IInv, DInv, NEW w \in Workers, ~Idle(w), ~changed[w]
               PROVE  LET expected == Reference(tree, request[w].method)[<<Root, request[w].route>>]
                      IN  IF frames[w] = <<>>
                          THEN answer[w] \in {"InternalError", expected.result}
                          ELSE LET f == Top(w) IN
                               f.at = "callback" =>
                                  expected = Handled(f.router, f.running.node, f.running.method)
    BY DEF DispatchIsReference
  <2> DEFINE o == Reference(tree, request[w].method)
             expected == Reference(tree, request[w].method)[<<Root, request[w].route>>]
             f == Top(w)
  <2>1. DispatchOK(tree, request[w].method, request[w].route, frames[w], answer[w])
    BY DEF DInv, Dispatched
  <2>2. CASE frames[w] = <<>>
    <3>1. answer[w] # "none"
      BY <2>2 DEF Idle
    <3>2. answer[w] \in {"InternalError", expected.result}
      BY <2>1, <2>2, <3>1 DEF DispatchOK
    <3> QED BY <2>2, <3>2
  <2>3. CASE frames[w] # <<>>
    <3>1. ASSUME f.at = "callback"
          PROVE  expected = Handled(f.router, f.running.node, f.running.method)
      <4>1. Len(frames[w]) \in 1 .. Len(frames[w])
        BY <2>3 DEF IInv
      <4>2. HeirOK(tree, o, expected, f)
        BY <2>1, <4>1 DEF DispatchOK, Top
      <4> HIDE DEF expected, o, f
      <4>3. Due(o, f) = Handled(f.router, f.running.node, f.running.method)
        BY <3>1, <4>2 DEF HeirOK, CallOK, PlaceOK
      <4>4. Due(o, f).result = "Handled"
        BY <4>3 DEF Handled
      <4> QED BY <4>2, <4>3, <4>4 DEF HeirOK
    <3> QED BY <2>3, <3>1
  <2> QED BY <2>2, <2>3
<1>2. Spec => []DInv
  <2>1. Spec => []IInv
    BY Inductive
  <2> QED BY <2>1, InitDInv, NextDInv, PTL DEF Spec
<1> QED BY <1>1, <1>2, Inductive, PTL
=============================================================================
