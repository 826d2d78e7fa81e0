---------------------------- MODULE ServiceGraph ----------------------------
(***************************************************************************)
(* The service graph of Cortex when it keeps the events itself: requests   *)
(* bring events to the event processor (cortex/internal/processor), which  *)
(* stores them and derives nodes and edges; traversals read the graph      *)
(* through the builder's adjacency cache (cortex/internal/graph).  The     *)
(* requests run concurrently, every call of the store may fail, a client   *)
(* may send a failed request again.                                        *)
(*                                                                         *)
(* An event is a number, in the order of the timestamps; world says what   *)
(* the events are.  The store refuses an event it has and an edge to a     *)
(* node it does not have, and keeps the first edge of an id.               *)
(***************************************************************************)
EXTENDS Integers, Sequences, FiniteSets, Functions

CONSTANTS
    Worlds,     \* [service, trace, incident : Seq of names, links : sets of pairs,
                \*  deploys : set of events, calls : for each request the
                \*  events it brings, batches : the requests with a list of them]
    Views,      \* the traversals: [start, depth, types, window]
    Bounds      \* [fault, crash, retry, view]

VARIABLES
    world,
    stored,     \* the events table
    nodes, edges,
    pc,         \* [Requests -> "new", "core", "group", "link", "ok", "error"]
    todo,       \* [Requests -> the events whose artifacts are still to be saved]
    groups,     \* [Requests -> the <<edge type, value>> still to be linked]
    linking,    \* [Requests -> the type being linked, or "none"]
    found,      \* [Requests -> pairs of events to link]
    missed,     \* history: pairs a fault kept from being linked
    cache,      \* AdjacencyCache: node -> its edges
    view,       \* the last traversal: did it start from a cached node, and which
                \* accepted events of that service does it not show
    budget

store == <<stored, nodes, edges>>
request == <<pc, todo, groups, linking, found>>
vars == <<world, store, request, missed, cache, view, budget>>

None == "none"
EventNode(e) == <<"event", e>>
ServiceNode(s) == <<"service", s>>
DeployNode(e) == <<"deploy", e>>
Events == DOMAIN world.service
Requests == DOMAIN world.calls

Ids(r) == Range(world.calls[r])
Batch(r) == r \in world.batches
ValueOf(type, e) == IF type = "same_trace" THEN world.trace[e] ELSE world.incident[e]

Edge(id, from, to, type) == [id |-> id, from |-> from, to |-> to, type |-> type]

\* SaveEdge: ON CONFLICT (id) DO NOTHING.
Insert(E, x) == IF \E y \in E : y.id = x.id THEN E ELSE E \cup {x}
HasEnds(x) == {x.from, x.to} \subseteq nodes

Spend(b) == budget[b] > 0 /\ budget' = [budget EXCEPT ![b] = @ - 1]

Idle ==
    /\ pc = [r \in Requests |-> "new"]
    /\ todo = [r \in Requests |-> <<>>]
    /\ groups = [r \in Requests |-> {}]
    /\ linking = [r \in Requests |-> None]
    /\ found = [r \in Requests |-> {}]

Init ==
    /\ world \in Worlds
    /\ budget \in Bounds
    /\ stored = {} /\ nodes = {} /\ edges = {}
    /\ Idle
    /\ missed = {}
    /\ cache = [n \in {} |-> {}]
    /\ view = [cached |-> FALSE, missing |-> {}]

-----------------------------------------------------------------------------
\* The events of the request, in one transaction.
Save(r) ==
    /\ pc[r] = "new"
    /\ \/ /\ Ids(r) \cap stored = {}
          /\ stored' = stored \cup Ids(r)
          /\ todo' = [todo EXCEPT ![r] = world.calls[r]]
          /\ pc' = [pc EXCEPT ![r] = "core"]
          /\ UNCHANGED budget
       \/ /\ \/ Ids(r) \cap stored # {} /\ UNCHANGED budget
             \/ Spend("fault")
          /\ pc' = [pc EXCEPT ![r] = "error"]
          /\ UNCHANGED <<stored, todo>>
    /\ UNCHANGED <<world, nodes, edges, groups, linking, found, missed, cache, view>>

\* What saveCoreGraphArtifacts writes for an event, in this order.
Writes(e) ==
    LET service == ServiceNode(world.service[e])
        deploy == DeployNode(e)
        Join(from, type) ==
            Edge(<<from, service>>, from, service, type)
    IN  <<[nodes |-> {service}, edges |-> {}],
          [nodes |-> {EventNode(e)}, edges |-> {}],
          [nodes |-> {}, edges |-> {Join(EventNode(e), "depends_on")}]>>
        \o IF e \notin world.deploys THEN <<>>
           ELSE <<[nodes |-> {deploy}, edges |-> {}],
                  [nodes |-> {}, edges |-> {Join(deploy, "deployed_before")}]>>

\* createLinkEdges: an edge whose target is not in the graph is given up.
LinkEdges(e, ends) ==
    {Edge(<<EventNode(p[1]), EventNode(p[2]), "link">>, EventNode(p[1]), EventNode(p[2]), "link") :
        p \in {q \in world.links : q[1] = e /\ {EventNode(e), EventNode(q[2])} \subseteq ends}}

\* The groups a request links: the trace and the incident of its events.
GroupsOf(r) ==
    {g \in {"same_trace", "same_incident"} \X {ValueOf(t, e) : t \in {"same_trace", "same_incident"}, e \in Ids(r)} :
        g[2] # None /\ \E e \in Ids(r) : ValueOf(g[1], e) = g[2]}

\* The artifacts of the next event; a failure leaves the writes before it.  In
\* a batch the links follow at once.
Core(r) ==
    /\ pc[r] = "core" /\ todo[r] # <<>>
    /\ LET e == Head(todo[r])
           W == Writes(e)
       IN  \E k \in 0 .. Len(W) :
              /\ k < Len(W) => Spend("fault")
              /\ k = Len(W) => UNCHANGED budget
              /\ nodes' = nodes \cup UNION {W[i].nodes : i \in 1 .. k}
              /\ edges' = edges \cup UNION {W[i].edges : i \in 1 .. k}
                          \cup IF k = Len(W) /\ Batch(r) THEN LinkEdges(e, nodes') ELSE {}
              /\ IF k < Len(W)
                 THEN pc' = [pc EXCEPT ![r] = "error"] /\ UNCHANGED <<todo, groups>>
                 ELSE /\ todo' = [todo EXCEPT ![r] = Tail(@)]
                      /\ pc' = [pc EXCEPT ![r] = IF Len(todo[r]) = 1 THEN "group" ELSE "core"]
                      /\ groups' = [groups EXCEPT ![r] = GroupsOf(r)]
    /\ UNCHANGED <<world, stored, linking, found, missed, cache, view>>

Members(r, g) == {e \in Ids(r) : ValueOf(g[1], e) = g[2]}
Related(g) == {e \in stored : ValueOf(g[1], e) = g[2]}

\* Two events of a batch are linked with each other and with no other event,
\* one event with all the stored ones.
PairsOf(r, g) ==
    LET M == Members(r, g)
    IN  IF Cardinality(M) > 1
        THEN {p \in M \X M : p[1] < p[2]}
        ELSE {p \in M \X Related(g) : p[1] # p[2]}

\* The next group, the traces before the incidents: which pairs to link.  A
\* read that fails links nothing, and is no error.
Group(r) ==
    /\ pc[r] = "group"
    /\ \E g \in groups[r] :
          /\ g[1] = "same_incident" => \A h \in groups[r] : h[1] = "same_incident"
          /\ \/ found' = [found EXCEPT ![r] = PairsOf(r, g)] /\ UNCHANGED <<missed, budget>>
             \/ /\ Cardinality(Members(r, g)) = 1 /\ Spend("fault")
                /\ missed' = missed \cup (Members(r, g) \X Events)
                /\ UNCHANGED found
          /\ groups' = [groups EXCEPT ![r] = @ \ {g}]
          /\ linking' = [linking EXCEPT ![r] = g[1]]
    /\ pc' = [pc EXCEPT ![r] = "link"]
    /\ UNCHANGED <<world, store, todo, cache, view>>

\* Mutant: the first edge that cannot be saved ends the loop.
Link_GivesUp(r) ==
    /\ pc[r] = "link"
    /\ \E p \in found[r] :
          LET ends == <<EventNode(p[1]), EventNode(p[2])>>
              x == Edge(IF Batch(r) THEN Append(ends, linking[r]) ELSE ends,
                        ends[1], ends[2], linking[r])
          IN  \/ HasEnds(x) /\ edges' = Insert(edges, x)
                 /\ found' = [found EXCEPT ![r] = @ \ {p}]
                 /\ UNCHANGED <<pc, missed, budget>>
              \/ /\ \/ ~HasEnds(x) /\ UNCHANGED <<missed, budget>>
                    \/ Spend("fault") /\ missed' = missed \cup {p}
                 /\ IF Batch(r) THEN pc' = [pc EXCEPT ![r] = "error"] /\ UNCHANGED found
                                ELSE found' = [found EXCEPT ![r] = {}] /\ UNCHANGED pc
                 /\ UNCHANGED edges
    /\ UNCHANGED <<world, stored, nodes, todo, groups, linking, cache, view>>

\* One edge.  A single event's has an id without the type, and a failure is
\* only logged; a batch fails.
Link(r) ==
    /\ pc[r] = "link"
    /\ \E p \in found[r] :
          LET ends == <<EventNode(p[1]), EventNode(p[2])>>
              x == Edge(IF Batch(r) THEN Append(ends, linking[r]) ELSE ends,
                        ends[1], ends[2], linking[r])
          IN  \/ HasEnds(x) /\ edges' = Insert(edges, x)
                 /\ found' = [found EXCEPT ![r] = @ \ {p}]
                 /\ UNCHANGED <<pc, missed, budget>>
              \/ /\ \/ ~HasEnds(x) /\ UNCHANGED <<missed, budget>>
                    \/ Spend("fault") /\ missed' = missed \cup {p}
                 /\ IF Batch(r) THEN pc' = [pc EXCEPT ![r] = "error"] /\ UNCHANGED found
                                ELSE found' = [found EXCEPT ![r] = @ \ {p}] /\ UNCHANGED pc
                 /\ UNCHANGED edges
    /\ UNCHANGED <<world, stored, nodes, todo, groups, linking, cache, view>>

Linked(r) ==
    /\ pc[r] = "link" /\ found[r] = {}
    /\ pc' = [pc EXCEPT ![r] = "group"]
    /\ linking' = [linking EXCEPT ![r] = None]
    /\ UNCHANGED <<world, store, todo, groups, found, missed, cache, view, budget>>

\* Nothing left to link: a single event's links come last.
Accept(r) ==
    /\ pc[r] = "group" /\ groups[r] = {}
    /\ pc' = [pc EXCEPT ![r] = "ok"]
    /\ edges' = IF Batch(r) THEN edges ELSE edges \cup LinkEdges(world.calls[r][1], nodes)
    /\ UNCHANGED <<world, stored, nodes, todo, groups, linking, found, missed, cache, view, budget>>

\* A client sends a request that failed once more.
Retry(r) ==
    /\ pc[r] = "error"
    /\ Spend("retry")
    /\ pc' = [pc EXCEPT ![r] = "new"]
    /\ todo' = [todo EXCEPT ![r] = <<>>]
    /\ groups' = [groups EXCEPT ![r] = {}]
    /\ linking' = [linking EXCEPT ![r] = None]
    /\ found' = [found EXCEPT ![r] = {}]
    /\ UNCHANGED <<world, store, missed, cache, view>>

\* The requests under way fail, the cache starts anew.
Crash ==
    /\ Spend("crash")
    /\ pc' = [r \in Requests |-> IF pc[r] \in {"new", "ok"} THEN pc[r] ELSE "error"]
    /\ todo' = [r \in Requests |-> <<>>]
    /\ groups' = [r \in Requests |-> {}]
    /\ linking' = [r \in Requests |-> None]
    /\ found' = [r \in Requests |-> {}]
    /\ cache' = [n \in {} |-> {}]
    /\ UNCHANGED <<world, store, missed, view>>

-----------------------------------------------------------------------------
EdgesOf(n) == {x \in edges : n \in {x.from, x.to}}

\* A node's edges from the cache; it holds no empty list.
Adjacent(n) == IF n \in DOMAIN cache THEN cache[n] ELSE EdgesOf(n)

Shown(v, n) == n \in nodes /\ n \in v.window

\* The edges followed out of a set of nodes, and one level of the search.
Follow(v, N) == {x \in UNION {Adjacent(n) : n \in N} : x.type \in v.types}

\* Mutant: one level too few.
Levels_TooFew(v) ==
    LET level[k \in 0 .. v.depth - 1] ==
            IF k = 0 THEN [queue |-> {v.start}, visited |-> {}]
            ELSE LET new == level[k - 1].queue \ level[k - 1].visited
                     seen == level[k - 1].visited \cup new
                 IN  [queue |-> {x.to : x \in Follow(v, {n \in new : Shown(v, n)})} \ seen,
                      visited |-> seen]
    IN  level[v.depth - 1].visited

\* The nodes TraverseGraph visits: level by level, not beyond a node that is
\* not there or out of the window.
Levels(v) ==
    LET level[k \in 0 .. v.depth] ==
            IF k = 0 THEN [queue |-> {v.start}, visited |-> {}]
            ELSE LET new == level[k - 1].queue \ level[k - 1].visited
                     seen == level[k - 1].visited \cup new
                 IN  [queue |-> {x.to : x \in Follow(v, {n \in new : Shown(v, n)})} \ seen,
                      visited |-> seen]
    IN  level[v.depth].visited

Accepted(n) ==
    {e \in Events : n = ServiceNode(world.service[e])
                     /\ \E r \in Requests : pc[r] = "ok" /\ e \in Ids(r)}

\* GetServiceGraph, GetIncidentGraph, the reconstructor's traversal.  It is one
\* step: it only reads the store, and two of them write the same to the cache.
Traverse(v) ==
    /\ v.start \in nodes
    /\ Spend("view")
    /\ LET visited == {n \in Levels(v) : Shown(v, n)}
           fetched == {n \in visited : n \notin DOMAIN cache /\ EdgesOf(n) # {}}
           shown == Follow(v, visited)
       IN  /\ view' = [cached |-> v.start \in DOMAIN cache,
                       missing |-> {e \in Accepted(v.start) : \A x \in shown : x.from # EventNode(e)}]
           /\ cache' = [n \in DOMAIN cache \cup fetched |-> Adjacent(n)]
    /\ UNCHANGED <<world, store, request, missed>>

Next ==
    \/ \E r \in Requests :
          Save(r) \/ Core(r) \/ Group(r) \/ Link(r) \/ Linked(r) \/ Accept(r) \/ Retry(r)
    \/ \E v \in Views : Traverse(v)
    \/ Crash

Spec == Init /\ [][Next]_vars

-----------------------------------------------------------------------------
NodeNames == ({"event", "deploy"} \X Events) \cup ({"service"} \X Range(world.service))

TypeOK ==
    /\ world \in Worlds
    /\ stored \subseteq Events /\ nodes \subseteq NodeNames
    /\ \A x \in edges : HasEnds(x)
    /\ \A x, y \in edges : x.id = y.id => x = y
    /\ pc \in [Requests -> {"new", "core", "group", "link", "ok", "error"}]
    /\ \A r \in Requests : Range(todo[r]) \subseteq Ids(r) /\ found[r] \subseteq Events \X Events
    /\ DOMAIN cache \subseteq nodes

\* Two accepted events of one trace or incident are joined, whichever came first
\* and however their requests overlapped, unless a fault kept an edge from being
\* saved.  Not so an event and a batch with several events of the trace: those
\* are linked with each other only.
LinksTraces ==
    \A r, q \in Requests, t \in {"same_trace", "same_incident"} :
        \A d \in Ids(r), e \in Ids(q) :
            LET g == <<t, ValueOf(t, e)>>
            IN  \/ d = e \/ {pc[r], pc[q]} # {"ok"} \/ g[2] \notin {ValueOf(t, d)} \ {None}
                \/ r # q /\ (Cardinality(Members(r, g)) > 1 \/ Cardinality(Members(q, g)) > 1)
                \/ {<<d, e>>, <<e, d>>} \cap missed # {}
                \/ \E x \in edges :
                       /\ {x.from, x.to} = {EventNode(d), EventNode(e)}
                       /\ x.type \in {"same_trace", "same_incident"}

\* The first traversal from a service, since the process started, shows every
\* event of it that was accepted before.
FirstViewIsComplete ==
    ~view.cached => view.missing = {}

GraphFollowsEvents == LinksTraces /\ FirstViewIsComplete

=============================================================================
