---------------------------- MODULE NodeSelection ----------------------------
(***************************************************************************)
(* Which nodes answer a client's A2S_INFO query.  Every node worker has    *)
(* read the list of nodes once, when its A2SServer was constructed, and    *)
(* decides by itself: for a client whose place is found in the geo         *)
(* database the nearest node of its list answers, for any other client the *)
(* master nodes do.  The website's list is edited meanwhile, and each      *)
(* node's launcher fetches it when it fetches its settings.                *)
(*                                                                         *)
(* A list holds the vector nodes, in the order in which the website's      *)
(* database returned them, and which of them are masters.                  *)
(***************************************************************************)
EXTENDS Integers, FiniteSets, SequencesExt

CONSTANTS NodeIds,      \* numbers of nodes
          Places,       \* places of clients
          Unknown,      \* the place of a client the geo database misses
          Distance,     \* Distance[n][p]: from node n to place p
          Lists         \* the lists the website may hold

\* 10000, the distance the search starts with, is beyond any distance between
\* two points given in degrees.
Far == 10000

ASSUME PlacesAssumption ==
    /\ NodeIds \subseteq Nat
    /\ Unknown \notin Places
    /\ \A n \in NodeIds, p \in Places : Distance[n][p] \in 0..(Far - 1)
    /\ \A l \in Lists : /\ l.nodes \in Seq(NodeIds)
                        /\ l.masters \subseteq ToSet(l.nodes)

VARIABLES
    website,     \* the list on the website
    nodes,       \* the list each worker has read
    running,     \* nodes with a running worker
    query,       \* the place of the client that asks, or nothing
    pending,     \* nodes its query has not reached yet
    answered,    \* nodes that have answered it
    used         \* history: used[n] is the list by which node n has decided

asked == <<query, pending, answered, used>>
vars == <<website, nodes, running, asked>>

None == "no query"

\* The nodes that have decided about the query, and the lists they decided by.
deciders == DOMAIN used
ListsUsed == {used[n] : n \in deciders}
Nothing == [n \in {} |-> None]

-----------------------------------------------------------------------------
(* The search of OnReceiveClientData.                                      *)

\* Every node nearer than that becomes the winner.
MutantComparesWithFar(best, n, p) ==
    IF Far > Distance[n][p] THEN [best EXCEPT !.node = n] ELSE best

\* The winner so far gives way to a node that is nearer.
Nearer(best, n, p) ==
    IF best.dist > Distance[n][p]
    THEN [node |-> n, dist |-> Distance[n][p]]
    ELSE best

\* best[i] is the winner among the first i nodes.
Winner(list, p) ==
    LET v == list.nodes
        best[i \in 0..Len(v)] ==
            IF i = 0 THEN [node |-> v[1], dist |-> Far]
            ELSE Nearer(best[i - 1], v[i], p)
    IN best[Len(v)].node

\* A node answers when nobody else is nearer.
MutantTiesAnswer(n, list, p) ==
    IF p = Unknown THEN n \in list.masters
    ELSE \A m \in ToSet(list.nodes) : Distance[n][p] <= Distance[m][p]

MutantMasterDefers(n, list, p) ==
    p # Unknown /\ n = Winner(list, p)

\* A node is one server here: a worker that ignores such queries (a2signore),
\* as one for a second port of the same machine may, is no node.
Decides(n, list, p) ==
    IF p = Unknown THEN n \in list.masters ELSE n = Winner(list, p)

-----------------------------------------------------------------------------
Init ==
    /\ website \in Lists
    /\ nodes \in [NodeIds -> {website}]
    /\ running = ToSet(website.nodes)
    /\ query = None
    /\ pending = {}
    /\ answered = {}
    /\ used = Nothing

Edit ==
    /\ website' \in Lists
    /\ UNCHANGED <<nodes, running, asked>>

\* The launcher's UpdateServers: the workers are ended, the list is fetched
\* and new workers read it.  A node that is not on the list is refused its
\* settings, and so is left without workers when the website is not reached.
UpdateServers(n) ==
    /\ \/ /\ n \in ToSet(website.nodes)
          /\ nodes' = [nodes EXCEPT ![n] = website]
          /\ running' = running \cup {n}
       \/ /\ running' = running \ {n}
          /\ UNCHANGED nodes
    /\ UNCHANGED <<website, asked>>

\* A client asks every node that it knows of.
Ask(p) ==
    /\ pending = {}
    /\ query' = p
    /\ pending' = NodeIds
    /\ answered' = {}
    /\ used' = Nothing
    /\ UNCHANGED <<website, nodes, running>>

\* The query reaches a node, or the node has no worker just now.
OnReceiveClientData(n) ==
    /\ n \in pending
    /\ pending' = pending \ {n}
    /\ IF n \in running
       THEN /\ used' = [m \in deciders \cup {n} |->
                           IF m = n THEN nodes[n] ELSE used[m]]
            /\ answered' = IF Decides(n, nodes[n], query)
                           THEN answered \cup {n} ELSE answered
       ELSE UNCHANGED <<used, answered>>
    /\ UNCHANGED <<website, nodes, running, query>>

Next ==
    \/ Edit
    \/ \E p \in Places \cup {Unknown} : Ask(p)
    \/ \E n \in NodeIds : UpdateServers(n) \/ OnReceiveClientData(n)

Spec == Init /\ [][Next]_vars

-----------------------------------------------------------------------------
\* Every variable keeps its type.
TypeOK ==
    /\ website \in Lists
    /\ nodes \in [NodeIds -> Lists]
    /\ running \subseteq NodeIds
    /\ query \in Places \cup {Unknown, None}
    /\ pending \subseteq NodeIds
    /\ answered \subseteq deciders
    /\ deciders \subseteq NodeIds
    /\ used \in [deciders -> Lists]

\* A located client gets at most one answer per list in use, however the
\* website is edited and workers are restarted while its query goes round: as
\* long as all workers have read the same list there are no duplicates.
OneAnswerPerList ==
    query \in Places => Cardinality(answered) <= Cardinality(ListsUsed)

\* Nobody on the list a node has answered by is nearer to the client.
NearestAnswers ==
    query \in Places =>
        \A n \in answered : \A m \in ToSet(used[n].nodes) :
            Distance[n][query] <= Distance[m][query]

\* When all nodes of a list have decided, and by that list, a located client
\* gets exactly one answer and an unlocated one an answer of every master.
AgreeingNodesAnswer ==
    \A l \in Lists :
        /\ pending = {}
        /\ ListsUsed = {l}
        /\ ToSet(l.nodes) \subseteq deciders
        => IF query = Unknown THEN answered = l.masters
                              ELSE Cardinality(answered) = 1
=============================================================================
