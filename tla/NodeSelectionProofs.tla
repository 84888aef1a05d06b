------------------------ MODULE NodeSelectionProofs ------------------------
(***************************************************************************)
(* Proofs about which nodes answer a query, for any nodes, places,         *)
(* distances and lists: what the search makes of a list of any length, and *)
(* that every node decides once, by one of the lists in use.               *)
(***************************************************************************)
EXTENDS NodeSelection, FiniteSetTheorems, WellFoundedInduction, TLAPS

-----------------------------------------------------------------------------
(* Induction, for sets of numbers.                                         *)

Less == {ss \in Nat \X Nat : ss[1] < ss[2]}

LEMMA LessIsWellFounded == IsWellFoundedOn(Less, Nat)
BY NatLessThanWellFounded, Zenon DEF OpToRel, Less

\* A set that holds 0 and the successor of each of its members below n holds
\* every number up to n: its complement has no least member.
LEMMA HoldsUpTo ==
    ASSUME NEW n \in Nat, NEW S, 0 \in S,
           \A k \in 0..(n - 1) : k \in S => k + 1 \in S
    PROVE  0..n \subseteq S
<1> SUFFICES ASSUME 0..n \ S # {} PROVE FALSE
  OBVIOUS
<1> DEFINE T == 0..n \ S
<1>1. T \subseteq Nat /\ T # {}
  OBVIOUS
<1>2. PICK m \in T : \A k \in T : <<k, m>> \notin Less
  <2> HIDE DEF T
  <2> QED BY <1>1, LessIsWellFounded, WFMin
<1>3. m \in 1..n /\ m - 1 \in 0..(n - 1)
  OBVIOUS
<1>4. <<m - 1, m>> \in Less
  <2>1. m - 1 \in Nat /\ m \in Nat /\ m - 1 < m
    BY <1>3
  <2>2. <<m - 1, m>> \in Nat \X Nat
    BY <2>1
  <2> QED BY <2>1, <2>2 DEF Less
<1>5. m - 1 \notin T
  <2> HIDE DEF T
  <2> QED BY <1>2, <1>4
<1> QED BY <1>3, <1>5

-----------------------------------------------------------------------------
(* The search.                                                             *)

\* The loop of OnReceiveClientData as a sequence of winners.
Search(v, p, best) ==
    /\ best[0] = [node |-> v[1], dist |-> Far]
    /\ \A i \in 1..Len(v) : best[i] = Nearer(best[i - 1], v[i], p)

\* The recursive function exists: what it is up to k can be continued.
LEMMA SearchIs ==
    ASSUME NEW list, list.nodes \in Seq(NodeIds), NEW p
    PROVE  \E best : /\ Search(list.nodes, p, best)
                     /\ Winner(list, p) = best[Len(list.nodes)].node
<1> DEFINE v == list.nodes
           n == Len(v)
           First == [node |-> v[1], dist |-> Far]
           One(i, b) == Nearer(b, v[i], p)
           IsSearch(k, f) ==
              f = [i \in 0..k |-> IF i = 0 THEN First ELSE One(i, f[i - 1])]
           S == {k \in 0..n : \E f : IsSearch(k, f)}
<1>1. n \in Nat
  OBVIOUS
<1> HIDE DEF n, One, First
<1>2. 0 \in S
  <2>1. IsSearch(0, [i \in 0..0 |-> First])
    OBVIOUS
  <2> HIDE DEF IsSearch
  <2>2. 0 \in 0..n
    BY <1>1
  <2> QED BY <2>1, <2>2
<1>3. ASSUME NEW k \in 0..(n - 1), k \in S PROVE k + 1 \in S
  <2>1. PICK f : IsSearch(k, f)
    BY <1>3
  <2> DEFINE g == [i \in 0..(k + 1) |->
                      IF i = k + 1 THEN One(k + 1, f[k]) ELSE f[i]]
  <2>2. ASSUME NEW i \in 0..(k + 1)
        PROVE  g[i] = IF i = 0 THEN First ELSE One(i, g[i - 1])
    <3>1. CASE i = k + 1
      BY <3>1, <1>1
    <3>2. CASE i # k + 1
      <4>1. i \in 0..k /\ (i # 0 => i - 1 \in 0..k /\ i - 1 # k + 1)
        BY <3>2, <1>1
      <4>2. f[i] = IF i = 0 THEN First ELSE One(i, f[i - 1])
        BY <2>1, <4>1
      <4> QED BY <3>2, <4>1, <4>2
    <3> QED BY <3>1, <3>2
  <2>3. IsSearch(k + 1, g)
    BY <2>2
  <2>4. k + 1 \in 0..n
    BY <1>1
  <2> HIDE DEF IsSearch, g
  <2> QED BY <2>3, <2>4
<1>4. n \in S
  <2> HIDE DEF S
  <2>1. 0..n \subseteq S
    BY <1>1, <1>2, <1>3, HoldsUpTo
  <2> QED BY <1>1, <2>1
<1>5. \E f : IsSearch(n, f)
  BY <1>4
<1> DEFINE best == CHOOSE f : IsSearch(n, f)
<1>6. IsSearch(n, best)
  <2> HIDE DEF IsSearch
  <2> QED BY <1>5
<1>7. Winner(list, p) = best[n].node
  BY Zenon DEF Winner, n, One, First
<1> HIDE DEF best
<1>8. Search(v, p, best)
  <2>1. best[0] = First
    BY <1>1, <1>6
  <2>2. \A i \in 1..n : best[i] = One(i, best[i - 1])
    BY <1>1, <1>6
  <2> QED BY <2>1, <2>2 DEF Search, n, One, First
<1> QED BY <1>7, <1>8 DEF n

\* The first k nodes have been looked at.
NearestOf(b, v, p, k) ==
    /\ b.node \in ToSet(v)
    /\ k = 0 => b.dist = Far
    /\ k > 0 => b.dist = Distance[b.node][p]
    /\ \A j \in 1..k : b.dist <= Distance[v[j]][p]

\* The winner of a list that is not empty is on it, and nobody on it is nearer.
LEMMA WinnerIsNearest ==
    ASSUME NEW list, list.nodes \in Seq(NodeIds), list.nodes # <<>>,
           NEW p \in Places
    PROVE  /\ Winner(list, p) \in ToSet(list.nodes)
           /\ \A m \in ToSet(list.nodes) :
                 Distance[Winner(list, p)][p] <= Distance[m][p]
<1> DEFINE v == list.nodes
           n == Len(v)
<1>1. n \in Nat \ {0} /\ 1 \in 1..n /\ v \in Seq(NodeIds)
  OBVIOUS
<1>2. ToSet(v) = {v[j] : j \in 1..n} /\ \A j \in 1..n : v[j] \in NodeIds
  BY <1>1 DEF ToSet
<1>3. PICK best : Search(v, p, best) /\ Winner(list, p) = best[n].node
  BY SearchIs
<1> HIDE DEF n, v
<1> Far \in Nat
  BY DEF Far
<1>4. \A m \in ToSet(v) : m \in NodeIds /\ Distance[m][p] \in 0..(Far - 1)
  BY <1>2, PlacesAssumption
<1> DEFINE S == {k \in 0..n : NearestOf(best[k], v, p, k)}
<1>5. 0 \in S
  <2>1. best[0] = [node |-> v[1], dist |-> Far]
    BY <1>3 DEF Search
  <2>2. v[1] \in ToSet(v)
    BY <1>1, <1>2
  <2>3. NearestOf(best[0], v, p, 0)
    BY <2>1, <2>2 DEF NearestOf
  <2> QED BY <1>1, <2>3
<1>6. ASSUME NEW k \in 0..(n - 1), k \in S PROVE k + 1 \in S
  <2> DEFINE b == best[k]
             d == Distance[v[k + 1]][p]
  <2>1. k + 1 \in 1..n /\ (k + 1) - 1 = k /\ k \in Nat
    BY <1>1
  <2>2. best[k + 1] = Nearer(b, v[k + 1], p)
    BY <1>3, <2>1 DEF Search, n
  <2>3. NearestOf(b, v, p, k)
    BY <1>6
  <2>4. v[k + 1] \in ToSet(v) /\ d \in 0..(Far - 1)
    BY <1>2, <1>4, <2>1
  <2>5. b.dist \in 0..Far
    <3>1. k > 0 => Distance[b.node][p] \in 0..(Far - 1)
      BY <1>4, <2>3 DEF NearestOf
    <3>2. k = 0 \/ k > 0
      BY <2>1
    <3>3. Far \in 0..Far
      OBVIOUS
    <3>4. \A dist \in 0..(Far - 1) : dist \in 0..Far
      OBVIOUS
    <3> HIDE DEF b
    <3> QED BY <2>3, <3>1, <3>2, <3>3, <3>4 DEF NearestOf
  <2>6. \A j \in 1..k : Distance[v[j]][p] \in 0..(Far - 1)
    BY <1>1, <1>2, <1>4, <2>1
  <2>7. \A j \in 1..(k + 1) : j = k + 1 \/ j \in 1..k
    BY <2>1
  <2>8. NearestOf(best[k + 1], v, p, k + 1)
    <3>1. CASE b.dist > d
      <4>1. best[k + 1] = [node |-> v[k + 1], dist |-> d]
        BY <2>2, <3>1 DEF Nearer
      <4>2. \A j \in 1..(k + 1) : d <= Distance[v[j]][p]
        BY <2>3, <2>4, <2>5, <2>6, <2>7, <3>1 DEF NearestOf
      <4> QED BY <2>1, <2>4, <4>1, <4>2 DEF NearestOf
    <3>2. CASE ~(b.dist > d)
      <4>1. best[k + 1] = b
        BY <2>2, <3>2 DEF Nearer
      <4>2. k > 0
        BY <2>1, <2>3, <2>4, <3>2 DEF NearestOf
      <4>3. b.dist <= d
        BY <2>4, <2>5, <3>2
      <4> QED BY <2>1, <2>3, <2>7, <4>1, <4>2, <4>3 DEF NearestOf
    <3> QED BY <3>1, <3>2
  <2> QED BY <1>1, <2>1, <2>8
<1>7. n \in S
  <2> HIDE DEF S
  <2>1. 0..n \subseteq S
    BY <1>1, <1>5, <1>6, HoldsUpTo
  <2> QED BY <1>1, <2>1
<1>8. NearestOf(best[n], v, p, n)
  BY <1>7
<1> QED BY <1>1, <1>2, <1>3, <1>8 DEF NearestOf, v

-----------------------------------------------------------------------------
(* The inductive invariant.                                                *)

\* The website has given its list only to nodes that are on it.
ListedThemselves == \A n \in running : n \in ToSet(nodes[n].nodes)

\* A node has answered or kept silent as its list says.
DecidedByItsList ==
    \A n \in deciders : n \in answered <=> Decides(n, used[n], query)

\* A node decides about a query once.
DecidesOnce == pending \cap deciders = {}

\* Only a client's query is decided about, by lists that hold somebody.
UsedForAQuery ==
    /\ pending \cup deciders # {} => query \in Places \cup {Unknown}
    /\ \A n \in deciders : used[n].nodes # <<>>

SelectionInv ==
    /\ TypeOK
    /\ IsFiniteSet(deciders)
    /\ ListedThemselves
    /\ DecidesOnce
    /\ DecidedByItsList
    /\ UsedForAQuery

\* Nothing is decided yet when a client asks, nor before anybody does.
LEMMA NothingDecided ==
    ASSUME answered' = {}, used' = Nothing
    PROVE  /\ deciders' = {}
           /\ IsFiniteSet(deciders')
           /\ used' \in [deciders' -> Lists]
           /\ DecidesOnce'
           /\ DecidedByItsList'
           /\ \A n \in deciders' : used'[n].nodes # <<>>
BY FS_EmptySet DEF deciders, Nothing, DecidesOnce, DecidedByItsList

LEMMA ListFacts ==
    ASSUME NEW l \in Lists
    PROVE  /\ l.nodes \in Seq(NodeIds)
           /\ ToSet(l.nodes) \subseteq NodeIds
           /\ l.masters \subseteq ToSet(l.nodes)
BY PlacesAssumption DEF ToSet

LEMMA InitSelectionInv == Init => SelectionInv
<1> SUFFICES ASSUME Init PROVE SelectionInv
  OBVIOUS
<1>1. website \in Lists /\ ToSet(website.nodes) \subseteq NodeIds
  BY ListFacts DEF Init
<1>2. deciders = {} /\ used \in [deciders -> Lists]
  BY DEF Init, deciders, Nothing
<1>3. TypeOK /\ IsFiniteSet(deciders)
  BY <1>1, <1>2, FS_EmptySet DEF Init, TypeOK
<1>4. ListedThemselves
  BY <1>1 DEF Init, ListedThemselves
<1> QED BY <1>2, <1>3, <1>4
        DEF Init, SelectionInv, DecidesOnce, DecidedByItsList, UsedForAQuery

\* Edits and restarts leave the query that goes round as it is.
LEMMA AskedKeepsSelectionInv ==
    ASSUME SelectionInv, UNCHANGED asked, TypeOK', ListedThemselves'
    PROVE  SelectionInv'
BY DEF SelectionInv, asked, deciders, DecidesOnce, DecidedByItsList, Decides,
       UsedForAQuery

LEMMA UpdateKeepsLists ==
    ASSUME TypeOK, ListedThemselves, NEW n \in NodeIds, UpdateServers(n)
    PROVE  TypeOK' /\ ListedThemselves'
BY DEF TypeOK, UpdateServers, asked, deciders, ListedThemselves

\* A node that the query reaches decides by the list it has read.
LEMMA DecisionKeepsSelectionInv ==
    ASSUME SelectionInv, NEW n \in NodeIds, OnReceiveClientData(n)
    PROVE  SelectionInv'
<1> USE DEF SelectionInv
<1>1. /\ n \in pending /\ n \notin deciders /\ n \notin answered
      /\ pending' = pending \ {n} /\ query' = query
      /\ nodes[n] \in Lists
      /\ UNCHANGED <<website, nodes, running, query>>
  BY DEF OnReceiveClientData, DecidesOnce, TypeOK
<1>2. ListedThemselves' /\ query \in Places \cup {Unknown}
  BY <1>1 DEF ListedThemselves, UsedForAQuery
<1>3. CASE n \in running
  <2>1. /\ used' = [m \in deciders \cup {n} |->
                       IF m = n THEN nodes[n] ELSE used[m]]
        /\ answered' = IF Decides(n, nodes[n], query)
                       THEN answered \cup {n} ELSE answered
    BY <1>3 DEF OnReceiveClientData
  <2>2. /\ deciders' = deciders \cup {n}
        /\ used'[n] = nodes[n]
        /\ \A m \in deciders : used'[m] = used[m]
    BY <1>1, <2>1 DEF deciders
  <2>3. TypeOK'
    <3>1. used' \in [deciders' -> Lists]
      BY <1>1, <2>1, <2>2 DEF TypeOK
    <3> QED BY <1>1, <2>1, <2>2, <3>1 DEF TypeOK
  <2>4. IsFiniteSet(deciders')
    BY <2>2, FS_AddElement
  <2>5. DecidesOnce'
    BY <1>1, <2>2 DEF DecidesOnce
  <2>6. ASSUME NEW m \in deciders'
        PROVE  m \in answered' <=> Decides(m, used'[m], query')
    <3>1. CASE m = n
      BY <1>1, <2>1, <2>2, <3>1
    <3>2. CASE m # n
      <4>1. m \in deciders /\ (m \in answered' <=> m \in answered)
        BY <2>1, <2>2, <3>2
      <4> QED BY <4>1, <2>2, <1>1 DEF DecidedByItsList
    <3> QED BY <3>1, <3>2
  <2>7. \A m \in deciders' : used'[m].nodes # <<>>
    <3>1. n \in ToSet(nodes[n].nodes)
      BY <1>3 DEF ListedThemselves
    <3>2. nodes[n].nodes # <<>>
      BY <3>1 DEF ToSet
    <3> QED BY <2>2, <3>2 DEF UsedForAQuery
  <2> QED BY <1>1, <1>2, <2>3, <2>4, <2>5, <2>6, <2>7
          DEF DecidedByItsList, Decides, UsedForAQuery
<1>4. CASE n \notin running
  <2>1. UNCHANGED <<website, nodes, running, query, answered, used>>
    BY <1>4 DEF OnReceiveClientData
  <2>2. deciders' = deciders
    BY <2>1 DEF deciders
  <2>3. TypeOK'
    BY <1>1, <2>1, <2>2 DEF TypeOK
  <2>4. DecidedByItsList'
    BY <2>1, <2>2 DEF DecidedByItsList, Decides
  <2> QED BY <1>1, <1>2, <2>1, <2>2, <2>3, <2>4 DEF DecidesOnce, UsedForAQuery
<1> QED BY <1>3, <1>4

LEMMA NextSelectionInv == SelectionInv /\ [Next]_vars => SelectionInv'
<1> SUFFICES ASSUME SelectionInv, [Next]_vars PROVE SelectionInv'
  OBVIOUS
<1>1. CASE Edit
  <2>1. TypeOK' /\ UNCHANGED asked /\ ListedThemselves'
    BY <1>1 DEF Edit, SelectionInv, TypeOK, asked, deciders, ListedThemselves
  <2> QED BY <2>1, AskedKeepsSelectionInv
<1>2. ASSUME NEW p \in Places \cup {Unknown}, Ask(p) PROVE SelectionInv'
  <2>1. answered' = {} /\ used' = Nothing /\ query' = p
    BY <1>2 DEF Ask
  <2>2. TypeOK' /\ ListedThemselves'
    BY <1>2, <2>1, NothingDecided
       DEF Ask, SelectionInv, TypeOK, ListedThemselves
  <2> QED BY <2>1, <2>2, NothingDecided DEF SelectionInv, UsedForAQuery
<1>3. ASSUME NEW n \in NodeIds, UpdateServers(n) PROVE SelectionInv'
  <2>1. TypeOK' /\ ListedThemselves'
    BY <1>3, UpdateKeepsLists DEF SelectionInv
  <2>2. UNCHANGED asked
    BY <1>3 DEF UpdateServers
  <2> QED BY <2>1, <2>2, AskedKeepsSelectionInv
<1>4. ASSUME NEW n \in NodeIds, OnReceiveClientData(n) PROVE SelectionInv'
  BY <1>4, DecisionKeepsSelectionInv
<1>5. CASE UNCHANGED vars
  <2>1. TypeOK' /\ UNCHANGED asked /\ ListedThemselves'
    BY <1>5 DEF vars, SelectionInv, TypeOK, asked, deciders, ListedThemselves
  <2> QED BY <2>1, AskedKeepsSelectionInv
<1> QED BY <1>1, <1>2, <1>3, <1>4, <1>5 DEF Next

\* Each node decides once about a query (the call of OnReceiveClientData), by
\* the list its worker read when it started.
THEOREM SelectionInvariant == Spec => []SelectionInv
BY InitSelectionInv, NextSelectionInv, PTL DEF Spec

\* The variables keep their types whatever the website lists.
THEOREM SelectionTypes == Spec => []TypeOK
<1>1. SelectionInv => TypeOK
  BY DEF SelectionInv
<1> QED BY <1>1, SelectionInvariant, PTL

\* The nodes that answered a located client are among the winners of the
\* lists in use, and there are no more winners than lists.
LEMMA WinnersBound == SelectionInv => OneAnswerPerList
<1> SUFFICES ASSUME SelectionInv, query \in Places
             PROVE  Cardinality(answered) <= Cardinality(ListsUsed)
  BY DEF OneAnswerPerList
<1> DEFINE winner == [l \in ListsUsed |-> Winner(l, query)]
           winners == {winner[l] : l \in ListsUsed}
<1>1. winner \in Surjection(ListsUsed, winners)
  BY DEF Surjection
<1>2. IsFiniteSet(ListsUsed)
  <2>1. used \in [deciders -> ListsUsed]
    BY DEF SelectionInv, TypeOK, ListsUsed
  <2>2. used \in Surjection(deciders, ListsUsed)
    BY <2>1 DEF Surjection, ListsUsed
  <2> QED BY <2>2, FS_Surjection DEF SelectionInv
<1> HIDE DEF winner
<1>3. /\ IsFiniteSet(winners)
      /\ Cardinality(winners) <= Cardinality(ListsUsed)
  BY <1>1, <1>2, FS_Surjection
<1>4. answered \subseteq winners
  <2> SUFFICES ASSUME NEW n \in answered PROVE n \in winners
    OBVIOUS
  <2>1. n \in deciders /\ used[n] \in ListsUsed
    BY DEF SelectionInv, TypeOK, ListsUsed
  <2>2. n = Winner(used[n], query)
    BY <2>1, PlacesAssumption DEF SelectionInv, DecidedByItsList, Decides
  <2> QED BY <2>1, <2>2 DEF winner
<1> HIDE DEF winners
<1>5. IsFiniteSet(answered) /\ Cardinality(answered) <= Cardinality(winners)
  BY <1>3, <1>4, FS_Subset
<1>6. /\ Cardinality(answered) \in Nat
      /\ Cardinality(winners) \in Nat
      /\ Cardinality(ListsUsed) \in Nat
  BY <1>2, <1>3, <1>5, FS_CardinalityType
<1> QED BY <1>3, <1>5, <1>6

\* However the website is edited and workers are restarted while a query goes
\* round, a located client gets at most one answer per list in use.
THEOREM NoDuplicateAnswers == Spec => []OneAnswerPerList
BY WinnersBound, SelectionInvariant, PTL

\* The winner of a node's search over the vector nodes is the nearest of them,
\* so nobody on the list by which a node has answered is nearer to the client.
THEOREM NearestNodeAnswers == Spec => []NearestAnswers
<1>1. ASSUME SelectionInv, query \in Places, NEW n \in answered
      PROVE  \A m \in ToSet(used[n].nodes) :
                Distance[n][query] <= Distance[m][query]
  <2>1. n \in deciders /\ used[n] \in Lists
    BY <1>1 DEF SelectionInv, TypeOK
  <2>2. n = Winner(used[n], query)
    BY <1>1, <2>1, PlacesAssumption
       DEF SelectionInv, DecidedByItsList, Decides
  <2>3. used[n].nodes \in Seq(NodeIds) /\ used[n].nodes # <<>>
    BY <1>1, <2>1, ListFacts DEF SelectionInv, UsedForAQuery
  <2> QED BY <1>1, <2>2, <2>3, WinnerIsNearest
<1>2. SelectionInv => NearestAnswers
  BY <1>1 DEF NearestAnswers
<1> QED BY <1>2, SelectionInvariant, PTL

\* When all nodes of the one list in use have decided, and by that list, an
\* unlocated client has an answer of every master and of nobody else, and a
\* located client has exactly one: as long as the workers agree about the
\* list, each of them sees its own node win or lose as the others do.
THEOREM AgreeingNodesAlwaysAnswer == Spec => []AgreeingNodesAnswer
<1>1. ASSUME SelectionInv, NEW l \in Lists, ListsUsed = {l},
             ToSet(l.nodes) \subseteq deciders
      PROVE  IF query = Unknown THEN answered = l.masters
                                ELSE Cardinality(answered) = 1
  <2>1. /\ \A n \in deciders : used[n] = l
        /\ deciders # {}
    BY <1>1 DEF ListsUsed
  <2>2. /\ l.nodes \in Seq(NodeIds) /\ l.nodes # <<>>
        /\ l.masters \subseteq ToSet(l.nodes)
        /\ answered \subseteq deciders
        /\ query \in Places \cup {Unknown}
    BY <1>1, <2>1, ListFacts DEF SelectionInv, TypeOK, UsedForAQuery
  <2>3. \A n \in deciders : n \in answered <=> Decides(n, l, query)
    BY <1>1, <2>1 DEF SelectionInv, DecidedByItsList
  <2>4. CASE query = Unknown
    <3>1. \A n \in deciders : n \in answered <=> n \in l.masters
      BY <2>3, <2>4 DEF Decides
    <3>2. answered = l.masters
      BY <1>1, <2>2, <3>1
    <3> QED BY <2>4, <3>2
  <2>5. CASE query # Unknown
    <3>1. \A n \in deciders : n \in answered <=> n = Winner(l, query)
      BY <2>3, <2>5 DEF Decides
    <3>2. Winner(l, query) \in deciders
      BY <1>1, <2>2, <2>5, WinnerIsNearest
    <3>3. answered = {Winner(l, query)}
      BY <2>2, <3>1, <3>2
    <3> QED BY <2>5, <3>3, FS_Singleton
  <2> QED BY <2>4, <2>5
<1>2. SelectionInv => AgreeingNodesAnswer
  BY <1>1 DEF AgreeingNodesAnswer
<1> QED BY <1>2, SelectionInvariant, PTL
=============================================================================
