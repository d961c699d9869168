----------------------------- MODULE UnionFind -----------------------------
(***************************************************************************)
(* The union-find decoder, crates/stabstream-decoder/src/union_find.rs,    *)
(* and the graph it decodes on, crates/stabstream-dem/src/graph.rs.        *)
(*                                                                         *)
(* Nodes are 0..n, the last one the virtual boundary.  A bitmask of        *)
(* observables is a set of them, XOR their symmetric difference            *)
(* (observables are below 64).  The decoder's working arrays are one       *)
(* record: parent and rank of Uf, and count, the syndrome_count of         *)
(* clusters.  They outlive a decode and are reset by the next.             *)
(***************************************************************************)
EXTENDS Integers, Sequences, SequencesExt

Boundary(graph) == graph.nodes - 1

NodesOf(graph) == 0..Boundary(graph)

\* The edges of one error mechanism: one to the boundary, one between two
\* detectors, or, for more than two, a chain through them.
EdgesOf(err, boundary) ==
  CASE Len(err.detectors) = 0 -> << >>
    [] Len(err.detectors) = 1 ->
         <<[u |-> err.detectors[1], v |-> boundary, fault_ids |-> err.observables]>>
    [] OTHER ->
         [k \in 1..Len(err.detectors) - 1 |->
            [u |-> err.detectors[k], v |-> err.detectors[k + 1],
             fault_ids |-> err.observables]]

\* from_dem.  Of an error's probability, only whether it is strictly between 0
\* and 1 ("some") matters.
FromDem(dem) ==
  [nodes |-> dem.detector_count + 1,
   edges |-> FlattenSeq([k \in DOMAIN dem.errors |->
                           IF dem.errors[k].p = "some"
                           THEN EdgesOf(dem.errors[k], dem.detector_count)
                           ELSE << >>])]

NewDecoder(graph) ==
  [parent |-> [x \in NodesOf(graph) |-> x],
   rank   |-> [x \in NodesOf(graph) |-> 0],
   count  |-> [x \in NodesOf(graph) |-> 0]]

\* Mutant: the clusters of the last decode stay.
Reset_KeepsClusters(uf) ==
  [parent |-> [x \in DOMAIN uf.parent |-> x],
   rank   |-> [x \in DOMAIN uf.rank |-> 0],
   count  |-> uf.count]

\* Uf::reset and the loop that clears the clusters.
Reset(uf) ==
  [parent |-> [x \in DOMAIN uf.parent |-> x],
   rank   |-> [x \in DOMAIN uf.rank |-> 0],
   count  |-> [x \in DOMAIN uf.count |-> 0]]

\* One turn of find's loop: path halving.
Halve(at) ==
  IF at.parent[at.x] = at.x
  THEN at
  ELSE LET grandparent == at.parent[at.parent[at.x]]
       IN  [x |-> grandparent, parent |-> [at.parent EXCEPT ![at.x] = grandparent]]

\* find: the root of x, and the parents it leaves behind.  No path is longer
\* than there are nodes.
Find(parent, x) ==
  LET nodes == Cardinality(DOMAIN parent)
      turn[n \in 0..nodes] ==
        IF n = 0 THEN [x |-> x, parent |-> parent] ELSE Halve(turn[n - 1])
  IN  turn[nodes]

\* union, of two roots.
Union(uf, a, b) ==
  CASE a = b -> uf
    [] a # b /\ uf.rank[a] < uf.rank[b] -> [uf EXCEPT !.parent[a] = b]
    [] a # b /\ uf.rank[a] > uf.rank[b] -> [uf EXCEPT !.parent[b] = a]
    [] OTHER -> [uf EXCEPT !.parent[b] = a, !.rank[a] = @ + 1]

Seed(uf, det) ==
  LET found == Find(uf.parent, det)
  IN  [uf EXCEPT !.parent = found.parent, !.count[found.x] = @ + 1]

\* Every active detector counts in its own tree.
SeedAll(uf, active) ==
  LET seeded[n \in 0..Len(active)] ==
        IF n = 0 THEN uf ELSE Seed(seeded[n - 1], active[n])
  IN  seeded[Len(active)]

\* One edge of a pass: s.uf are the arrays, s.any_odd is set if an end of the
\* edge lies in an odd cluster.
GrowEdge(s, edge) ==
  LET fu == Find(s.uf.parent, edge.u)
      fv == Find(fu.parent, edge.v)
      found == [s.uf EXCEPT !.parent = fv.parent]
      odd == (found.count[fu.x] % 2 = 1) \/ (found.count[fv.x] % 2 = 1)
      joined == Union(found, fu.x, fv.x)
      root == Find(joined.parent, fu.x)
      both == found.count[fu.x] + found.count[fv.x]
  IN  CASE ~ odd -> [s EXCEPT !.uf = found]
        [] odd /\ fu.x = fv.x -> [uf |-> found, any_odd |-> TRUE]
        [] OTHER -> [uf |-> [joined EXCEPT !.parent = root.parent, !.count[root.x] = both],
                     any_odd |-> TRUE]

\* One pass over all edges.
GrowAll(uf, graph) ==
  LET pass[n \in 0..Len(graph.edges)] ==
        IF n = 0 THEN [uf |-> uf, any_odd |-> FALSE] ELSE GrowEdge(pass[n - 1], graph.edges[n])
  IN  pass[Len(graph.edges)]

\* Mutant: one pass over the edges.
Grow_OnePass(uf, graph) == GrowAll(uf, graph).uf

\* Passes until one meets no odd cluster, at most as many as there are nodes.
Grow(uf, graph) ==
  LET round[n \in 0..graph.nodes] ==
        IF n = 0 THEN [uf |-> uf, any_odd |-> TRUE]
        ELSE IF round[n - 1].any_odd THEN GrowAll(round[n - 1].uf, graph) ELSE round[n - 1]
  IN  round[graph.nodes].uf

\* Flipped once for each time it is listed: twice is not at all.
FlipAll(flips, fault_ids) ==
  SymDiff(flips, {obs \in Range(fault_ids) :
                    Cardinality({k \in DOMAIN fault_ids : fault_ids[k] = obs}) % 2 = 1})

\* An edge whose ends are in one cluster counts.
Extract(s, edge) ==
  LET fu == Find(s.parent, edge.u)
      fv == Find(fu.parent, edge.v)
  IN  [parent |-> fv.parent,
       flips |-> IF fu.x = fv.x THEN FlipAll(s.flips, edge.fault_ids) ELSE s.flips]

ExtractAll(parent, graph) ==
  LET read[n \in 0..Len(graph.edges)] ==
        IF n = 0 THEN [parent |-> parent, flips |-> {}] ELSE Extract(read[n - 1], graph.edges[n])
  IN  read[Len(graph.edges)]

\* decode_active: the observables flipped, and the arrays as they are left.
DecodeActive(graph, uf, active) ==
  LET grown == Grow(SeedAll(Reset(uf), active), graph)
      read == ExtractAll(grown.parent, graph)
  IN  [uf |-> [grown EXCEPT !.parent = read.parent], flips |-> read.flips]

-----------------------------------------------------------------------------
(***************************************************************************)
(* The same on a partition of the nodes into clusters, with nothing to     *)
(* reset, no forest and no counts: what the arrays stand for.              *)
(***************************************************************************)
ClusterOf(clusters, x) == CHOOSE c \in clusters : x \in c

IsOdd(cluster, active) == Cardinality(cluster \cap active) % 2 = 1

\* An edge with an end in an odd cluster joins the clusters of its ends.
JoinEdge(clusters, edge, active) ==
  LET cu == ClusterOf(clusters, edge.u)
      cv == ClusterOf(clusters, edge.v)
  IN  IF IsOdd(cu, active) \/ IsOdd(cv, active)
      THEN (clusters \ {cu, cv}) \cup {cu \cup cv}
      ELSE clusters

JoinAll(clusters, graph, active) ==
  LET pass[n \in 0..Len(graph.edges)] ==
        IF n = 0 THEN clusters ELSE JoinEdge(pass[n - 1], graph.edges[n], active)
  IN  pass[Len(graph.edges)]

Partition(graph, active) ==
  LET round[n \in 0..graph.nodes] ==
        IF n = 0 THEN {{x} : x \in NodesOf(graph)} ELSE JoinAll(round[n - 1], graph, active)
  IN  round[graph.nodes]

\* An edge within a cluster counts.
FlipsOf(clusters, graph) ==
  LET read[n \in 0..Len(graph.edges)] ==
        IF n = 0 THEN {}
        ELSE LET edge == graph.edges[n]
             IN  IF edge.v \in ClusterOf(clusters, edge.u)
                 THEN FlipAll(read[n - 1], edge.fault_ids)
                 ELSE read[n - 1]
  IN  read[Len(graph.edges)]

PartitionFlips(graph, active) == FlipsOf(Partition(graph, active), graph)

\* The arrays after a decode: a forest with the active detectors of each
\* tree counted at its root, whose odd trees have nowhere left to grow.
IsGrown(graph, uf, active) ==
  LET Root(x) == Find(uf.parent, x).x
  IN  /\ \A x \in NodesOf(graph) : uf.parent[Root(x)] = Root(x)
      /\ \A x \in NodesOf(graph) : uf.parent[x] = x =>
           uf.count[x] = Cardinality({d \in active : Root(d) = x})
      /\ \A k \in DOMAIN graph.edges :
           LET ru == Root(graph.edges[k].u)
               rv == Root(graph.edges[k].v)
           IN  ru # rv => uf.count[ru] % 2 = 0 /\ uf.count[rv] % 2 = 0
=============================================================================
