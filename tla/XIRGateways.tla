---------------------------- MODULE XIRGateways ----------------------------
(***************************************************************************)
(* The gateway placement study (native/gateway_deployment.py): which nodes *)
(* of a frozen connectivity graph need a gateway so that messages may      *)
(* switch carriers there.  An analysis places gateways greedily on a       *)
(* bitset closure it updates in place, extends each carrier's graph in     *)
(* three counterfactual scenarios, replays everything with plain           *)
(* reference searches and publishes the result; a verifier rebuilds the    *)
(* publication from the provenance kept inside it.                         *)
(***************************************************************************)
EXTENDS Integers, Sequences, FiniteSets, FiniteSetsExt, SequencesExt

CONSTANTS
    Nodes,      \* networks: natural numbers, in the order of their names
    Protocols,  \* carriers
    Universe,   \* protocol edges <<carrier, source, destination>> to choose from
    Events,     \* event_count of an edge
    MaxEdits    \* bound on edits of the input files

VARIABLES
    edges,      \* the frozen graph
    phase,      \* what the analysis or the publication does next
    closure,    \* states reachable from every state, with the gateways selected
    selected,   \* nodes with a gateway
    rounds,     \* gateway_placement.rounds, from round one
    curves,     \* reachable pairs of <<protocol, scenario>>, by added nodes
    inputs,     \* version of each input file
    analysed,   \* versions the analysis read
    tree,       \* files of the publication: name -> the versions they rest on
    verdict,    \* the last verification
    edits

vars == <<edges, phase, closure, selected, rounds, curves, inputs, analysed, tree, verdict, edits>>

Files == {"topology", "measured"}
Scenarios == {"optimistic", "central", "conservative"}
-----------------------------------------------------------------------------
(* GatewayReachability: closure over (carrier, network) states. *)

States == Protocols \X Nodes

Native(s) == {t \in States : t[1] = s[1] /\ <<s[1], s[2], t[2]>> \in edges}

RECURSIVE Visit(_, _)
Visit(adjacency, visited) ==
    LET fresh == UNION {adjacency[s] : s \in visited} \ visited
    IN IF fresh = {} THEN visited ELSE Visit(adjacency, visited \cup fresh)

BaseClosure == LET adjacency == [s \in States |-> Native(s)]
               IN [s \in States |-> Visit(adjacency, {s})]

(* One gateway: whoever reaches a state of the node reaches what any of    *)
(* its states reaches.                                                     *)
AddGateway(c, node) ==
    LET mask == Protocols \X {node}
        union == UNION {c[s] : s \in mask}
    IN [s \in States |-> IF c[s] \cap mask # {} THEN c[s] \cup union ELSE c[s]]

Pass(c, gateways) == FoldLeft(AddGateway, c, SetToSortSeq(gateways, <))

(* Passes over the gateways until nothing grows. *)
RECURSIVE CloseGateways(_, _)
CloseGateways(c, gateways) ==
    LET grown == Pass(c, gateways)
    IN IF grown = c THEN c ELSE CloseGateways(grown, gateways)

Networks(c, node) == {t[2] : t \in UNION {c[<<p, node>>] : p \in Protocols}}
SumOver(f) == FoldFunction(+, 0, f)
ReachablePairs(c) == SumOver([n \in Nodes |-> Cardinality(Networks(c, n)) - 1])

ExpandedAdjacency(gateways) ==
    [s \in States |-> Native(s) \cup
        (IF s[2] \in gateways THEN (Protocols \X {s[2]}) \ {s} ELSE {})]

(* Breadth-first search that keeps, for every state it meets, the path to it. *)
RECURSIVE Paths(_, _)
Paths(adjacency, paths) ==
    LET seen == DOMAIN paths
        fresh == UNION {adjacency[s] : s \in seen} \ seen
        Parent(t) == CHOOSE s \in seen : t \in adjacency[s]
    IN IF fresh = {} THEN paths
       ELSE Paths(adjacency, [t \in seen \cup fresh |->
                IF t \in seen THEN paths[t] ELSE Append(paths[Parent(t)], t)])

SourceWitnesses(source, adjacency) ==
    LET paths == Paths(adjacency, [s \in Protocols \X {source} |-> <<s>>])
        Ends(n) == {s \in DOMAIN paths : s[2] = n}
    IN [n \in {s[2] : s \in DOMAIN paths} |->
            paths[CHOOSE s \in Ends(n) : \A t \in Ends(n) : Len(paths[s]) <= Len(paths[t])]]

(* A row for every ordered pair; no row if the closure and the search disagree. *)
PairEvidence(c, gateways) ==
    LET adjacency == ExpandedAdjacency(gateways)
        witnesses == [n \in Nodes |-> SourceWitnesses(n, adjacency)]
        base == BaseClosure
    IN [agree |-> \A n \in Nodes : Networks(c, n) = DOMAIN witnesses[n],
        rows |-> {[source |-> a, destination |-> b,
                   baseline |-> b \in Networks(base, a), terminal |-> b \in Networks(c, a),
                   path |-> IF b \in DOMAIN witnesses[a] THEN witnesses[a][b] ELSE <<>>] :
                  a \in Nodes, b \in Nodes}]
-----------------------------------------------------------------------------
(* Oracles: plain-set searches that share nothing with the closure. *)

CarrierReachability ==
    [p \in Protocols |->
        LET adjacency == [n \in Nodes |-> {m \in Nodes : <<p, n, m>> \in edges}]
        IN [n \in Nodes |-> Visit(adjacency, {n})]]

RECURSIVE Propagate(_, _, _)
Propagate(reach, reached, gateways) ==
    LET live == {g \in gateways : \E p \in Protocols : g \in reached[p]}
        grown == [p \in Protocols |-> reached[p] \cup UNION {reach[p][g] : g \in live}]
    IN IF grown = reached THEN reached ELSE Propagate(reach, grown, gateways)

ReferencePairSet(reach, gateways) ==
    UNION {LET reached == Propagate(reach, [p \in Protocols |-> reach[p][n]], gateways)
           IN {<<n, m>> : m \in UNION {reached[p] : p \in Protocols} \ {n}} : n \in Nodes}

ValidWitness(row, gateways) ==
    LET path == row.path
    IN /\ path # <<>> /\ path[1][2] = row.source /\ path[Len(path)][2] = row.destination
       /\ \A i \in 1..(Len(path) - 1) :
            LET s == path[i] t == path[i + 1]
            IN IF s[1] = t[1] THEN <<s[1], s[2], t[2]>> \in edges
               ELSE s[2] = t[2] /\ s[2] \in gateways
-----------------------------------------------------------------------------
(* Counterfactual expansion of one protocol. *)

EdgesOf(p) == {<<e[2], e[3]>> : e \in {x \in edges : x[1] = p}}
Covered(p) == UNION {{e[1], e[2]} : e \in EdgesOf(p)}
Activity(n) == LET at == {e \in edges : n \in {e[2], e[3]}} IN SumOver([e \in at |-> Events[e]])
Busier(m, n) == Activity(m) > Activity(n) \/ (Activity(m) = Activity(n) /\ m < n)

(* _largest_scc: nodes in the order a depth-first search leaves them, then *)
(* searches of the reversed graph from the last one back.                  *)
RECURSIVE Postorder(_, _, _, _)
Postorder(forward, stack, visited, order) ==
    IF stack = <<>> THEN [visited |-> visited, order |-> order]
    ELSE LET top == stack[Len(stack)] rest == Front(stack)
         IN IF top.exiting THEN Postorder(forward, rest, visited, Append(order, top.node))
            ELSE IF top.node \in visited THEN Postorder(forward, rest, visited, order)
            ELSE LET next == SetToSortSeq(forward[top.node] \ (visited \cup {top.node}), <)
                 IN Postorder(forward,
                        rest \o <<[node |-> top.node, exiting |-> TRUE]>>
                             \o [i \in DOMAIN next |-> [node |-> next[i], exiting |-> FALSE]],
                        visited \cup {top.node}, order)

FinishOrder(covered, forward) ==
    FoldLeft(LAMBDA acc, n : Postorder(forward, <<[node |-> n, exiting |-> FALSE]>>, acc.visited, acc.order),
             [visited |-> {}, order |-> <<>>], SetToSortSeq(covered, <)).order

Components(covered, pairs) ==
    LET forward == [n \in covered |-> {m \in covered : <<n, m>> \in pairs}]
        reverse == [n \in covered |-> {m \in covered : <<m, n>> \in pairs}]
    IN FoldLeft(LAMBDA acc, n :
            IF n \in acc.seen THEN acc
            ELSE LET open == [m \in covered |-> reverse[m] \ acc.seen]
                     component == Visit(open, {n})
                 IN [seen |-> acc.seen \cup component, found |-> acc.found \cup {component}],
            [seen |-> {}, found |-> {}], Reverse(FinishOrder(covered, forward))).found

Larger(c, d) == Cardinality(c) > Cardinality(d) \/ (Cardinality(c) = Cardinality(d) /\ Min(c) <= Min(d))
LargestScc(p) ==
    LET found == Components(Covered(p), EdgesOf(p))
    IN CHOOSE c \in found : \A d \in found : Larger(c, d)

Anchor(p) == LET scc == LargestScc(p) IN CHOOSE n \in scc : \A m \in scc \ {n} : Busier(n, m)
AddedOrder(p) == SetToSortSeq(Nodes \ Covered(p), Busier)

ProtocolClosure(p) ==
    LET adjacency == [n \in Nodes |-> {m \in Nodes : <<n, m>> \in EdgesOf(p)}]
    IN [n \in Nodes |-> Visit(adjacency, {n})]

AddProtocolEdge(c, e) ==
    IF e[2] \in c[e[1]] THEN c
    ELSE [n \in Nodes |-> IF e[1] \in c[n] THEN c[n] \cup c[e[2]] ELSE c[n]]

Attachment(p, scenario, node) ==
    LET scc == SetToSeq(LargestScc(p)) a == Anchor(p)
    IN CASE scenario = "optimistic" -> FlattenSeq([i \in DOMAIN scc |-> <<<<node, scc[i]>>, <<scc[i], node>>>>])
         [] scenario = "central" -> <<<<node, a>>, <<a, node>>>>
         [] scenario = "conservative" -> <<<<node, a>>>>

ClosurePairs(c) == SumOver([n \in Nodes |-> Cardinality(c[n]) - 1])

Curve(p, scenario) ==
    LET order == AddedOrder(p)
        grown == FoldLeft(LAMBDA acc, n : Append(acc,
                     FoldLeft(AddProtocolEdge, acc[Len(acc)], Attachment(p, scenario, n))),
                     <<ProtocolClosure(p)>>, order)
    IN [i \in DOMAIN grown |-> ClosurePairs(grown[i])]

(* The closed form of every prefix, from searches of the frozen graph alone. *)
ReferenceCurve(p, scenario) ==
    LET adjacency == [n \in Nodes |-> {m \in Nodes : <<n, m>> \in EdgesOf(p)}]
        backward == [n \in Nodes |-> {m \in Nodes : <<m, n>> \in EdgesOf(p)}]
        base == SumOver([n \in Nodes |-> Cardinality(Visit(adjacency, {n})) - 1])
        from == Cardinality(Visit(adjacency, {Anchor(p)}))
        to == Cardinality(Visit(backward, {Anchor(p)}))
    IN [i \in 1..(Len(AddedOrder(p)) + 1) |->
            LET k == i - 1
            IN IF scenario = "conservative" THEN base + k * from
               ELSE base + k * to + k * from + k * (k - 1)]
-----------------------------------------------------------------------------
(* The analysis. *)

AllCompatible == ReachablePairs(CloseGateways(BaseClosure, Nodes))

Init ==
    /\ edges \in {g \in SUBSET Universe : \A p \in Protocols : \E e \in g : e[1] = p}
    /\ phase = "placing" /\ closure = BaseClosure /\ selected = {} /\ rounds = <<>> /\ curves = <<>>
    /\ inputs = [f \in Files |-> 0] /\ analysed = inputs
    /\ tree = <<>> /\ verdict = "none" /\ edits = 0

(* mutant: every candidate starts from the graph without gateways *)
Candidate_Base(node) == CloseGateways(BaseClosure, {node})

(* A copy of the closure, closed under the gateways selected and one more. *)
Candidate(node) == CloseGateways(closure, selected \cup {node})

(* One round: every node without a gateway is tried on a copy of the closure. *)
GreedyRound ==
    LET current == ReachablePairs(closure)
        closed == [n \in Nodes \ selected |-> Candidate(n)]
        gain == [n \in DOMAIN closed |-> ReachablePairs(closed[n]) - current]
        best == CHOOSE n \in DOMAIN gain :
                    \A m \in DOMAIN gain : gain[n] > gain[m] \/ (gain[n] = gain[m] /\ n <= m)
    IN /\ phase = "placing" /\ current < AllCompatible /\ Nodes \ selected # {}
       /\ rounds' = Append(rounds, [node |-> IF gain[best] > 0 THEN best ELSE 0, gains |-> gain,
                                    pairs |-> current + IF gain[best] > 0 THEN gain[best] ELSE 0])
       /\ IF gain[best] > 0
          THEN selected' = selected \cup {best} /\ closure' = closed[best] /\ UNCHANGED phase
          ELSE phase' = "curves" /\ UNCHANGED <<selected, closure>>
       /\ UNCHANGED <<edges, curves, inputs, analysed, tree, verdict, edits>>

EndPlacement ==
    /\ phase = "placing" /\ (ReachablePairs(closure) >= AllCompatible \/ selected = Nodes)
    /\ phase' = "curves"
    /\ UNCHANGED <<edges, closure, selected, rounds, curves, inputs, analysed, tree, verdict, edits>>

ExpandProtocols ==
    /\ phase = "curves" /\ phase' = "replay"
    /\ curves' = [k \in Protocols \X Scenarios |-> Curve(k[1], k[2])]
    /\ UNCHANGED <<edges, closure, selected, rounds, inputs, analysed, tree, verdict, edits>>

(* Rounds are replayed from no gateway at all, with the reference search. *)
RoundsReplay ==
    LET reach == CarrierReachability
        Before(i) == {rounds[j].node : j \in 1..(i - 1)}
        Size(gateways) == Cardinality(ReferencePairSet(reach, gateways))
    IN \A i \in DOMAIN rounds :
        LET free == Nodes \ Before(i)
            gains == [n \in free |-> Size(Before(i) \cup {n}) - Size(Before(i))]
            best == CHOOSE n \in free : \A m \in free : gains[n] > gains[m] \/ (gains[n] = gains[m] /\ n <= m)
        IN /\ rounds[i].gains = gains
           /\ rounds[i].node = IF gains[best] > 0 THEN best ELSE 0
           /\ rounds[i].pairs = Size(Before(i)) + IF gains[best] > 0 THEN gains[best] ELSE 0

PairsReplay ==
    LET reach == CarrierReachability
        base == ReferencePairSet(reach, {})
        terminal == ReferencePairSet(reach, selected)
        evidence == PairEvidence(closure, selected)
    IN /\ evidence.agree
       /\ \A row \in {r \in evidence.rows : r.source # r.destination} :
            LET pair == <<row.source, row.destination>>
            IN /\ row.baseline = (pair \in base) /\ row.terminal = (pair \in terminal)
               /\ IF row.terminal THEN ValidWitness(row, selected) ELSE row.path = <<>>

CurvesReplay == \A k \in Protocols \X Scenarios : curves[k] = ReferenceCurve(k[1], k[2])

ValidateReplay ==
    /\ phase = "replay"
    /\ phase' = IF RoundsReplay /\ PairsReplay /\ CurvesReplay THEN "analysed" ELSE "rejected"
    /\ UNCHANGED <<edges, closure, selected, rounds, curves, inputs, analysed, tree, verdict, edits>>
-----------------------------------------------------------------------------
(* Publication and verification.  The frozen inputs are pinned by their    *)
(* digests, which name version 0; the measured ones by the digest that the *)
(* analysis stored.                                                        *)

(* The rounds add up: each takes the best of its own candidates, and the   *)
(* pairs are those of the round before and its gain.                       *)
RoundsConsistent ==
    \A i \in DOMAIN rounds :
        LET row == rounds[i]
            best == CHOOSE n \in DOMAIN row.gains : \A m \in DOMAIN row.gains :
                        row.gains[n] > row.gains[m] \/ (row.gains[n] = row.gains[m] /\ n <= m)
            before == IF i = 1 THEN ReachablePairs(BaseClosure) ELSE rounds[i - 1].pairs
        IN IF row.gains[best] > 0
           THEN row.node = best /\ row.pairs = before + row.gains[best]
           ELSE row.node = 0 /\ row.pairs = before

CurvesOrdered ==
    \A p \in Protocols :
        /\ \A s \in Scenarios : Len(curves[<<p, s>>]) = Len(curves[<<p, "central">>])
        /\ \A i \in DOMAIN curves[<<p, "central">>] :
            /\ curves[<<p, "optimistic">>][i] >= curves[<<p, "central">>][i]
            /\ curves[<<p, "central">>][i] >= curves[<<p, "conservative">>][i]

(* A digest is compared with the file as it is at that moment. *)
Pinned(versions) == versions["topology"] = 0

StartPublication ==
    /\ phase = "analysed" /\ Pinned(inputs) /\ DOMAIN tree = {}
    /\ phase' = IF RoundsConsistent /\ CurvesOrdered THEN "copy" ELSE "rejected"
    /\ UNCHANGED <<edges, closure, selected, rounds, curves, inputs, analysed, tree, verdict, edits>>

(* output_root.mkdir, then a copy of every input, whatever it holds by now. *)
CopyProvenance ==
    /\ phase = "copy" /\ phase' = "digests"
    /\ tree' = [f \in {"provenance"} |-> inputs]
    /\ UNCHANGED <<edges, closure, selected, rounds, curves, inputs, analysed, verdict, edits>>

(* The measured inputs, not the copies, are compared with the analysis. *)
CheckMeasured ==
    /\ phase = "digests"
    /\ phase' = IF inputs["measured"] = analysed["measured"] THEN "tables" ELSE "failed"
    /\ UNCHANGED <<edges, closure, selected, rounds, curves, inputs, analysed, tree, verdict, edits>>

WriteTables ==
    /\ phase = "tables" /\ phase' = "manifest"
    /\ tree' = [f \in {"provenance", "tables"} |-> IF f = "tables" THEN analysed ELSE tree[f]]
    /\ UNCHANGED <<edges, closure, selected, rounds, curves, inputs, analysed, verdict, edits>>

WriteManifest ==
    /\ phase = "manifest" /\ phase' = "published"
    /\ tree' = [f \in {"provenance", "tables", "manifest"} |-> IF f = "manifest" THEN analysed ELSE tree[f]]
    /\ UNCHANGED <<edges, closure, selected, rounds, curves, inputs, analysed, verdict, edits>>

(* A crash leaves what has been written; a new publication refuses the     *)
(* directory.                                                              *)
CrashPublication ==
    /\ phase \in {"digests", "tables", "manifest"} /\ phase' = "failed"
    /\ UNCHANGED <<edges, closure, selected, rounds, curves, inputs, analysed, tree, verdict, edits>>

(* Verification publishes the analysis again, from the copies in the tree, *)
(* and compares every file.                                                *)
Rebuilds ==
    /\ "tables" \in DOMAIN tree
    /\ Pinned(tree["provenance"]) /\ tree["provenance"]["measured"] = analysed["measured"]
    /\ DOMAIN tree = {"provenance", "tables", "manifest"}

VerifyPublication ==
    /\ phase \in {"published", "failed"} /\ verdict = "none"
    /\ verdict' = IF Rebuilds THEN "verified" ELSE "refused"
    /\ UNCHANGED <<edges, phase, closure, selected, rounds, curves, inputs, analysed, tree, edits>>

(* Someone replaces an input file. *)
EditInput(f) ==
    /\ phase \in {"copy", "digests"} /\ edits < MaxEdits
    /\ edits' = edits + 1 /\ inputs' = [inputs EXCEPT ![f] = @ + 1]
    /\ UNCHANGED <<edges, phase, closure, selected, rounds, curves, analysed, tree, verdict>>

Next ==
    \/ GreedyRound \/ EndPlacement \/ ExpandProtocols \/ ValidateReplay
    \/ StartPublication \/ CopyProvenance \/ CheckMeasured \/ WriteTables \/ WriteManifest
    \/ CrashPublication \/ VerifyPublication \/ \E f \in Files : EditInput(f)

Spec == Init /\ [][Next]_vars
-----------------------------------------------------------------------------
(* Properties *)

(* Whatever the graph, the greedy placement ends with every pair that     *)
(* gateways everywhere would connect: it never stops early because no      *)
(* single gateway gains, although two together would (terminal_reason is   *)
(* never no_positive_marginal_gain).                                       *)
GreedyReachesAll == phase = "curves" => ReachablePairs(closure) = AllCompatible

(* The in-place closure, its incremental update by a protocol edge and the *)
(* component search agree, on every graph, with plain searches: neither    *)
(* the independent replay nor the publisher's checks of the rounds and the *)
(* curves refuse what the production code computed, and the component that *)
(* anchors the counterfactuals is the first of the largest sets of         *)
(* mutually reachable nodes.                                               *)
ReplayAgrees ==
    /\ phase # "rejected"
    /\ phase = "replay" => \A p \in Protocols :
        LET reach == ProtocolClosure(p)
            Mutual(n) == {m \in Covered(p) : m \in reach[n] /\ n \in reach[m]}
            all == {Mutual(n) : n \in Covered(p)}
        IN LargestScc(p) \in all /\ \A c \in all : Larger(LargestScc(p), c)

(* A publication that verification accepts is complete and holds copies of *)
(* the very inputs the analysis read, although the publisher copies an     *)
(* input and checks its digest at different moments and may die anywhere.  *)
VerifiedIsBound ==
    verdict = "verified" =>
        /\ DOMAIN tree = {"provenance", "tables", "manifest"}
        /\ \A f \in Files : tree["provenance"][f] = analysed[f]
=============================================================================
