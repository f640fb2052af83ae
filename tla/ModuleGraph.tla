----------------------------- MODULE ModuleGraph -----------------------------
(***************************************************************************)
(* elfaot's translation regions for one page of the profile: the graph of  *)
(* its executed blocks (BuildModuleGraph and the analyser), its dominator  *)
(* tree and dominance frontiers, the region entries inferred from them,    *)
(* and the regions.                                                        *)
(*                                                                         *)
(* A node is the address of its block and the root is 0.  The loops over   *)
(* the work list and until nothing changes take a step each time round;    *)
(* the order in which a work list is filled from a set of pointers is any. *)
(*                                                                         *)
(* An operator named Op_Variant is a mistaken form of Op.                  *)
(***************************************************************************)
EXTENDS GuestCode, SequencesExt

CONSTANTS Codes,    \* guest code of the page
          Profiles  \* PageData: sets of [executed, brind_target, segment_entry]

VARIABLES page,         \* the profile's page, with the code it lies on
          phase,        \* the function that runs next
          succs,        \* successors of every node, in order
          rpo,          \* nodes in reverse post-order
          dominator, domfrontier,
          region_entry, wlist,
          regions       \* nodes of the region of every entry

vars == <<page, phase, succs, rpo, dominator, domfrontier, region_entry, wlist, regions>>

Root == 0

NoNode == -1

Nodes == page.executed

AllNodes == Nodes \cup {Root}

ASSUME PageDataAssumption ==
  /\ Codes \subseteq [Mapped -> Insn]
  /\ \A d \in Profiles :
       /\ d.executed \subseteq Mapped
       /\ d.brind_target \cup d.segment_entry \subseteq d.executed
       /\ \A a, b \in d.executed : PageOf(a) = PageOf(b)

Init ==
  /\ \E code \in Codes, d \in Profiles :
       page = [code |-> code, executed |-> d.executed, brind_target |-> d.brind_target,
               segment_entry |-> d.segment_entry]
  /\ phase = "BuildModuleGraph"
  /\ succs = [n \in AllNodes |-> <<>>]
  /\ rpo = <<>>
  /\ dominator = [n \in AllNodes |-> NoNode]
  /\ domfrontier = [n \in AllNodes |-> {}]
  /\ region_entry = {}
  /\ wlist = {}
  /\ regions = <<>>

-----------------------------------------------------------------------------
(* BuildModuleGraph *)

\* The next executed block of the page, or the next page.
Boundary(n) ==
  LET after == {m \in Nodes : m > n}
  IN  IF after = {} THEN (PageOf(n) + 1) * PAGE_SIZE ELSE Min(after)

IpEnd(n) ==
  CHOOSE e \in n + 1 .. Boundary(n) : IsBlock(page.code, n, {Boundary(n)}, e)

\* What the analyser records as branch targets of the block at n: the fall-through
\* of a conditional branch comes before its target, and a block that is cut by its
\* boundary or by TB_MAX_INSNS goes on after it.
Targets(n) ==
  LET i == page.code[IpEnd(n) - 1]
      tgt == CHOOSE t \in i.tgts : TRUE
  IN  CASE i.op = "jal"  -> <<tgt>>
        [] i.op = "brcc" -> <<IpEnd(n), tgt>>
        [] i.op = "jalr" \/ i.op \in TrapOps -> <<>>
        [] OTHER -> <<IpEnd(n)>>

IsNode(a) == a \in Nodes

\* The marks in the order of the page's bits; a block with both is there twice.
RootSuccs ==
  LET page_vaddr == PageOf(Min(Nodes)) * PAGE_SIZE
      bits == [k \in 1 .. 2 * PAGE_SIZE |->
                 [ip |-> page_vaddr + (k - 1) \div 2,
                  of |-> IF k % 2 = 1 THEN page.brind_target ELSE page.segment_entry]]
      set == SelectSeq(bits, LAMBDA b : b.ip \in b.of)
  IN  IF Nodes = {} THEN <<>> ELSE [k \in DOMAIN set |-> set[k].ip]

\* A branch out of the graph (RecordGBr finds no node) makes no edge.
BuildModuleGraph ==
  /\ phase = "BuildModuleGraph"
  /\ \A n \in Nodes : \A a \in n .. IpEnd(n) - 1 : page.code[a].op # "ill"
  /\ succs' = [n \in AllNodes |->
                 IF n = Root THEN RootSuccs ELSE SelectSeq(Targets(n), IsNode)]
  /\ phase' = "RPOTraversal"
  /\ UNCHANGED <<page, rpo, dominator, domfrontier, region_entry, wlist, regions>>

\* The analyser does not implement the illegal instruction.
AnalyseIllegal ==
  /\ phase = "BuildModuleGraph"
  /\ \E n \in Nodes : \E a \in n .. IpEnd(n) - 1 : page.code[a].op = "ill"
  /\ phase' = "panic"
  /\ UNCHANGED <<page, succs, rpo, dominator, domfrontier, region_entry, wlist, regions>>

Preds(n) == {m \in AllNodes : n \in Range(succs[m])}

\* preds.size(): an edge that was recorded twice counts twice.
NPreds(n) ==
  Cardinality(UNION {{<<m, k>> : k \in {i \in DOMAIN succs[m] : succs[m][i] = n}} :
                       m \in AllNodes})

-----------------------------------------------------------------------------
(* ComputeDomTree *)

\* Depth first from n: s.seen are the nodes marked so far, s.po those left.
RECURSIVE Visit(_, _)
Visit(n, s) ==
  LET t == FoldLeft(LAMBDA acc, m : IF m \in acc.seen THEN acc ELSE Visit(m, acc),
                    [s EXCEPT !.seen = @ \cup {n}], succs[n])
  IN  [t EXCEPT !.po = Append(@, n)]

RPOTraversal ==
  /\ phase = "RPOTraversal"
  /\ rpo' = Reverse(Visit(Root, [seen |-> {}, po |-> <<>>]).po)
  /\ phase' = "rpon"
  /\ UNCHANGED <<page, succs, dominator, domfrontier, region_entry, wlist, regions>>

n_nodes == Cardinality(AllNodes)

\* Marker's constructor takes the number of states as a u8.
MarkerStates == n_nodes % 2^8

\* Marker::Set asserts that a number is one of the states; then the graph must not
\* have nodes that the traversal did not reach.
NumberNodes ==
  /\ phase = "rpon"
  /\ Len(rpo) <= MarkerStates
  /\ Len(rpo) = n_nodes
  /\ dominator' = [dominator EXCEPT ![Root] = Root]
  /\ phase' = "ComputeDomTree"
  /\ UNCHANGED <<page, succs, rpo, domfrontier, region_entry, wlist, regions>>

NumberFails ==
  /\ phase = "rpon"
  /\ Len(rpo) > MarkerStates \/ Len(rpo) # n_nodes
  /\ phase' = IF Len(rpo) > MarkerStates THEN "assert" ELSE "panic"
  /\ UNCHANGED <<page, succs, rpo, dominator, domfrontier, region_entry, wlist, regions>>

rpon(n) == CHOOSE k \in DOMAIN rpo : rpo[k] = n

RECURSIVE Intersect(_, _, _)
Intersect(dom, b1, b2) ==
  CASE b1 = b2 -> b1
    [] rpon(b1) > rpon(b2) -> Intersect(dom, dom[b1], b2)
    [] rpon(b1) < rpon(b2) -> Intersect(dom, b1, dom[b2])

\* The nearest common dominator of the predecessors that have one already.
NewIdom(dom, b) ==
  FoldSet(LAMBDA p, idom : IF idom = NoNode THEN p ELSE Intersect(dom, p, idom), NoNode,
          {p \in Preds(b) : dom[p] # NoNode})

DomPass_Once ==
  /\ phase = "ComputeDomTree"
  /\ dominator' = FoldLeft(LAMBDA dom, b : [dom EXCEPT ![b] = NewIdom(dom, b)],
                           dominator, Tail(rpo))
  /\ phase' = "ComputeDomFrontier"
  /\ UNCHANGED <<page, succs, rpo, domfrontier, region_entry, wlist, regions>>

\* One round of the loop that goes on while something has changed.
DomPass ==
  /\ phase = "ComputeDomTree"
  /\ dominator' = FoldLeft(LAMBDA dom, b : [dom EXCEPT ![b] = NewIdom(dom, b)],
                           dominator, Tail(rpo))
  /\ phase' = IF dominator' = dominator THEN "ComputeDomFrontier" ELSE phase
  /\ UNCHANGED <<page, succs, rpo, domfrontier, region_entry, wlist, regions>>

-----------------------------------------------------------------------------
(* ComputeDomFrontier *)

\* Dominators from runner up to, not including, top.
RECURSIVE Runners(_, _)
Runners(runner, top) ==
  IF runner = top THEN {} ELSE {runner} \cup Runners(dominator[runner], top)

ComputeDomFrontier_Two ==
  /\ phase = "ComputeDomFrontier"
  /\ domfrontier' = [x \in AllNodes |->
       {b \in Nodes : /\ NPreds(b) > 2
                      /\ \E p \in Preds(b) : x \in Runners(p, dominator[b])}]
  /\ phase' = "RegionMarks"
  /\ UNCHANGED <<page, succs, rpo, dominator, region_entry, wlist, regions>>

ComputeDomFrontier ==
  /\ phase = "ComputeDomFrontier"
  /\ domfrontier' = [x \in AllNodes |->
       {b \in Nodes : /\ NPreds(b) > 1
                      /\ \E p \in Preds(b) : x \in Runners(p, dominator[b])}]
  /\ phase' = "RegionMarks"
  /\ UNCHANGED <<page, succs, rpo, dominator, region_entry, wlist, regions>>

-----------------------------------------------------------------------------
(* ComputeRegionIDF, ComputeRegionDomSets *)

RegionMarks_All ==
  /\ phase = "RegionMarks"
  /\ region_entry' = Nodes
  /\ wlist' = region_entry'
  /\ phase' = "ComputeRegionIDF"
  /\ UNCHANGED <<page, succs, rpo, dominator, domfrontier, regions>>

RegionMarks ==
  /\ phase = "RegionMarks"
  /\ region_entry' = page.brind_target \cup page.segment_entry
  /\ wlist' = region_entry'
  /\ phase' = "ComputeRegionIDF"
  /\ UNCHANGED <<page, succs, rpo, dominator, domfrontier, regions>>

RegionIDF_Again ==
  /\ phase = "ComputeRegionIDF"
  /\ \E x \in wlist :
       /\ wlist' = (wlist \ {x}) \cup domfrontier[x]
       /\ region_entry' = region_entry \cup {x}
  /\ UNCHANGED <<page, phase, succs, rpo, dominator, domfrontier, regions>>

RegionIDF_Flat ==
  /\ phase = "ComputeRegionIDF"
  /\ \E x \in wlist :
       /\ wlist' = wlist \ {x}
       /\ region_entry' = region_entry \cup domfrontier[x]
  /\ UNCHANGED <<page, phase, succs, rpo, dominator, domfrontier, regions>>

\* A node is marked when it leaves the work list, after its frontier has entered.
RegionIDF ==
  /\ phase = "ComputeRegionIDF"
  /\ \E x \in wlist :
       /\ wlist' = (wlist \ {x}) \cup (domfrontier[x] \ region_entry)
       /\ region_entry' = region_entry \cup {x}
  /\ UNCHANGED <<page, phase, succs, rpo, dominator, domfrontier, regions>>

\* compute_region: depth first from n, not into other entries.
RECURSIVE Collect(_, _)
Collect(n, seen) ==
  FoldLeft(LAMBDA acc, m : IF m \in acc \cup region_entry THEN acc ELSE Collect(m, acc),
           seen \cup {n}, succs[n])

ComputeRegionDomSets ==
  /\ phase = "ComputeRegionIDF"
  /\ wlist = {}
  /\ regions' = [e \in region_entry |-> Collect(e, {})]
  /\ phase' = "done"
  /\ UNCHANGED <<page, succs, rpo, dominator, domfrontier, region_entry, wlist>>

Ended == {"done", "panic", "assert"}

End == phase \in Ended /\ UNCHANGED vars

Compute == \/ BuildModuleGraph \/ AnalyseIllegal \/ RPOTraversal
           \/ NumberNodes \/ NumberFails \/ DomPass
           \/ ComputeDomFrontier \/ RegionMarks \/ RegionIDF \/ ComputeRegionDomSets

Next == Compute \/ End

Spec == Init /\ [][Next]_vars

\* elfaot computes on its own; nothing interrupts it. This is WF_vars(Compute):
\* Compute is enabled until the computation has ended.
FairSpec == Spec /\ ([]<>(phase \in Ended) \/ []<><<Compute>>_vars)

-----------------------------------------------------------------------------
(* The graph as a relation, and what the results are to be *)

Edge(m, n) == n \in Range(succs[m])

\* Nodes reached from S over edges into nodes outside of avoid.
RECURSIVE Reach(_, _)
Reach(S, avoid) ==
  LET new == {n \in AllNodes \ (S \cup avoid) : \E m \in S : Edge(m, n)}
  IN  IF new = {} THEN S ELSE Reach(S \cup new, avoid)

\* No path from the root to n avoids d.
Dominates(d, n) == d = n \/ d = Root \/ n \notin Reach({Root}, {d})

\* ComputeDomTree finds the immediate dominator of every node: it strictly dominates
\* the node, and every other strict dominator of the node dominates it. While it
\* looks for them, a node's dominator comes before it in the reverse post-order, and
\* after the first round every node has one: `assert(new_idom)' says so, and the two
\* loops of intersect need it to end.
DominatorsCorrect ==
  /\ \A b \in Nodes :
       /\ dominator[b] # NoNode => rpon(dominator[b]) < rpon(b)
       /\ phase = "ComputeDomTree" /\ dominator # [n \in AllNodes |-> IF n = Root THEN Root ELSE NoNode]
            => dominator[b] # NoNode
  /\ phase = "ComputeDomFrontier" =>
       \A n \in Nodes :
         /\ dominator[n] # n /\ Dominates(dominator[n], n)
         /\ \A d \in AllNodes \ {n} : Dominates(d, n) => Dominates(d, dominator[n])

\* ComputeDomFrontier finds the dominance frontier of every node: the nodes with a
\* predecessor that it dominates and which it does not strictly dominate.
FrontierCorrect ==
  phase = "RegionMarks" =>
    \A x \in Nodes :
      domfrontier[x] = {y \in Nodes : /\ \E p \in Preds(y) : Dominates(x, p)
                                      /\ x = y \/ ~Dominates(x, y)}

\* The entries E that lead to node n: the last entry of some path to n.
LastEntries(E, n) == {e \in E : n = e \/ (n \notin E /\ n \in Reach({e}, E))}

\* Entries that meet the documented requirement: they include the marked blocks, and
\* on every path to a block the last one visited is the same.
Valid(E) ==
  /\ page.brind_target \cup page.segment_entry \subseteq E
  /\ \A n \in Nodes : Cardinality(LastEntries(E, n)) = 1

\* "Every region has a single entrypoint" (docs/rvdbt.md:123): the entries that
\* ComputeRegions infers are valid, and each block is in the region of the last
\* entry before it and in no other.
SingleEntry ==
  phase = "done" =>
    /\ Valid(region_entry)
    /\ DOMAIN regions = region_entry
    /\ \A n \in Nodes : {e \in region_entry : n \in regions[e]} = LastEntries(region_entry, n)

\* "Number of regions in graph must be minimal" (docs/rvdbt.md:124).
MinimalRegions ==
  phase = "done" =>
    \A E \in SUBSET Nodes : Valid(E) => Cardinality(region_entry) <= Cardinality(E)

\* ComputeRegions ends: the dominators come to a fixed point and the work list runs
\* empty, though a node may enter it many times.
Finishes == <>(phase \in Ended)

\* Marker::Set asserts that a mark is one of its states (qmc/marker.h:29).
MarksFit == phase # "assert"

=============================================================================
