-------------------------- MODULE FlowNetlistProofs --------------------------
(* Proofs about a flow that any number of clients edit at the same time:    *)
(* keys and types hold; the hierarchy of blocks stays a forest until a      *)
(* request writes a block after it was overtaken; no net evades the         *)
(* boundary of a composite and drawing it loses no connection, unless the   *)
(* request was overtaken.  Requests may break off between two writes, and   *)
(* there may be any number of blocks, ports and requests.                   *)
EXTENDS FlowNetlist, FiniteSetTheorems, FunctionTheorems, SequenceTheorems, TLAPS

Block == [kind : BlockKinds, parent : Ids \cup {None}]
Port == [direction : Directions, kind : SemanticKinds]
Net == [kind : SemanticKinds, derived : BOOLEAN]

(* The writes there are.                                                    *)
BlockWrite == [tag : {"block"}, block : Ids, kind : BlockKinds, parent : Ids \cup {None}]
ParentWrite == [tag : {"parent"}, block : Ids, parent : Ids \cup {None}]
KindWrite == [tag : {"kind"}, block : Ids, kind : BlockKinds]
MetaWrite == [tag : {"meta"}, block : Ids]
BlockErasure == [tag : {"unblock"}, block : Ids]
PortWrite == [tag : {"port"}, port : PortIds, direction : Directions, kind : SemanticKinds]
PortKindWrite == [tag : {"portkind"}, port : PortIds, kind : SemanticKinds]
PortErasure == [tag : {"unport"}, port : PortIds]
NetWrite == [tag : {"net"}, net : PortIds \X PortIds, kind : SemanticKinds,
             derived : BOOLEAN, must : BOOLEAN]
NetKindWrite == [tag : {"netkind"}, net : PortIds \X PortIds, kind : SemanticKinds]
NetErasure == [tag : {"unnet"}, net : PortIds \X PortIds]

Write == BlockWrite \cup ParentWrite \cup KindWrite \cup MetaWrite \cup BlockErasure
           \cup PortWrite \cup PortKindWrite \cup PortErasure
           \cup NetWrite \cup NetKindWrite \cup NetErasure
------------------------------------------------------------------------------
(* The hierarchy of blocks bs.                                              *)

Kids(bs, found) == {b \in DOMAIN bs : bs[b].parent \in found}
ClosedIn(bs, found) == found \subseteq DOMAIN bs /\ Kids(bs, found) \subseteq found

Beneath(bs, b) ==
  {d \in DOMAIN bs : \A found \in SUBSET DOMAIN bs :
     b \in found /\ Kids(bs, found) \subseteq found => d \in found}

Forest(bs) == \A b \in DOMAIN bs : bs[b].parent \notin Beneath(bs, b)

LEMMA BelowIsBeneath == \A b : Below(b) = Beneath(blocks, b)
  BY DEF Below, Beneath, ChildrenOf, Kids

LEMMA BeneathItself ==
  ASSUME NEW bs, NEW b \in DOMAIN bs
  PROVE  b \in Beneath(bs, b)
  BY DEF Beneath

LEMMA BeneathIsLeast ==
  ASSUME NEW bs, NEW b, NEW found, b \in found, ClosedIn(bs, found)
  PROVE  Beneath(bs, b) \subseteq found
  BY DEF Beneath, ClosedIn

LEMMA BeneathIsClosed ==
  ASSUME NEW bs, NEW b
  PROVE  ClosedIn(bs, Beneath(bs, b))
<1>1. Beneath(bs, b) \subseteq DOMAIN bs
  BY DEF Beneath
<1>2. ASSUME NEW d \in Kids(bs, Beneath(bs, b)) PROVE d \in Beneath(bs, b)
  <2>1. d \in DOMAIN bs /\ bs[d].parent \in Beneath(bs, b)
    BY DEF Kids
  <2>2. ASSUME NEW found \in SUBSET DOMAIN bs, b \in found, Kids(bs, found) \subseteq found
        PROVE  d \in found
    BY <2>1, <2>2 DEF Beneath, Kids
  <2>3. QED  BY <2>1, <2>2 DEF Beneath
<1>3. QED  BY <1>1, <1>2 DEF ClosedIn

(* Nothing is under a block that was put under what is not below it.        *)
LEMMA MovingKeepsForest ==
  ASSUME NEW bs, Forest(bs), NEW new, NEW block \in DOMAIN bs,
         DOMAIN new = DOMAIN bs, new[block].parent \notin Beneath(bs, block),
         \A b \in DOMAIN bs \ {block} : new[b].parent = bs[b].parent
  PROVE  Forest(new)
<1> DEFINE moved == Beneath(bs, block)
<1>1. ClosedIn(bs, moved) /\ block \in moved /\ ClosedIn(new, moved)
  BY BeneathIsClosed, BeneathItself DEF ClosedIn, Kids
<1>2. ASSUME NEW b \in DOMAIN bs PROVE new[b].parent \notin Beneath(new, b)
  <2>1. CASE b = block
    BY <2>1, <1>1, BeneathIsLeast
  <2>2. CASE b # block
    <3>1. ClosedIn(bs, Beneath(bs, b)) /\ b \in Beneath(bs, b)
          /\ new[b].parent \notin Beneath(bs, b)
      BY <2>2, BeneathIsClosed, BeneathItself DEF Forest
    <3>2. CASE new[block].parent \notin Beneath(bs, b)
      <4>1. ClosedIn(new, Beneath(bs, b))
        BY <3>1, <3>2 DEF ClosedIn, Kids
      <4>2. QED  BY <3>1, <4>1, BeneathIsLeast
    <3>3. CASE new[block].parent \in Beneath(bs, b)
      <4>1. ClosedIn(new, Beneath(bs, b) \cup moved)
        BY <1>1, <3>1 DEF ClosedIn, Kids
      <4>2. new[b].parent \notin moved
        <5>1. SUFFICES ASSUME new[b].parent \in moved PROVE FALSE
          OBVIOUS
        <5>2. b \in moved
          BY <1>1, <2>2, <5>1 DEF ClosedIn, Kids
        <5>3. Beneath(bs, b) \subseteq moved
          BY <1>1, <5>2, BeneathIsLeast
        <5>4. QED  BY <3>3, <5>3
      <4>3. b \in Beneath(bs, b) \cup moved /\ new[b].parent \notin Beneath(bs, b) \cup moved
        BY <3>1, <4>2
      <4>4. Beneath(new, b) \subseteq Beneath(bs, b) \cup moved
        BY <4>1, <4>3, BeneathIsLeast
      <4>5. QED  BY <4>3, <4>4
    <3>4. QED  BY <3>2, <3>3
  <2>3. QED  BY <2>1, <2>2
<1>3. QED  BY <1>2 DEF Forest

(* A new block has no children.                                             *)
LEMMA AddingKeepsForest ==
  ASSUME NEW bs, Forest(bs), NEW new, NEW block, block \notin DOMAIN bs,
         DOMAIN new = DOMAIN bs \cup {block}, new[block].parent # block,
         \A b \in DOMAIN bs : new[b].parent = bs[b].parent /\ bs[b].parent # block
  PROVE  Forest(new)
<1>1. ASSUME NEW b \in DOMAIN new PROVE new[b].parent \notin Beneath(new, b)
  <2>1. CASE b = block
    <3>1. ClosedIn(new, {block})
      BY DEF ClosedIn, Kids
    <3>2. QED  BY <2>1, <3>1, BeneathIsLeast
  <2>2. CASE b # block
    <3>1. b \in DOMAIN bs
      BY <2>2
    <3>2. ClosedIn(bs, Beneath(bs, b)) /\ b \in Beneath(bs, b)
          /\ new[b].parent \notin Beneath(bs, b) \cup {block}
      BY <3>1, BeneathIsClosed, BeneathItself DEF Forest
    <3>3. ClosedIn(new, Beneath(bs, b) \cup {block})
      BY <3>2 DEF ClosedIn, Kids
    <3>4. Beneath(new, b) \subseteq Beneath(bs, b) \cup {block}
      BY <3>2, <3>3, BeneathIsLeast
    <3>5. QED  BY <3>2, <3>4
  <2>3. QED  BY <2>1, <2>2
<1>2. QED  BY <1>1 DEF Forest

(* The children of a block that goes move up to its parent.                 *)
LEMMA ErasingKeepsForest ==
  ASSUME NEW bs, Forest(bs), NEW new, NEW gone \in DOMAIN bs,
         DOMAIN new = DOMAIN bs \ {gone},
         \A b \in DOMAIN new :
           new[b].parent = IF bs[b].parent = gone THEN bs[gone].parent ELSE bs[b].parent
  PROVE  Forest(new)
<1>1. ASSUME NEW b \in DOMAIN new PROVE new[b].parent \notin Beneath(new, b)
  <2> DEFINE found == Beneath(bs, b) \ {gone}
  <2>1. ClosedIn(bs, Beneath(bs, b)) /\ b \in Beneath(bs, b)
        /\ bs[b].parent \notin Beneath(bs, b)
    BY BeneathIsClosed, BeneathItself DEF Forest
  <2>2. bs[gone].parent \in Beneath(bs, b) => gone \in Beneath(bs, b)
    BY <2>1 DEF ClosedIn, Kids
  <2>3. ClosedIn(new, found)
    BY <2>1, <2>2 DEF ClosedIn, Kids
  <2>4. b \in found /\ new[b].parent \notin found
    BY <2>1, <2>2
  <2>5. QED  BY <2>3, <2>4, BeneathIsLeast
<1>2. QED  BY <1>1 DEF Forest

(* Nothing is above a root.                                                 *)
LEMMA RootsAreNotBeneath ==
  ASSUME NEW bs, NEW root, NEW b \in DOMAIN bs, b # root,
         root \in DOMAIN bs => bs[root].parent \notin DOMAIN bs
  PROVE  root \notin Beneath(bs, b)
<1>1. ClosedIn(bs, DOMAIN bs \ {root})
  BY DEF ClosedIn, Kids
<1>2. QED  BY <1>1, BeneathIsLeast
------------------------------------------------------------------------------
(* The writes of an encapsulation.                                          *)

LEMMA SetToSeqIs ==
  ASSUME NEW S, IsFiniteSet(S)
  PROVE  /\ SetToSeq(S) \in Seq(S)
         /\ \A x \in S : \E i \in 1..Len(SetToSeq(S)) : SetToSeq(S)[i] = x
<1> DEFINE n == Cardinality(S)
<1>1. n \in Nat /\ ExistsBijection(1..n, S)
  BY FS_CardinalityType
<1>2. \E f \in [1..n -> S] : IsInjective(f)
  BY <1>1 DEF ExistsBijection, Bijection, Injection, IsInjective
<1>3. SetToSeq(S) \in [1..n -> S] /\ IsInjective(SetToSeq(S))
  BY <1>2 DEF SetToSeq
<1>4. SetToSeq(S) \in Seq(S) /\ Len(SetToSeq(S)) = n
  BY <1>1, <1>3
<1>5. SetToSeq(S) \in Injection(1..n, S)
  BY <1>3 DEF Injection, IsInjective
<1>6. IsFiniteSet(1..n) /\ Cardinality(1..n) = n
  BY <1>1, FS_Interval
<1>7. SetToSeq(S) \in Surjection(1..n, S)
  BY <1>5, <1>6, FS_Injection
<1>8. QED  BY <1>4, <1>7 DEF Surjection

LEMMA Thirds ==
  ASSUME NEW n \in Nat, NEW i \in 1..(3 * n)
  PROVE  ((i - 1) \div 3) + 1 \in 1..n /\ ((i - 1) % 3) + 1 \in 1..3
  OBVIOUS

LEMMA ThirdsBack ==
  ASSUME NEW n \in Nat, NEW k \in 1..n
  PROVE  LET i == 3 * (k - 1) + 1
         IN  i \in 1..(3 * n) /\ ((i - 1) \div 3) + 1 = k /\ ((i - 1) % 3) + 1 = 1
  OBVIOUS
------------------------------------------------------------------------------
(* The invariant.                                                           *)

BlocksHold ==
  /\ blocks \in [DOMAIN blocks -> Block] /\ DOMAIN blocks \subseteq Ids
  /\ \A b \in DOMAIN blocks : blocks[b].parent \in DOMAIN blocks \cup {None}
  /\ DOMAIN blocks \ Functions \subseteq spent
PortsHold ==
  /\ ports \in [DOMAIN ports -> Port] /\ DOMAIN ports \subseteq PortIds
  /\ \A p \in DOMAIN ports : p[1] \in DOMAIN blocks
NetsHold ==
  /\ nets \in [DOMAIN nets -> Net] /\ DOMAIN nets \subseteq PortIds \X PortIds
  /\ \A n \in DOMAIN nets : n[1] \in DOMAIN ports /\ n[2] \in DOMAIN ports
CountsHold == spent \subseteq Spare /\ allowed \in [Clients -> Nat]

TypesHold == BlocksHold /\ PortsHold /\ NetsHold /\ CountsHold

BoxWrite(box) == [tag |-> "block", block |-> box, kind |-> "composite", parent |-> None]
Unnet(n) == [tag |-> "unnet", net |-> n]

(* What create_composite writes once the box is there.                      *)
BoxPorts(box) == {w \in PortWrite : w.port[1] = box}
BoxNets(box) == {w \in NetWrite : box \in {w.net[1][1], w.net[2][1]}}
BoxParents(box, S) ==
  {w \in ParentWrite : w.block \in S /\ w.parent = box} \cup {w \in MetaWrite : w.block = box}
BoxWrites(box, S) == BoxPorts(box) \cup BoxNets(box) \cup NetErasure \cup BoxParents(box, S)

RequestType ==
  [op : {"none", "edit", "composite"}, todo : Seq(Write), row : SUBSET Block,
   overtaken : BOOLEAN, of : Spare \cup {None}, children : SUBSET Ids,
   joined : SUBSET (Ids \X Ids), missing : SUBSET (Functions \X Functions)]

(* What holds of a request even when it is overtaken.                       *)
Given(r) == \A i \in 1..Len(r.todo) : r.todo[i].tag = "block" => r.todo[i].block \in spent
RequestTyped(r) ==
  /\ r \in RequestType /\ Given(r)
  /\ r.op = "none" => r.todo = <<>> /\ r.row = {}
  /\ r.op = "edit" => Len(r.todo) = 1

(* What the request has read is still so.                                   *)
RowOK(r) == \A row \in r.row : row = RowOf(Head(r.todo))
MayEdit(w) == w.tag = "parent" => w.parent \notin Beneath(blocks, w.block)
EditOK(r) == r.op = "edit" => MayEdit(Head(r.todo))

(* A composite is a root, and its children are not it.                      *)
BoxOK(r) ==
  /\ r.of \in Spare /\ r.of \in spent
  /\ r.children \subseteq DOMAIN blocks /\ r.of \notin r.children
  /\ \/ /\ r.of \in DOMAIN blocks /\ blocks[r.of].parent = None
        /\ r.todo \in Seq(BoxWrites(r.of, r.children))
     \/ /\ r.of \notin DOMAIN blocks
        /\ r.todo # <<>> /\ Head(r.todo) = BoxWrite(r.of)
        /\ Tail(r.todo) \in Seq(BoxWrites(r.of, r.children))

OnBoundary(r, n) ==
  n \in External(r.children) /\ ports[n[1]].direction = "output" /\ ports[n[2]].direction = "input"
Passes(r, n) == r.of \in {n[1][1], n[2][1]}

(* A net that crosses the boundary passes by the composite, or is still to  *)
(* be deleted.                                                              *)
BoundaryOK(r) ==
  \A n \in DOMAIN nets : OnBoundary(r, n) =>
    Passes(r, n) \/ \E i \in 1..Len(r.todo) : r.todo[i] = Unnet(n)

CompositeOK(r) == r.op = "composite" => BoxOK(r) /\ BoundaryOK(r)

RequestOK(r) ==
  /\ RequestTyped(r)
  /\ ~ r.overtaken => RowOK(r) /\ EditOK(r) /\ CompositeOK(r)

RequestsHold ==
  /\ request = [c \in Clients |-> request[c]]
  /\ \A c \in Clients : RequestOK(request[c])

FlowInv == TypesHold /\ (~ raced => Forest(blocks)) /\ RequestsHold
------------------------------------------------------------------------------
(* What create_composite plans.                                             *)

LEMMA FinitelyMany ==
  /\ IsFiniteSet(Ids) /\ IsFiniteSet(PortIds) /\ IsFiniteSet(PortIds \X PortIds)
<1>1. IsFiniteSet(Ids)
  BY FlowAssumption, FS_Union DEF Ids
<1>2. IsFiniteSet({"control_in", "control_out"})
  <2>1. IsFiniteSet({"control_in"})
    BY FS_Singleton, Zenon
  <2>2. IsFiniteSet({"control_in"} \cup {"control_out"})
    BY <2>1, FS_AddElement, Zenon
  <2>3. {"control_in", "control_out"} = {"control_in"} \cup {"control_out"}
    OBVIOUS
  <2>4. QED  BY <2>2, <2>3, Zenon
<1>3. IsFiniteSet(PortNames \cup {"control_in", "control_out"})
  BY <1>2, FlowAssumption, FS_Union
<1>4. IsFiniteSet(PortIds)
  BY <1>1, <1>3, FS_Product DEF PortIds
<1>5. QED  BY <1>1, <1>4, FS_Product

LEMMA CrossingIs ==
  ASSUME PortsHold, NetsHold, NEW S
  PROVE  /\ IsFiniteSet(Crossing(S)) /\ Crossing(S) \subseteq DOMAIN nets
         /\ \A n \in External(S) :
              ports[n[1]].direction = "output" /\ ports[n[2]].direction = "input"
                => n \in Crossing(S)
<1>1. Crossing(S) \subseteq DOMAIN nets
  BY DEF Crossing, External
<1>2. IsFiniteSet(Crossing(S))
  BY <1>1, FinitelyMany, FS_Subset DEF NetsHold
<1>3. ASSUME NEW n \in External(S),
             ports[n[1]].direction = "output", ports[n[2]].direction = "input"
      PROVE  n \in Crossing(S)
  <2>1. n \in DOMAIN nets /\ n[1] \in DOMAIN ports /\ n[2] \in DOMAIN ports
        /\ (n[1][1] \in S \/ n[2][1] \in S)
    BY DEF External, NetsHold
  <2>2. CASE n[2][1] \in S
    <3>1. n[2] \in Exposed(S)
      BY <1>3, <2>1, <2>2 DEF Exposed
    <3>2. QED  BY <1>3, <2>2, <3>1 DEF Crossing, Needs, Key, Own, Inward
  <2>3. CASE n[2][1] \notin S
    <3>1. n[1] \in Exposed(S)
      BY <1>3, <2>1, <2>3 DEF Exposed
    <3>2. QED  BY <1>3, <2>3, <3>1 DEF Crossing, Needs, Key, Own, Inward
  <2>4. QED  BY <2>2, <2>3
<1>4. QED  BY <1>1, <1>2, <1>3

LEMMA RedirectIs ==
  ASSUME PortsHold, NetsHold, NEW S, NEW box \in Ids, NEW n \in DOMAIN nets
  PROVE  /\ Redirect(S, box, n)[1] = Unnet(n)
         /\ \A i \in 1..3 : Redirect(S, box, n)[i] \in NetErasure \cup BoxNets(box)
<1>1. n \in PortIds \X PortIds /\ nets[n].kind \in SemanticKinds
  BY DEF NetsHold, Net
<1>2. Shared(S, box, n) \in PortIds /\ Shared(S, box, n)[1] = box
  BY <1>1 DEF Shared, Own, PortIds
<1>3. PutNet(n[1], Shared(S, box, n), nets[n].kind, TRUE, FALSE) \in BoxNets(box)
  BY <1>1, <1>2 DEF PutNet, BoxNets, NetWrite
<1>4. PutNet(Shared(S, box, n), n[2], nets[n].kind, TRUE, FALSE) \in BoxNets(box)
  BY <1>1, <1>2 DEF PutNet, BoxNets, NetWrite
<1>5. Unnet(n) \in NetErasure
  BY <1>1 DEF Unnet, NetErasure
<1>6. PICK first \in BoxNets(box), second \in BoxNets(box) :
        Redirect(S, box, n) = <<Unnet(n), first, second>>
  BY <1>3, <1>4 DEF Redirect, Unnet
<1>7. ASSUME NEW i \in 1..3
      PROVE  <<Unnet(n), first, second>>[i] \in NetErasure \cup BoxNets(box)
  <2>1. i = 1 \/ i = 2 \/ i = 3
    OBVIOUS
  <2>2. QED  BY <1>5, <2>1
<1>8. QED  BY <1>6, <1>7

LEMMA RedirectsAre ==
  ASSUME PortsHold, NetsHold, NEW S, NEW box \in Ids
  PROVE  /\ Redirects(S, box) \in Seq(NetErasure \cup BoxNets(box))
         /\ \A n \in Crossing(S) :
              \E i \in 1..Len(Redirects(S, box)) : Redirects(S, box)[i] = Unnet(n)
<1> DEFINE order == SetToSeq(Crossing(S))
<1>1. order \in Seq(Crossing(S)) /\ \A n \in Crossing(S) : \E k \in 1..Len(order) : order[k] = n
  BY CrossingIs, SetToSeqIs
<1>2. PICK len \in Nat : len = Len(order)
  BY <1>1
<1>3. Redirects(S, box) = [i \in 1..(3 * len) |->
         Redirect(S, box, order[((i - 1) \div 3) + 1])[((i - 1) % 3) + 1]]
  BY <1>2 DEF Redirects
<1>4. \A k \in 1..len : order[k] \in DOMAIN nets
  BY <1>1, <1>2, CrossingIs
<1> HIDE DEF order
<1>5. ASSUME NEW i \in 1..(3 * len)
      PROVE  Redirects(S, box)[i] \in NetErasure \cup BoxNets(box)
  <2>1. PICK k \in 1..len, j \in 1..3 : k = ((i - 1) \div 3) + 1 /\ j = ((i - 1) % 3) + 1
    BY Thirds
  <2>2. Redirects(S, box)[i] = Redirect(S, box, order[k])[j]
    BY <1>3, <2>1
  <2>3. QED  BY <1>4, <2>2, RedirectIs
<1>6. Redirects(S, box) \in Seq(NetErasure \cup BoxNets(box)) /\ Len(Redirects(S, box)) = 3 * len
  BY <1>2, <1>3, <1>5
<1>7. ASSUME NEW n \in Crossing(S)
      PROVE  \E i \in 1..Len(Redirects(S, box)) : Redirects(S, box)[i] = Unnet(n)
  <2>1. PICK k \in 1..len : order[k] = n
    BY <1>1, <1>2
  <2>2. PICK i \in 1..(3 * len) : ((i - 1) \div 3) + 1 = k /\ ((i - 1) % 3) + 1 = 1
    BY <1>2, ThirdsBack
  <2>3. Redirects(S, box)[i] = Redirect(S, box, n)[1]
    BY <1>3, <2>1, <2>2
  <2>4. QED  BY <1>6, <2>3, CrossingIs, RedirectIs
<1>8. QED  BY <1>6, <1>7

LEMMA BoxPortsFinite ==
  ASSUME PortsHold, NEW S, NEW box \in Ids
  PROVE  IsFiniteSet({PutPort(<<box, k[1]>>, k[2], k[3]) : k \in Needs(S)})
         /\ {PutPort(<<box, k[1]>>, k[2], k[3]) : k \in Needs(S)} \subseteq BoxPorts(box)
<1> DEFINE put == [p \in Exposed(S) |-> PutPort(<<box, p[2]>>, ports[p].direction, ports[p].kind)]
           puts == {PutPort(<<box, k[1]>>, k[2], k[3]) : k \in Needs(S)}
<1>1. Exposed(S) \subseteq DOMAIN ports
  BY DEF Exposed
<1>2. IsFiniteSet(Exposed(S))
  BY <1>1, FinitelyMany, FS_Subset DEF PortsHold
<1>3. \A x : x \in puts <=> \E p \in Exposed(S) : x = put[p]
  <2>1. \A p \in Exposed(S) : /\ Key(p) \in Needs(S)
                             /\ PutPort(<<box, Key(p)[1]>>, Key(p)[2], Key(p)[3]) = put[p]
    BY DEF Needs, Key
  <2>2. \A k \in Needs(S) : \E p \in Exposed(S) : k = Key(p)
    BY DEF Needs
  <2> HIDE DEF put
  <2>3. QED  BY <2>1, <2>2
<1>4. put \in Surjection(Exposed(S), puts)
  BY <1>3 DEF Surjection
<1>5. IsFiniteSet(puts)
  BY <1>2, <1>4, FS_Surjection
<1>6. ASSUME NEW p \in Exposed(S) PROVE put[p] \in BoxPorts(box)
  <2>1. p \in PortIds /\ ports[p] \in Port
    BY <1>1 DEF PortsHold
  <2>2. <<box, p[2]>> \in PortIds
    BY <2>1 DEF PortIds
  <2>3. QED  BY <2>1, <2>2 DEF Port, PutPort, BoxPorts, PortWrite
<1> HIDE DEF put, puts
<1>7. puts \subseteq BoxPorts(box)
  BY <1>3, <1>6
<1>8. QED  BY <1>5, <1>7 DEF puts

LEMMA BoxPortsAre ==
  ASSUME PortsHold, NEW S, NEW box \in Ids
  PROVE  SetToSeq({PutPort(<<box, k[1]>>, k[2], k[3]) : k \in Needs(S)}) \in Seq(BoxPorts(box))
<1>1. PICK puts : puts = {PutPort(<<box, k[1]>>, k[2], k[3]) : k \in Needs(S)}
  OBVIOUS
<1>2. IsFiniteSet(puts) /\ puts \subseteq BoxPorts(box)
  BY <1>1, BoxPortsFinite
<1>3. SetToSeq(puts) \in Seq(BoxPorts(box))
  BY <1>2, SetToSeqIs
<1>4. QED  BY <1>1, <1>3

LEMMA BoxParentsAre ==
  ASSUME BlocksHold, NEW S \in SUBSET DOMAIN blocks, NEW box \in Ids
  PROVE  Enclosing(S, box) \in Seq(BoxParents(box, S))
<1> DEFINE put == [b \in S |-> PutParent(b, box)]
           puts == {PutParent(b, box) : b \in S}
<1>1. IsFiniteSet(S)
  BY FinitelyMany, FS_Subset DEF BlocksHold
<1>2. put \in Surjection(S, puts)
  BY DEF Surjection
<1>3. IsFiniteSet(puts)
  BY <1>1, <1>2, FS_Surjection
<1>4. puts \subseteq BoxParents(box, S)
  BY DEF PutParent, BoxParents, ParentWrite, BlocksHold
<1>5. [tag |-> "meta", block |-> box] \in BoxParents(box, S)
  BY DEF BoxParents, MetaWrite
<1>6. Enclosing(S, box) = <<[tag |-> "meta", block |-> box]>> \o SetToSeq(puts)
  BY DEF Enclosing
<1> HIDE DEF puts
<1>7. SetToSeq(puts) \in Seq(BoxParents(box, S))
  BY <1>3, <1>4, SetToSeqIs
<1>8. QED  BY <1>5, <1>6, <1>7

(* Where the middle of three sequences, after a first element, is found.    *)
Joins(all, first, s, t, u) == all = <<first>> \o s \o t \o u

Starts(all, first, t, W) ==
  /\ all \in Seq(W \cup {first}) /\ Head(all) = first /\ all # <<>> /\ Tail(all) \in Seq(W)
  /\ \A i \in 1..Len(t) : \E j \in 1..Len(all) : all[j] = t[i]

LEMMA Joined ==
  ASSUME NEW W, NEW first, NEW s \in Seq(W), NEW t \in Seq(W), NEW u \in Seq(W),
         NEW all, Joins(all, first, s, t, u)
  PROVE  Starts(all, first, t, W)
<1>1. all \in Seq(W \cup {first}) /\ Len(all) = 1 + Len(s) + Len(t) + Len(u)
  BY DEF Joins
<1>2. all[1] = first /\ \A i \in 2..Len(all) : all[i] \in W
  BY DEF Joins
<1>3. \A i \in 1..Len(t) : all[1 + Len(s) + i] = t[i] /\ 1 + Len(s) + i \in 1..Len(all)
  BY DEF Joins
<1>4. all \in Seq(W \cup {first}) /\ Len(all) \in Nat /\ Len(all) >= 1
  BY <1>1
<1>5. Len(Tail(all)) = Len(all) - 1 /\ Tail(all) \in Seq(W \cup {first})
      /\ \A i \in 1..(Len(all) - 1) : Tail(all)[i] = all[i + 1]
  BY <1>4
<1>6. \A i \in 1..Len(Tail(all)) : Tail(all)[i] \in W
  BY <1>2, <1>4, <1>5
<1>7. Tail(all) \in [1..Len(Tail(all)) -> W] /\ Len(Tail(all)) \in Nat
  BY <1>4, <1>5, <1>6, LenProperties
<1>8. Tail(all) \in Seq(W)
  <2>1. \A n \in Nat : \A f \in [1..n -> W] : f \in Seq(W)
    BY SeqDef
  <2>2. QED  BY <1>7, <2>1, Zenon
<1>9. Head(all) = first /\ all # <<>>
  BY <1>2, <1>4
<1>10. QED  BY <1>1, <1>3, <1>8, <1>9 DEF Starts

LEMMA CompositeWritesAre ==
  ASSUME BlocksHold, PortsHold, NetsHold, NEW S \in SUBSET DOMAIN blocks, NEW box \in Ids
  PROVE  LET todo == CompositeWrites(S, box)
         IN  /\ todo \in Seq(Write) /\ todo # <<>> /\ Head(todo) = BoxWrite(box)
             /\ Tail(todo) \in Seq(BoxWrites(box, S))
             /\ \A n \in Crossing(S) : \E i \in 1..Len(todo) : todo[i] = Unnet(n)
<1>1. PICK s \in Seq(BoxPorts(box)) : s = SetToSeq({PutPort(<<box, k[1]>>, k[2], k[3]) : k \in Needs(S)})
  BY BoxPortsAre
<1>2. PICK t \in Seq(NetErasure \cup BoxNets(box)) : t = Redirects(S, box)
  BY RedirectsAre
<1>3. PICK u \in Seq(BoxParents(box, S)) : u = Enclosing(S, box)
  BY BoxParentsAre
<1>4. CompositeWrites(S, box) = <<BoxWrite(box)>> \o s \o t \o u
  BY <1>1, <1>2, <1>3 DEF CompositeWrites, BoxWrite
<1>5. s \in Seq(BoxWrites(box, S)) /\ t \in Seq(BoxWrites(box, S)) /\ u \in Seq(BoxWrites(box, S))
  BY DEF BoxWrites
<1>6. \A n \in Crossing(S) : \E i \in 1..Len(t) : t[i] = Unnet(n)
  BY <1>2, RedirectsAre
<1>7. PICK W, first : W = BoxWrites(box, S) /\ first = BoxWrite(box)
  OBVIOUS
<1>8. s \in Seq(W) /\ t \in Seq(W) /\ u \in Seq(W)
  BY <1>5, <1>7
<1>9. PICK todo : todo = CompositeWrites(S, box)
  OBVIOUS
<1>10. Joins(todo, first, s, t, u)
  BY <1>4, <1>7, <1>9 DEF Joins
<1>11. Starts(todo, first, t, W)
  BY <1>8, <1>10, Joined
<1>12. todo \in Seq(Write)
  <2>1. W \cup {first} \subseteq Write
    BY <1>7 DEF BoxWrites, BoxPorts, BoxNets, BoxParents, BoxWrite, Write, BlockWrite, BlockKinds, MetaWrite
  <2>2. QED  BY <1>11, <2>1 DEF Starts
<1>13. QED  BY <1>6, <1>7, <1>9, <1>11, <1>12 DEF Starts
------------------------------------------------------------------------------
(* How a request goes on.                                                   *)

LEMMA HeadAndTail ==
  ASSUME NEW W, NEW s \in Seq(W), s # <<>>
  PROVE  /\ Head(s) \in W /\ Tail(s) \in Seq(W)
         /\ Len(s) \in Nat \ {0} /\ Head(s) = s[1] /\ Len(Tail(s)) = Len(s) - 1
         /\ \A i \in 2..Len(s) : Tail(s)[i - 1] = s[i]
<1>1. Len(s) \in Nat \ {0} /\ Tail(s) \in Seq(W) /\ Len(Tail(s)) = Len(s) - 1
      /\ \A i \in 1..Len(Tail(s)) : Tail(s)[i] = s[i + 1]
  BY HeadTailProperties, EmptySeq, LenProperties
<1>2. \A i \in 2..Len(s) : i - 1 \in 1..Len(Tail(s)) /\ (i - 1) + 1 = i
  BY <1>1
<1>3. QED  BY <1>1, <1>2, HeadTailProperties

(* A deletion that is not next is still to come.                            *)
LEMMA DeletionStays ==
  ASSUME NEW W, NEW s \in Seq(W), s # <<>>, NEW n, Head(s) # Unnet(n),
         \E i \in 1..Len(s) : s[i] = Unnet(n)
  PROVE  \E i \in 1..Len(Tail(s)) : Tail(s)[i] = Unnet(n)
<1>1. PICK i \in 1..Len(s) : s[i] = Unnet(n)
  OBVIOUS
<1>2. i \in 2..Len(s) /\ i - 1 \in 1..Len(Tail(s)) /\ Tail(s)[i - 1] = s[i]
  BY <1>1, HeadAndTail
<1>3. QED  BY <1>1, <1>2

LEMMA TagsTell ==
  ASSUME NEW w \in Write
  PROVE  /\ w.tag = "block" => w \in BlockWrite
         /\ w.tag = "parent" => w \in ParentWrite
         /\ w.tag = "kind" => w \in KindWrite
         /\ w.tag = "meta" => w \in MetaWrite
         /\ w.tag = "unblock" => w \in BlockErasure
         /\ w.tag = "port" => w \in PortWrite
         /\ w.tag = "portkind" => w \in PortKindWrite
         /\ w.tag = "unport" => w \in PortErasure
         /\ w.tag = "net" => w \in NetWrite
         /\ w.tag = "netkind" => w \in NetKindWrite
         /\ w.tag = "unnet" => w \in NetErasure
  BY DEF Write, BlockWrite, ParentWrite, KindWrite, MetaWrite, BlockErasure, PortWrite,
         PortKindWrite, PortErasure, NetWrite, NetKindWrite, NetErasure

(* A request that has nothing to do.                                        *)
LEMMA IdleIs ==
  /\ Idle \in RequestType /\ Idle.op = "none" /\ Idle.todo = <<>> /\ Idle.row = {}
  /\ RequestOK(Idle) /\ RequestOK(Idle)'
<1>1. /\ Idle \in RequestType /\ Idle.op = "none" /\ Idle.todo = <<>> /\ Idle.row = {}
  BY DEF Idle, RequestType
<1>2. PICK r : r = Idle
  OBVIOUS
<1>3. r \in RequestType /\ r.op = "none" /\ r.todo = <<>> /\ r.row = {}
  BY <1>1, <1>2
<1>4. RequestOK(r)
  BY <1>3 DEF RequestOK, RequestTyped, Given, RowOK, EditOK, CompositeOK
<1>5. RequestOK(r)'
  BY <1>3 DEF RequestOK, RequestTyped, Given, RowOK, EditOK, CompositeOK
<1>6. QED  BY <1>1, <1>2, <1>4, <1>5

(* A request that is overtaken keeps its type, whatever was written.        *)
LEMMA OvertakenHolds ==
  ASSUME NEW r, RequestOK(r), spent \subseteq spent'
  PROVE  RequestOK(Overtaken(r))'
<1>1. RequestTyped(r)
  BY DEF RequestOK
<1>2. PICK o : o = Overtaken(r)
  OBVIOUS
<1>3. CASE r.op = "none"
  <2>1. o = r /\ r.todo = <<>> /\ r.row = {} /\ r \in RequestType
    BY <1>1, <1>2, <1>3 DEF Overtaken, RequestTyped
  <2>2. RequestOK(r)'
    BY <1>3, <2>1 DEF RequestOK, RequestTyped, Given, RowOK, EditOK, CompositeOK
  <2>3. QED  BY <1>2, <2>1, <2>2
<1>4. CASE r.op # "none"
  <2>1. /\ o \in RequestType /\ o.op = r.op /\ o.todo = r.todo /\ o.row = r.row
        /\ o.overtaken = TRUE
    BY <1>1, <1>2, <1>4 DEF Overtaken, RequestTyped, RequestType
  <2>2. RequestTyped(o)'
    BY <1>1, <2>1 DEF RequestTyped, Given
  <2>3. RequestOK(o)'
    BY <2>1, <2>2 DEF RequestOK
  <2>4. QED  BY <1>2, <2>3
<1>5. QED  BY <1>3, <1>4

(* After a write, only the request that made it has to be looked at.        *)
LEMMA OnlyRequest ==
  ASSUME RequestsHold, NEW c \in Clients, NEW r, RequestOK(r)', spent \subseteq spent',
         request' = [d \in Clients |-> IF d = c THEN r ELSE Overtaken(request[d])]
  PROVE  RequestsHold'
<1>1. request' = [d \in Clients |-> request'[d]]
  OBVIOUS
<1>2. ASSUME NEW d \in Clients PROVE RequestOK(request[d])'
  <2>1. CASE d = c
    <3>1. request'[d] = r
      BY <2>1
    <3>2. QED  BY <3>1
  <2>2. CASE d # c
    <3>1. request'[d] = Overtaken(request[d])
      BY <2>2
    <3>2. PICK old : old = request[d]
      OBVIOUS
    <3>3. RequestOK(old)
      BY <3>2 DEF RequestsHold
    <3>4. RequestOK(Overtaken(old))'
      BY <3>3, OvertakenHolds
    <3>5. PICK o : o = Overtaken(old)
      OBVIOUS
    <3>6. RequestOK(o)'
      BY <3>4, <3>5
    <3>7. request'[d] = o
      BY <3>1, <3>2, <3>5
    <3>8. QED  BY <3>6, <3>7
  <2>3. QED  BY <2>1, <2>2
<1>3. QED  BY <1>1, <1>2 DEF RequestsHold

(* When nothing is written, nothing that was read has changed.              *)
LEMMA RequestStays ==
  ASSUME NEW r, RequestOK(r), UNCHANGED flowVars, spent \subseteq spent'
  PROVE  RequestOK(r)'
<1>1. PICK bs, new : bs = blocks /\ new = blocks'
  OBVIOUS
<1>2. new = bs
  BY <1>1 DEF flowVars
<1>3. RequestTyped(r)'
  BY DEF RequestOK, RequestTyped, Given
<1>4. RowOK(r) => RowOK(r)'
  BY DEF RowOK, RowOf, flowVars
<1>5. EditOK(r) => EditOK(r)'
  BY <1>1, <1>2 DEF EditOK, MayEdit
<1>6. BoxOK(r) => BoxOK(r)'
  BY DEF BoxOK, BoxWrites, BoxWrite, BoxPorts, BoxNets, BoxParents, flowVars
<1>7. BoundaryOK(r) => BoundaryOK(r)'
  BY DEF BoundaryOK, OnBoundary, External, Internal, Passes, Unnet, flowVars
<1>8. QED  BY <1>3, <1>4, <1>5, <1>6, <1>7 DEF RequestOK, CompositeOK

LEMMA OnlyAsked ==
  ASSUME RequestsHold, NEW c \in Clients, NEW r, RequestOK(r)',
         UNCHANGED flowVars, spent \subseteq spent',
         request' = [request EXCEPT ![c] = r]
  PROVE  RequestsHold'
<1>1. request' = [d \in Clients |-> request'[d]]
  BY DEF RequestsHold
<1>2. ASSUME NEW d \in Clients PROVE RequestOK(request[d])'
  <2>1. CASE d = c
    <3>1. request'[d] = r
      BY <2>1 DEF RequestsHold
    <3>2. QED  BY <3>1
  <2>2. CASE d # c
    <3>1. PICK old : old = request[d] /\ old = request'[d]
      BY <2>2 DEF RequestsHold
    <3>2. RequestOK(old)
      BY <3>1 DEF RequestsHold
    <3>3. RequestOK(old)'
      BY <3>2, RequestStays
    <3>4. QED  BY <3>1, <3>3
  <2>3. QED  BY <2>1, <2>2
<1>3. QED  BY <1>1, <1>2 DEF RequestsHold

LEMMA IdleHolds ==
  ASSUME RequestsHold, NEW c \in Clients, UNCHANGED flowVars, spent \subseteq spent',
         request' = [request EXCEPT ![c] = Idle]
  PROVE  RequestsHold'
<1>1. PICK r : r = Idle
  OBVIOUS
<1>2. RequestOK(r)'
  BY <1>1, IdleIs
<1>3. QED  BY <1>1, <1>2, OnlyAsked

LEMMA EditHolds ==
  ASSUME RequestsHold, NEW c \in Clients, NEW w \in Write, MayEdit(w)',
         w.tag = "block" => w.block \in spent',
         UNCHANGED flowVars, spent \subseteq spent',
         request' = [request EXCEPT ![c] = [Idle EXCEPT !.op = "edit", !.todo = <<w>>]]
  PROVE  RequestsHold'
<1>1. PICK r : r = [Idle EXCEPT !.op = "edit", !.todo = <<w>>]
  OBVIOUS
<1>2. r \in RequestType /\ r.op = "edit" /\ r.todo = <<w>> /\ r.row = {}
  <2>1. r = [op |-> "edit", todo |-> <<w>>, row |-> {}, overtaken |-> FALSE, of |-> None,
             children |-> {}, joined |-> {}, missing |-> {}]
    BY <1>1 DEF Idle
  <2>2. <<w>> \in Seq(Write)
    OBVIOUS
  <2>3. QED  BY <2>1, <2>2 DEF RequestType
<1>3. Len(r.todo) = 1 /\ Head(r.todo) = w /\ \A i \in 1..Len(r.todo) : r.todo[i] = w
  BY <1>2
<1>4. RequestTyped(r)'
  BY <1>2, <1>3 DEF RequestTyped, Given
<1>5. RequestOK(r)'
  BY <1>2, <1>3, <1>4 DEF RequestOK, RowOK, EditOK, CompositeOK
<1>6. QED  BY <1>1, <1>5, OnlyAsked

(* A write of an edit ends it, one of a composite leaves the rest.          *)
LEMMA RestIs ==
  ASSUME NEW r, RequestTyped(r), r.todo # <<>>
  PROVE  /\ r.op = "edit" => Rest(r) = Idle
         /\ r.op = "composite" =>
              LET rest == Rest(r)
              IN  /\ rest \in RequestType /\ rest.op = "composite" /\ rest.of = r.of
                  /\ rest.children = r.children /\ rest.todo = Tail(r.todo) /\ rest.row = {}
                  /\ rest.overtaken = r.overtaken /\ rest.joined = r.joined
                  /\ RequestTyped(rest)
         /\ r.op \in {"edit", "composite"}
         /\ Head(r.todo) \in Write
         /\ Head(r.todo).tag = "block" => Head(r.todo).block \in spent
<1>1. r \in RequestType /\ r.todo \in Seq(Write)
  BY DEF RequestTyped, RequestType
<1>2. r.op \in {"edit", "composite"}
  BY <1>1 DEF RequestTyped, RequestType
<1>3. /\ Head(r.todo) \in Write /\ Tail(r.todo) \in Seq(Write)
      /\ Len(r.todo) \in Nat \ {0} /\ Head(r.todo) = r.todo[1]
      /\ Len(Tail(r.todo)) = Len(r.todo) - 1
      /\ \A i \in 2..Len(r.todo) : Tail(r.todo)[i - 1] = r.todo[i]
  BY <1>1, HeadAndTail
<1>4. r.op = "edit" => Rest(r) = Idle
  BY DEF RequestTyped, Rest
<1>5. ASSUME r.op = "composite"
      PROVE  LET rest == Rest(r)
             IN  /\ rest \in RequestType /\ rest.op = "composite" /\ rest.of = r.of
                 /\ rest.children = r.children /\ rest.todo = Tail(r.todo) /\ rest.row = {}
                 /\ rest.overtaken = r.overtaken /\ rest.joined = r.joined
                 /\ RequestTyped(rest)
  <2>1. PICK rest : rest = Rest(r)
    OBVIOUS
  <2>2. rest = [r EXCEPT !.todo = Tail(r.todo), !.row = {}]
    BY <1>5, <2>1 DEF Rest
  <2>3. /\ rest \in RequestType /\ rest.op = "composite" /\ rest.of = r.of
        /\ rest.children = r.children /\ rest.todo = Tail(r.todo) /\ rest.row = {}
        /\ rest.overtaken = r.overtaken /\ rest.joined = r.joined
    BY <1>1, <1>3, <1>5, <2>2 DEF RequestType
  <2>4. Given(rest)
    <3>1. ASSUME NEW i \in 1..Len(rest.todo), rest.todo[i].tag = "block"
          PROVE  rest.todo[i].block \in spent
      <4>1. PICK j \in 2..Len(r.todo) : j = i + 1 /\ j - 1 = i
        BY <1>3, <2>3, <3>1
      <4>2. Tail(r.todo)[j - 1] = r.todo[j]
        BY <1>3
      <4>3. rest.todo[i] = r.todo[j] /\ j \in 1..Len(r.todo)
        BY <1>3, <2>3, <4>1, <4>2
      <4>4. QED  BY <3>1, <4>3 DEF RequestTyped, Given
    <3>2. QED  BY <3>1 DEF Given
  <2>5. RequestTyped(rest)
    BY <2>3, <2>4 DEF RequestTyped
  <2>6. QED  BY <2>1, <2>3, <2>5
<1>6. Head(r.todo).tag = "block" => Head(r.todo).block \in spent
  BY <1>3 DEF RequestTyped, Given
<1>7. QED  BY <1>2, <1>3, <1>4, <1>5, <1>6

(* A request goes on: it has written, or it has passed a net over.          *)
Proceeds(c) ==
  Written(c) \/ (UNCHANGED flowVars /\ request' = [request EXCEPT ![c] = Rest(request[c])])

LEMMA Proceeding ==
  ASSUME RequestsHold, NEW c \in Clients, request[c].todo # <<>>, Proceeds(c), spent' = spent,
         NEW r, r = request[c],
         r.op = "composite" /\ ~ r.overtaken => CompositeOK(Rest(r))'
  PROVE  RequestsHold'
<1>1. RequestTyped(r) /\ r.todo # <<>>
  BY DEF RequestsHold, RequestOK
<1>2. PICK rest : rest = Rest(r)
  OBVIOUS
<1>3. RequestOK(rest)'
  <2>1. CASE r.op = "edit"
    BY <1>1, <1>2, <2>1, RestIs, IdleIs
  <2>2. CASE r.op = "composite"
    <3>1. rest.op = "composite" /\ rest.row = {} /\ rest.overtaken = r.overtaken
          /\ RequestTyped(rest)
      BY <1>1, <1>2, <2>2, RestIs
    <3>2. RequestTyped(rest)'
      BY <3>1 DEF RequestTyped, Given
    <3>3. ~ r.overtaken => CompositeOK(rest)'
      BY <1>2, <2>2
    <3>4. QED  BY <3>1, <3>2, <3>3 DEF RequestOK, RowOK, EditOK
  <2>3. QED  BY <1>1, <2>1, <2>2, RestIs
<1>4. CASE Written(c)
  <2>1. request' = [d \in Clients |-> IF d = c THEN rest ELSE Overtaken(request[d])]
    BY <1>2, <1>4 DEF Written
  <2>2. QED  BY <1>3, <2>1, OnlyRequest
<1>5. CASE UNCHANGED flowVars /\ request' = [request EXCEPT ![c] = Rest(request[c])]
  <2>1. request' = [request EXCEPT ![c] = rest]
    BY <1>2, <1>5
  <2>2. QED  BY <1>3, <1>5, <2>1, OnlyAsked
<1>6. QED  BY <1>4, <1>5 DEF Proceeds

(* The next write of a request is a write there is; that of a composite     *)
(* that was not overtaken is the box, or belongs to it.                     *)
LEMMA NextIs ==
  ASSUME RequestsHold, NEW c \in Clients, request[c].todo # <<>>
  PROVE  /\ NextWrite(c) \in Write
         /\ NextWrite(c).tag = "block" => NextWrite(c).block \in spent
         /\ request[c].op = "composite" /\ ~ request[c].overtaken =>
              IF request[c].of \in DOMAIN blocks
              THEN NextWrite(c) \in BoxWrites(request[c].of, request[c].children)
              ELSE NextWrite(c) = BoxWrite(request[c].of)
<1>1. PICK r : r = request[c]
  OBVIOUS
<1>2. RequestTyped(r) /\ r.todo # <<>> /\ (~ r.overtaken => CompositeOK(r))
  BY <1>1 DEF RequestsHold, RequestOK
<1>3. Head(r.todo) \in Write /\ (Head(r.todo).tag = "block" => Head(r.todo).block \in spent)
  BY <1>2, RestIs
<1>4. ASSUME r.op = "composite", ~ r.overtaken, r.of \in DOMAIN blocks
      PROVE  Head(r.todo) \in BoxWrites(r.of, r.children)
  <2>1. r.todo \in Seq(BoxWrites(r.of, r.children))
    BY <1>2, <1>4 DEF CompositeOK, BoxOK
  <2>2. QED  BY <1>2, <2>1, HeadAndTail
<1>5. ASSUME r.op = "composite", ~ r.overtaken, r.of \notin DOMAIN blocks
      PROVE  Head(r.todo) = BoxWrite(r.of)
  BY <1>2, <1>5 DEF CompositeOK, BoxOK
<1>6. QED  BY <1>1, <1>3, <1>4, <1>5 DEF NextWrite

(* A composite goes on if its box is there, a root, and each crossing net   *)
(* was there before or passes by the box.                                   *)
LEMMA BoxContinues ==
  ASSUME NEW r, RequestTyped(r), r.todo # <<>>, r.op = "composite", CompositeOK(r),
         spent' = spent, DOMAIN blocks \subseteq DOMAIN blocks',
         r.of \in DOMAIN blocks', blocks'[r.of].parent = None,
         \A n \in DOMAIN nets' :
           \/ Passes(r, n)
           \/ /\ n \in DOMAIN nets /\ Head(r.todo) # Unnet(n)
              /\ ports'[n[1]] = ports[n[1]] /\ ports'[n[2]] = ports[n[2]]
  PROVE  CompositeOK(Rest(r))'
<1>1. PICK rest : rest = Rest(r)
  OBVIOUS
<1>2. BoxOK(r) /\ BoundaryOK(r) /\ r.todo \in Seq(Write)
  BY DEF CompositeOK, RequestTyped, RequestType
<1>3. /\ rest.op = "composite" /\ rest.of = r.of
      /\ rest.children = r.children /\ rest.todo = Tail(r.todo)
  BY <1>1, RestIs
<1>4. Tail(r.todo) \in Seq(BoxWrites(r.of, r.children))
  BY <1>2, HeadAndTail DEF BoxOK
<1>5. BoxOK(rest)'
  BY <1>2, <1>3, <1>4 DEF BoxOK, BoxWrites, BoxPorts, BoxNets, BoxParents
<1>6. ASSUME NEW n \in DOMAIN nets', OnBoundary(rest, n)', ~ Passes(rest, n)
      PROVE  \E i \in 1..Len(rest.todo) : rest.todo[i] = Unnet(n)
  <2>1. ~ Passes(r, n)
    BY <1>3, <1>6 DEF Passes
  <2>2. /\ n \in DOMAIN nets /\ Head(r.todo) # Unnet(n)
        /\ ports'[n[1]] = ports[n[1]] /\ ports'[n[2]] = ports[n[2]]
    BY <2>1
  <2>3. OnBoundary(r, n)
    BY <1>3, <1>6, <2>2 DEF OnBoundary, External, Internal
  <2>4. \E i \in 1..Len(r.todo) : r.todo[i] = Unnet(n)
    BY <1>2, <2>1, <2>2, <2>3 DEF BoundaryOK
  <2>5. QED  BY <1>2, <1>3, <2>2, <2>4, DeletionStays
<1>7. BoundaryOK(rest)'
  BY <1>6 DEF BoundaryOK, Passes, Unnet
<1>8. CompositeOK(rest)'
  BY <1>5, <1>7 DEF CompositeOK
<1>9. QED  BY <1>1, <1>8

(* What a composite writes when its box is there.                           *)
LEMMA BoxIsThere ==
  ASSUME RequestsHold, NEW c \in Clients, request[c].todo # <<>>,
         request[c].op = "composite", ~ request[c].overtaken, NextWrite(c).tag # "block"
  PROVE  /\ NextWrite(c) \in BoxWrites(request[c].of, request[c].children)
         /\ NextWrite(c).tag \in {"port", "net", "unnet", "parent", "meta"}
         /\ request[c].of \in DOMAIN blocks /\ blocks[request[c].of].parent = None
         /\ request[c].of \in Spare /\ request[c].of \notin request[c].children
         /\ NextWrite(c).tag = "parent" =>
              NextWrite(c).block \in request[c].children /\ NextWrite(c).parent = request[c].of
         /\ NextWrite(c).tag = "meta" => NextWrite(c).block = request[c].of
<1>1. BoxOK(request[c])
  BY DEF RequestsHold, RequestOK, CompositeOK
<1>2. request[c].of \in DOMAIN blocks
  BY NextIs DEF BoxWrite
<1>3. NextWrite(c) \in BoxWrites(request[c].of, request[c].children)
  BY <1>2, NextIs
<1>4. /\ NextWrite(c).tag \in {"port", "net", "unnet", "parent", "meta"}
      /\ NextWrite(c).tag = "parent" =>
           NextWrite(c).block \in request[c].children /\ NextWrite(c).parent = request[c].of
      /\ NextWrite(c).tag = "meta" => NextWrite(c).block = request[c].of
  BY <1>3 DEF BoxWrites, BoxPorts, BoxNets, BoxParents, PortWrite, NetWrite, NetErasure,
              ParentWrite, MetaWrite
<1>5. QED  BY <1>1, <1>2, <1>3, <1>4 DEF BoxOK

(* The writes only edits have.                                              *)
LEMMA EditEnds ==
  ASSUME RequestsHold, NEW c \in Clients, request[c].todo # <<>>, Written(c), spent' = spent,
         NextWrite(c).tag \notin {"block", "port", "net", "unnet", "parent", "meta"}
  PROVE  RequestsHold'
<1>1. PICK r : r = request[c]
  OBVIOUS
<1>2. ~ (r.op = "composite" /\ ~ r.overtaken)
  BY <1>1, BoxIsThere
<1>3. QED  BY <1>1, <1>2, Proceeding DEF Proceeds

(* The others.                                                              *)
LEMMA WriteGoesOn ==
  ASSUME RequestsHold, NEW c \in Clients, request[c].todo # <<>>, Proceeds(c), spent' = spent,
         request[c].op = "composite" /\ ~ request[c].overtaken =>
           /\ DOMAIN blocks \subseteq DOMAIN blocks' /\ request[c].of \in DOMAIN blocks'
           /\ blocks'[request[c].of].parent = None
           /\ \A n \in DOMAIN nets' :
                \/ Passes(request[c], n)
                \/ /\ n \in DOMAIN nets /\ NextWrite(c) # Unnet(n)
                   /\ ports'[n[1]] = ports[n[1]] /\ ports'[n[2]] = ports[n[2]]
  PROVE  RequestsHold'
<1>1. PICK r : r = request[c]
  OBVIOUS
<1>2. ASSUME r.op = "composite", ~ r.overtaken PROVE CompositeOK(Rest(r))'
  <2>1. RequestTyped(r) /\ CompositeOK(r) /\ r.todo # <<>>
    BY <1>1, <1>2 DEF RequestsHold, RequestOK
  <2>2. /\ DOMAIN blocks \subseteq DOMAIN blocks' /\ r.of \in DOMAIN blocks'
        /\ blocks'[r.of].parent = None
        /\ \A n \in DOMAIN nets' :
             \/ Passes(r, n)
             \/ /\ n \in DOMAIN nets /\ Head(r.todo) # Unnet(n)
                /\ ports'[n[1]] = ports[n[1]] /\ ports'[n[2]] = ports[n[2]]
    BY <1>1, <1>2 DEF NextWrite
  <2>3. QED  BY <1>2, <2>1, <2>2, BoxContinues
<1>3. QED  BY <1>1, <1>2, Proceeding
------------------------------------------------------------------------------
(* The writes of blocks.                                                    *)

LEMMA WriteBlockStep ==
  ASSUME FlowInv, NEW c \in Clients, WriteBlock(c)
  PROVE  FlowInv'
<1>1. PICK w : w = NextWrite(c)
  OBVIOUS
<1>2. /\ request[c].todo # <<>> /\ w.tag = "block" /\ MayHold(w.parent) /\ Written(c)
      /\ UNCHANGED <<ports, nets, spent, allowed, raced>> /\ w.block \notin DOMAIN blocks
      /\ blocks' = [b \in DOMAIN blocks \cup {w.block} |->
                      IF b = w.block THEN [kind |-> w.kind, parent |-> w.parent] ELSE blocks[b]]
  BY <1>1 DEF WriteBlock, Under
<1>3. RequestsHold /\ BlocksHold /\ PortsHold /\ NetsHold /\ CountsHold
      /\ (~ raced => Forest(blocks))
  BY DEF FlowInv, TypesHold
<1>4. w \in BlockWrite /\ w.block \in spent
  BY <1>1, <1>2, <1>3, NextIs, TagsTell
<1>5. request[c].op = "composite" /\ ~ request[c].overtaken => w = BoxWrite(request[c].of)
  <2>1. SUFFICES ASSUME request[c].op = "composite", ~ request[c].overtaken
                 PROVE  w = BoxWrite(request[c].of)
    OBVIOUS
  <2>2. w \notin BoxWrites(request[c].of, request[c].children)
    BY <1>2 DEF BoxWrites, BoxPorts, BoxNets, BoxParents, PortWrite, NetWrite, ParentWrite,
                NetErasure, MetaWrite
  <2>3. QED  BY <1>1, <1>2, <1>3, <2>1, <2>2, NextIs
<1>6. w.parent \in DOMAIN blocks \cup {None} /\ w.block # None
  BY <1>2, <1>4, FlowAssumption DEF MayHold, IsComposite, BlockWrite, Ids
<1>7. TypesHold'
  <2>1. [kind |-> w.kind, parent |-> w.parent] \in Block
    BY <1>4 DEF BlockWrite, Block
  <2>2. BlocksHold'
    BY <1>2, <1>3, <1>4, <1>6, <2>1 DEF BlocksHold, BlockWrite
  <2>3. PortsHold' /\ NetsHold' /\ CountsHold'
    BY <1>2, <1>3 DEF PortsHold, NetsHold, CountsHold
  <2>4. QED  BY <2>2, <2>3 DEF TypesHold
<1>8. ASSUME ~ raced' PROVE Forest(blocks)'
  <2>1. PICK bs, new : bs = blocks /\ new = blocks'
    OBVIOUS
  <2>2. /\ DOMAIN new = DOMAIN bs \cup {w.block} /\ new[w.block].parent # w.block
        /\ \A b \in DOMAIN bs : new[b].parent = bs[b].parent /\ bs[b].parent # w.block
    BY <1>2, <1>3, <1>6, <2>1 DEF BlocksHold
  <2>3. Forest(bs) /\ w.block \notin DOMAIN bs
    BY <1>2, <1>3, <1>8, <2>1
  <2>4. Forest(new)
    BY <2>2, <2>3, AddingKeepsForest
  <2>5. QED  BY <2>1, <2>4
<1>9. RequestsHold'
  <2>1. ASSUME request[c].op = "composite", ~ request[c].overtaken
        PROVE  /\ DOMAIN blocks \subseteq DOMAIN blocks' /\ request[c].of \in DOMAIN blocks'
               /\ blocks'[request[c].of].parent = None
    <3>1. request[c].of = w.block /\ w.parent = None
      BY <1>5, <2>1 DEF BoxWrite
    <3>2. QED  BY <1>2, <3>1
  <2>2. \A n \in DOMAIN nets' : n \in DOMAIN nets /\ w # Unnet(n)
          /\ ports'[n[1]] = ports[n[1]] /\ ports'[n[2]] = ports[n[2]]
    BY <1>2 DEF Unnet
  <2>3. QED  BY <1>1, <1>2, <1>3, <2>1, <2>2, WriteGoesOn DEF Proceeds
<1>10. QED  BY <1>7, <1>8, <1>9 DEF FlowInv

LEMMA TypesStay ==
  ASSUME TypesHold, ~ raced => Forest(blocks), UNCHANGED flowVars, raced' = raced,
         spent \subseteq spent', CountsHold'
  PROVE  TypesHold' /\ (~ raced' => Forest(blocks)')
<1>1. BlocksHold' /\ PortsHold' /\ NetsHold'
  BY DEF TypesHold, BlocksHold, PortsHold, NetsHold, flowVars
<1>2. PICK bs, new : bs = blocks /\ new = blocks'
  OBVIOUS
<1>3. (~ raced => Forest(bs)) /\ new = bs
  BY <1>2 DEF flowVars
<1>4. QED  BY <1>1, <1>2, <1>3 DEF TypesHold

(* The row that is read is one a block can have.                            *)
LEMMA RowIs ==
  ASSUME BlocksHold, NEW w \in Write, w.tag \in {"parent", "kind", "meta", "unblock"},
         w.block \in DOMAIN blocks
  PROVE  /\ RowOf(w) \in Block
         /\ w.tag = "parent" => RowOf(w).parent = w.parent /\ RowOf(w).kind = blocks[w.block].kind
         /\ w.tag \in {"kind", "meta", "unblock"} => RowOf(w).parent = blocks[w.block].parent
         /\ w.tag \in {"meta", "unblock"} => RowOf(w) = blocks[w.block]
<1>1. blocks[w.block] \in Block
  BY DEF BlocksHold
<1>2. CASE w.tag = "parent"
  <2>1. w \in ParentWrite /\ RowOf(w) = [blocks[w.block] EXCEPT !.parent = w.parent]
    BY <1>2, TagsTell DEF RowOf
  <2>2. QED  BY <1>1, <1>2, <2>1 DEF ParentWrite, Block
<1>3. CASE w.tag = "kind"
  <2>1. w \in KindWrite /\ RowOf(w) = [blocks[w.block] EXCEPT !.kind = w.kind]
    BY <1>3, TagsTell DEF RowOf
  <2>2. QED  BY <1>1, <1>3, <2>1 DEF KindWrite, Block
<1>4. CASE w.tag \in {"meta", "unblock"}
  <2>1. RowOf(w) = blocks[w.block]
    BY <1>4 DEF RowOf
  <2>2. QED  BY <1>1, <1>4, <2>1
<1>5. QED  BY <1>2, <1>3, <1>4

LEMMA ReadRowStep ==
  ASSUME FlowInv, NEW c \in Clients, ReadRow(c)
  PROVE  FlowInv'
<1>1. PICK old, w : old = request[c] /\ w = NextWrite(c)
  OBVIOUS
<1>2. PICK r : r = [old EXCEPT !.row = {RowOf(w)}]
  OBVIOUS
<1>3. /\ old.todo # <<>> /\ w.tag \in {"parent", "kind", "meta", "unblock"}
      /\ w.block \in DOMAIN blocks /\ UNCHANGED <<flowVars, spent, allowed, raced>>
      /\ request' = [request EXCEPT ![c].row = {RowOf(w)}]
  BY <1>1 DEF ReadRow, Under
<1>4. TypesHold /\ BlocksHold /\ CountsHold /\ RequestsHold /\ (~ raced => Forest(blocks))
  BY DEF FlowInv, TypesHold
<1>5. RequestOK(old) /\ request' = [request EXCEPT ![c] = r]
  BY <1>1, <1>2, <1>3, <1>4 DEF RequestsHold
<1>6. w \in Write /\ w = Head(old.todo)
  BY <1>1, <1>3, <1>4, NextIs DEF NextWrite
<1>7. RowOf(w) \in Block
  BY <1>3, <1>4, <1>6, RowIs
<1>8. /\ r \in RequestType /\ r.op = old.op /\ r.todo = old.todo /\ r.row = {RowOf(w)}
      /\ r.overtaken = old.overtaken /\ r.of = old.of /\ r.children = old.children
  BY <1>2, <1>5, <1>7 DEF RequestOK, RequestTyped, RequestType
<1>9. RequestTyped(r)
  BY <1>3, <1>5, <1>8 DEF RequestOK, RequestTyped, Given
<1>10. RowOK(r)
  BY <1>6, <1>8 DEF RowOK
<1>11. ~ r.overtaken => EditOK(r) /\ CompositeOK(r)
  BY <1>5, <1>8 DEF RequestOK, EditOK, CompositeOK, BoxOK, BoundaryOK, OnBoundary, Passes
<1>12. RequestOK(r)
  BY <1>9, <1>10, <1>11 DEF RequestOK
<1>13. RequestOK(r)'
  BY <1>3, <1>12, RequestStays
<1>14. RequestsHold'
  BY <1>3, <1>4, <1>5, <1>13, OnlyAsked
<1>15. CountsHold'
  BY <1>3, <1>4 DEF CountsHold
<1>16. TypesHold' /\ (~ raced' => Forest(blocks)')
  BY <1>3, <1>4, <1>15, TypesStay
<1>17. QED  BY <1>14, <1>16 DEF FlowInv

LEMMA WriteRowStep ==
  ASSUME FlowInv, NEW c \in Clients, WriteRow(c)
  PROVE  FlowInv'
<1>1. PICK w : w = NextWrite(c)
  OBVIOUS
<1>2. PICK row \in request[c].row :
        /\ row.parent \in DOMAIN blocks \cup {None} /\ blocks' = [blocks EXCEPT ![w.block] = row]
  BY <1>1 DEF WriteRow
<1>3. /\ request[c].todo # <<>> /\ w.tag \in {"parent", "kind", "meta"} /\ Written(c)
      /\ UNCHANGED <<ports, nets, spent, allowed>> /\ w.block \in DOMAIN blocks
      /\ raced' = (raced \/ request[c].overtaken)
  BY <1>1 DEF WriteRow, Under, Races
<1>4. RequestsHold /\ BlocksHold /\ PortsHold /\ NetsHold /\ CountsHold
      /\ (~ raced => Forest(blocks))
  BY DEF FlowInv, TypesHold
<1>5. w \in Write /\ row \in Block
  <2>1. request[c].row \subseteq Block
    BY <1>4 DEF RequestsHold, RequestOK, RequestTyped, RequestType
  <2>2. QED  BY <1>1, <1>2, <1>3, <1>4, <2>1, NextIs
<1>6. /\ DOMAIN blocks' = DOMAIN blocks /\ blocks'[w.block] = row
      /\ \A b \in DOMAIN blocks \ {w.block} : blocks'[b] = blocks[b]
  BY <1>2, <1>3
<1>7. ~ request[c].overtaken => row = RowOf(w)
  BY <1>1, <1>2, <1>4 DEF RequestsHold, RequestOK, RowOK, NextWrite
<1>8. TypesHold'
  <2>1. BlocksHold'
    BY <1>2, <1>3, <1>4, <1>5, <1>6 DEF BlocksHold
  <2>2. PortsHold' /\ NetsHold' /\ CountsHold'
    BY <1>3, <1>4, <1>6 DEF PortsHold, NetsHold, CountsHold
  <2>3. QED  BY <2>1, <2>2 DEF TypesHold
<1>9. ASSUME ~ raced' PROVE Forest(blocks)'
  <2>1. ~ raced /\ ~ request[c].overtaken /\ Forest(blocks)
    BY <1>3, <1>4, <1>9
  <2>2. PICK bs, new : bs = blocks /\ new = blocks'
    OBVIOUS
  <2>3. CASE w.tag = "parent"
    <3>1. w.parent \notin Beneath(blocks, w.block)
      <4>1. CASE request[c].op = "composite"
        <5>1. PICK box \in DOMAIN blocks : box = request[c].of
          BY <1>1, <1>3, <1>4, <2>1, <2>3, <4>1, BoxIsThere
        <5>2. /\ blocks[box].parent = None /\ box \notin request[c].children
              /\ w.parent = box /\ w.block \in request[c].children
          BY <1>1, <1>3, <1>4, <2>1, <2>3, <4>1, <5>1, BoxIsThere
        <5>3. None \notin DOMAIN blocks
          BY <1>4, FlowAssumption DEF BlocksHold, Ids
        <5>4. QED  BY <1>3, <5>2, <5>3, RootsAreNotBeneath
      <4>2. CASE request[c].op # "composite"
        <5>1. request[c].op = "edit"
          BY <1>3, <1>4, <4>2 DEF RequestsHold, RequestOK, RequestTyped, RequestType
        <5>2. QED  BY <1>1, <1>4, <2>1, <2>3, <5>1
                   DEF RequestsHold, RequestOK, EditOK, MayEdit, NextWrite
      <4>3. QED  BY <4>1, <4>2
    <3>2. row.parent = w.parent
      BY <1>3, <1>4, <1>5, <1>7, <2>1, <2>3, RowIs
    <3>3. /\ DOMAIN new = DOMAIN bs /\ new[w.block].parent \notin Beneath(bs, w.block)
          /\ \A b \in DOMAIN bs \ {w.block} : new[b].parent = bs[b].parent
          /\ w.block \in DOMAIN bs /\ Forest(bs)
      BY <1>3, <1>6, <2>1, <2>2, <3>1, <3>2
    <3>4. Forest(new)
      BY <3>3, MovingKeepsForest
    <3>5. QED  BY <2>2, <3>4
  <2>4. CASE w.tag # "parent"
    <3>1. row.parent = blocks[w.block].parent
      BY <1>3, <1>4, <1>5, <1>7, <2>1, <2>4, RowIs
    <3>2. DOMAIN new = DOMAIN bs /\ \A b \in DOMAIN bs : new[b].parent = bs[b].parent
      BY <1>6, <2>2, <3>1
    <3>3. \A b : Beneath(new, b) = Beneath(bs, b)
      BY <3>2 DEF Beneath, Kids
    <3>4. Forest(bs)
      BY <2>1, <2>2
    <3>5. Forest(new)
      BY <3>2, <3>3, <3>4 DEF Forest
    <3>6. QED  BY <2>2, <3>5
  <2>5. QED  BY <2>3, <2>4
<1>10. RequestsHold'
  <2>1. ASSUME request[c].op = "composite", ~ request[c].overtaken
        PROVE  /\ DOMAIN blocks \subseteq DOMAIN blocks' /\ request[c].of \in DOMAIN blocks'
               /\ blocks'[request[c].of].parent = None
    <3>1. /\ request[c].of \in DOMAIN blocks /\ blocks[request[c].of].parent = None
          /\ request[c].of \notin request[c].children
          /\ w.tag \in {"parent", "meta"}
          /\ w.tag = "parent" => w.block \in request[c].children
          /\ w.tag = "meta" => w.block = request[c].of
      BY <1>1, <1>3, <1>4, <2>1, BoxIsThere
    <3>2. w.tag = "meta" => row.parent = blocks[w.block].parent
      BY <1>3, <1>4, <1>5, <1>7, <2>1, RowIs
    <3>3. QED  BY <1>6, <3>1, <3>2
  <2>2. \A n \in DOMAIN nets' : n \in DOMAIN nets /\ w # Unnet(n)
          /\ ports'[n[1]] = ports[n[1]] /\ ports'[n[2]] = ports[n[2]]
    BY <1>3 DEF Unnet
  <2>3. QED  BY <1>1, <1>3, <1>4, <2>1, <2>2, WriteGoesOn DEF Proceeds
<1>11. QED  BY <1>8, <1>9, <1>10 DEF FlowInv

LEMMA EraseBlockStep ==
  ASSUME FlowInv, NEW c \in Clients, EraseBlock(c)
  PROVE  FlowInv'
<1>1. PICK w : w = NextWrite(c)
  OBVIOUS
<1>2. PICK gone : gone = w.block
  OBVIOUS
<1>3. PICK row \in request[c].row :
        /\ ChildrenOf({gone}) # {} => row.parent \in (DOMAIN blocks \ {gone}) \cup {None}
        /\ blocks' = [b \in DOMAIN blocks \ {gone} |->
                        IF b \in ChildrenOf({gone})
                        THEN [blocks[b] EXCEPT !.parent = row.parent] ELSE blocks[b]]
  BY <1>1, <1>2 DEF EraseBlock
<1>4. /\ request[c].todo # <<>> /\ w.tag = "unblock" /\ Written(c) /\ UNCHANGED <<spent, allowed>>
      /\ gone \in DOMAIN blocks /\ KeepPorts({p \in DOMAIN ports : p[1] # gone})
      /\ raced' = (raced \/ request[c].overtaken)
  BY <1>1, <1>2 DEF EraseBlock, Under, Races
<1>5. RequestsHold /\ BlocksHold /\ PortsHold /\ NetsHold /\ CountsHold
      /\ (~ raced => Forest(blocks))
  BY DEF FlowInv, TypesHold
<1>6. RequestsHold'
  BY <1>1, <1>4, <1>5, EditEnds
<1>7. /\ DOMAIN blocks' = DOMAIN blocks \ {gone}
      /\ \A b \in DOMAIN blocks' :
           /\ blocks'[b] \in Block
           /\ blocks'[b].parent = IF blocks[b].parent = gone THEN row.parent ELSE blocks[b].parent
           /\ blocks[b].parent = gone => row.parent \in (DOMAIN blocks \ {gone}) \cup {None}
  <2>1. DOMAIN blocks' = DOMAIN blocks \ {gone}
    BY <1>3
  <2>2. ASSUME NEW b \in DOMAIN blocks \ {gone}
        PROVE  /\ blocks'[b] \in Block
               /\ blocks'[b].parent = IF blocks[b].parent = gone THEN row.parent ELSE blocks[b].parent
               /\ blocks[b].parent = gone => row.parent \in (DOMAIN blocks \ {gone}) \cup {None}
    <3>1. blocks[b] \in Block /\ DOMAIN blocks \subseteq Ids
      BY <1>5 DEF BlocksHold
    <3>2. b \in ChildrenOf({gone}) <=> blocks[b].parent = gone
      BY DEF ChildrenOf
    <3>3. CASE blocks[b].parent = gone
      <4>1. row.parent \in (DOMAIN blocks \ {gone}) \cup {None}
        BY <1>3, <3>2, <3>3
      <4>2. blocks'[b] = [blocks[b] EXCEPT !.parent = row.parent]
        BY <1>3, <3>2, <3>3
      <4>3. QED  BY <3>1, <3>3, <4>1, <4>2 DEF Block
    <3>4. CASE blocks[b].parent # gone
      <4>1. blocks'[b] = blocks[b]
        BY <1>3, <3>2, <3>4
      <4>2. QED  BY <3>1, <3>4, <4>1
    <3>5. QED  BY <3>3, <3>4
  <2>3. QED  BY <2>1, <2>2
<1>8. TypesHold'
  <2>1. BlocksHold'
    <3>1. blocks' = [b \in DOMAIN blocks' |-> blocks'[b]]
      BY <1>3
    <3>2. \A b \in DOMAIN blocks' : blocks'[b].parent \in DOMAIN blocks' \cup {None}
      BY <1>5, <1>7 DEF BlocksHold
    <3>3. QED  BY <1>4, <1>5, <1>7, <3>1, <3>2 DEF BlocksHold
  <2>2. PortsHold' /\ NetsHold' /\ CountsHold'
    BY <1>4, <1>5, <1>7 DEF PortsHold, NetsHold, CountsHold, KeepPorts
  <2>3. QED  BY <2>1, <2>2 DEF TypesHold
<1>9. ASSUME ~ raced' PROVE Forest(blocks)'
  <2>1. ~ raced /\ ~ request[c].overtaken /\ Forest(blocks)
    BY <1>4, <1>5, <1>9
  <2>2. row = RowOf(w)
    BY <1>1, <1>3, <1>5, <2>1 DEF RequestsHold, RequestOK, RowOK, NextWrite
  <2>3. row.parent = blocks[gone].parent
    BY <1>1, <1>2, <1>4, <1>5, <2>2, NextIs, RowIs
  <2>4. PICK bs, new : bs = blocks /\ new = blocks'
    OBVIOUS
  <2>5. /\ gone \in DOMAIN bs /\ DOMAIN new = DOMAIN bs \ {gone} /\ Forest(bs)
        /\ \A b \in DOMAIN new :
             new[b].parent = IF bs[b].parent = gone THEN bs[gone].parent ELSE bs[b].parent
    BY <1>4, <1>7, <2>1, <2>3, <2>4
  <2>6. Forest(new)
    BY <2>5, ErasingKeepsForest
  <2>7. QED  BY <2>4, <2>6
<1>10. QED  BY <1>6, <1>8, <1>9 DEF FlowInv
------------------------------------------------------------------------------
(* The writes of ports and nets leave the blocks alone.                     *)

LEMMA BlocksStay ==
  ASSUME BlocksHold, ~ raced => Forest(blocks), CountsHold,
         UNCHANGED <<blocks, spent, allowed, raced>>
  PROVE  BlocksHold' /\ (~ raced' => Forest(blocks)') /\ CountsHold'
<1>1. BlocksHold' /\ CountsHold'
  BY DEF BlocksHold, CountsHold
<1>2. PICK bs, new : bs = blocks /\ new = blocks'
  OBVIOUS
<1>3. (~ raced => Forest(bs)) /\ new = bs
  BY <1>2
<1>4. QED  BY <1>1, <1>2, <1>3

(* With its nets, a port may go.                                            *)
LEMMA KeepingPorts ==
  ASSUME PortsHold, NetsHold, NEW keep \in SUBSET DOMAIN ports, KeepPorts(keep),
         \A p \in keep : p[1] \in DOMAIN blocks'
  PROVE  PortsHold' /\ NetsHold'
  BY DEF PortsHold, NetsHold, KeepPorts

LEMMA WritePortStep ==
  ASSUME FlowInv, NEW c \in Clients, WritePort(c)
  PROVE  FlowInv'
<1>1. PICK w : w = NextWrite(c)
  OBVIOUS
<1>2. /\ request[c].todo # <<>> /\ w.tag = "port" /\ Written(c)
      /\ UNCHANGED <<blocks, nets, spent, allowed, raced>>
      /\ w.port[1] \in DOMAIN blocks /\ w.port \notin DOMAIN ports
      /\ ports' = [p \in DOMAIN ports \cup {w.port} |->
                     IF p = w.port THEN [direction |-> w.direction, kind |-> w.kind] ELSE ports[p]]
  BY <1>1 DEF WritePort, Under
<1>3. RequestsHold /\ BlocksHold /\ PortsHold /\ NetsHold /\ CountsHold
      /\ (~ raced => Forest(blocks))
  BY DEF FlowInv, TypesHold
<1>4. w \in PortWrite
  BY <1>1, <1>2, <1>3, NextIs, TagsTell
<1>5. BlocksHold' /\ (~ raced' => Forest(blocks)') /\ CountsHold'
  BY <1>2, <1>3, BlocksStay
<1>6. PortsHold' /\ NetsHold'
  <2>1. [direction |-> w.direction, kind |-> w.kind] \in Port /\ w.port \in PortIds
    BY <1>4 DEF PortWrite, Port
  <2>2. QED  BY <1>2, <1>3, <2>1 DEF PortsHold, NetsHold
<1>7. RequestsHold'
  <2>1. \A n \in DOMAIN nets' : n \in DOMAIN nets /\ w # Unnet(n)
          /\ ports'[n[1]] = ports[n[1]] /\ ports'[n[2]] = ports[n[2]]
    BY <1>2, <1>3 DEF Unnet, NetsHold
  <2>2. request[c].op = "composite" /\ ~ request[c].overtaken =>
          request[c].of \in DOMAIN blocks' /\ blocks'[request[c].of].parent = None
    BY <1>1, <1>2, <1>3, BoxIsThere
  <2>3. QED  BY <1>1, <1>2, <1>3, <2>1, <2>2, WriteGoesOn DEF Proceeds
<1>8. QED  BY <1>5, <1>6, <1>7 DEF FlowInv, TypesHold

LEMMA WritePortKindStep ==
  ASSUME FlowInv, NEW c \in Clients, WritePortKind(c)
  PROVE  FlowInv'
<1>1. PICK w : w = NextWrite(c)
  OBVIOUS
<1>2. /\ request[c].todo # <<>> /\ w.tag = "portkind" /\ Written(c)
      /\ UNCHANGED <<blocks, nets, spent, allowed, raced>> /\ w.port \in DOMAIN ports
      /\ ports' = [ports EXCEPT ![w.port].kind = w.kind]
  BY <1>1 DEF WritePortKind, Under
<1>3. RequestsHold /\ BlocksHold /\ PortsHold /\ NetsHold /\ CountsHold
      /\ (~ raced => Forest(blocks))
  BY DEF FlowInv, TypesHold
<1>4. w \in PortKindWrite
  BY <1>1, <1>2, <1>3, NextIs, TagsTell
<1>5. BlocksHold' /\ (~ raced' => Forest(blocks)') /\ CountsHold'
  BY <1>2, <1>3, BlocksStay
<1>6. PortsHold' /\ NetsHold'
  <2>1. DOMAIN ports' = DOMAIN ports /\ \A p \in DOMAIN ports : ports'[p] \in Port
    BY <1>2, <1>3, <1>4 DEF PortsHold, Port, PortKindWrite
  <2>2. QED  BY <1>2, <1>3, <2>1 DEF PortsHold, NetsHold
<1>7. RequestsHold'
  BY <1>1, <1>2, <1>3, EditEnds
<1>8. QED  BY <1>5, <1>6, <1>7 DEF FlowInv, TypesHold

LEMMA ErasePortStep ==
  ASSUME FlowInv, NEW c \in Clients, ErasePort(c)
  PROVE  FlowInv'
<1>1. PICK w : w = NextWrite(c)
  OBVIOUS
<1>2. /\ request[c].todo # <<>> /\ w.tag = "unport" /\ Written(c)
      /\ UNCHANGED <<blocks, spent, allowed, raced>> /\ KeepPorts(DOMAIN ports \ {w.port})
  BY <1>1 DEF ErasePort, Under
<1>3. RequestsHold /\ BlocksHold /\ PortsHold /\ NetsHold /\ CountsHold
      /\ (~ raced => Forest(blocks))
  BY DEF FlowInv, TypesHold
<1>4. BlocksHold' /\ (~ raced' => Forest(blocks)') /\ CountsHold'
  BY <1>2, <1>3, BlocksStay
<1>5. PortsHold' /\ NetsHold'
  <2>1. \A p \in DOMAIN ports \ {w.port} : p[1] \in DOMAIN blocks'
    BY <1>2, <1>3 DEF PortsHold
  <2>2. QED  BY <1>2, <1>3, <2>1, KeepingPorts
<1>6. RequestsHold'
  BY <1>1, <1>2, <1>3, EditEnds
<1>7. QED  BY <1>4, <1>5, <1>6 DEF FlowInv, TypesHold

LEMMA WriteNetStep ==
  ASSUME FlowInv, NEW c \in Clients, WriteNet(c)
  PROVE  FlowInv'
<1>1. PICK w : w = NextWrite(c)
  OBVIOUS
<1>2. /\ request[c].todo # <<>> /\ w.tag = "net" /\ Written(c)
      /\ UNCHANGED <<blocks, ports, spent, allowed, raced>>
      /\ w.net[1] \in DOMAIN ports /\ w.net[2] \in DOMAIN ports
      /\ nets' = [n \in DOMAIN nets \cup {w.net} |->
                    IF n = w.net THEN [kind |-> w.kind, derived |-> w.derived] ELSE nets[n]]
  BY <1>1 DEF WriteNet, NewNet, Under
<1>3. RequestsHold /\ BlocksHold /\ PortsHold /\ NetsHold /\ CountsHold
      /\ (~ raced => Forest(blocks))
  BY DEF FlowInv, TypesHold
<1>4. w \in NetWrite
  BY <1>1, <1>2, <1>3, NextIs, TagsTell
<1>5. BlocksHold' /\ (~ raced' => Forest(blocks)') /\ CountsHold'
  BY <1>2, <1>3, BlocksStay
<1>6. PortsHold' /\ NetsHold'
  <2>1. [kind |-> w.kind, derived |-> w.derived] \in Net /\ w.net \in PortIds \X PortIds
    BY <1>4 DEF NetWrite, Net
  <2>2. QED  BY <1>2, <1>3, <2>1 DEF PortsHold, NetsHold
<1>7. RequestsHold'
  <2>1. ASSUME request[c].op = "composite", ~ request[c].overtaken
        PROVE  request[c].of \in DOMAIN blocks' /\ blocks'[request[c].of].parent = None
               /\ Passes(request[c], w.net)
    <3>1. w \in BoxWrites(request[c].of, request[c].children) /\ blocks[request[c].of].parent = None
          /\ request[c].of \in DOMAIN blocks
      BY <1>1, <1>2, <1>3, <2>1, BoxIsThere
    <3>2. request[c].of \in {w.net[1][1], w.net[2][1]}
      BY <1>2, <3>1 DEF BoxWrites, BoxPorts, BoxNets, BoxParents, PortWrite, ParentWrite,
                        NetErasure, MetaWrite
    <3>3. QED  BY <1>2, <3>1, <3>2 DEF Passes
  <2>2. \A n \in DOMAIN nets' \ {w.net} : n \in DOMAIN nets /\ w # Unnet(n)
          /\ ports'[n[1]] = ports[n[1]] /\ ports'[n[2]] = ports[n[2]]
    BY <1>2 DEF Unnet
  <2>3. QED  BY <1>1, <1>2, <1>3, <2>1, <2>2, WriteGoesOn DEF Proceeds
<1>8. QED  BY <1>5, <1>6, <1>7 DEF FlowInv, TypesHold

LEMMA PassNetStep ==
  ASSUME FlowInv, NEW c \in Clients, PassNet(c)
  PROVE  FlowInv'
<1>1. PICK w : w = NextWrite(c)
  OBVIOUS
<1>2. /\ request[c].todo # <<>> /\ w.tag = "net" /\ Proceeds(c)
      /\ UNCHANGED <<blocks, ports, nets, spent, allowed, raced>>
  BY <1>1 DEF PassNet, Under, flowVars, Proceeds
<1>3. RequestsHold /\ BlocksHold /\ PortsHold /\ NetsHold /\ CountsHold
      /\ (~ raced => Forest(blocks))
  BY DEF FlowInv, TypesHold
<1>4. BlocksHold' /\ (~ raced' => Forest(blocks)') /\ CountsHold'
  BY <1>2, <1>3, BlocksStay
<1>5. PortsHold' /\ NetsHold'
  BY <1>2, <1>3 DEF PortsHold, NetsHold
<1>6. RequestsHold'
  <2>1. \A n \in DOMAIN nets' : n \in DOMAIN nets /\ w # Unnet(n)
          /\ ports'[n[1]] = ports[n[1]] /\ ports'[n[2]] = ports[n[2]]
    BY <1>2 DEF Unnet
  <2>2. request[c].op = "composite" /\ ~ request[c].overtaken =>
          request[c].of \in DOMAIN blocks' /\ blocks'[request[c].of].parent = None
    BY <1>1, <1>2, <1>3, BoxIsThere
  <2>3. QED  BY <1>1, <1>2, <1>3, <2>1, <2>2, WriteGoesOn
<1>7. QED  BY <1>4, <1>5, <1>6 DEF FlowInv, TypesHold

LEMMA WriteNetKindStep ==
  ASSUME FlowInv, NEW c \in Clients, WriteNetKind(c)
  PROVE  FlowInv'
<1>1. PICK w : w = NextWrite(c)
  OBVIOUS
<1>2. /\ request[c].todo # <<>> /\ w.tag = "netkind" /\ Written(c)
      /\ UNCHANGED <<blocks, ports, spent, allowed, raced>> /\ w.net \in DOMAIN nets
      /\ nets' = [nets EXCEPT ![w.net].kind = w.kind]
  BY <1>1 DEF WriteNetKind, Under
<1>3. RequestsHold /\ BlocksHold /\ PortsHold /\ NetsHold /\ CountsHold
      /\ (~ raced => Forest(blocks))
  BY DEF FlowInv, TypesHold
<1>4. w \in NetKindWrite
  BY <1>1, <1>2, <1>3, NextIs, TagsTell
<1>5. BlocksHold' /\ (~ raced' => Forest(blocks)') /\ CountsHold'
  BY <1>2, <1>3, BlocksStay
<1>6. PortsHold' /\ NetsHold'
  <2>1. DOMAIN nets' = DOMAIN nets /\ \A n \in DOMAIN nets : nets'[n] \in Net
    BY <1>2, <1>3, <1>4 DEF NetsHold, Net, NetKindWrite
  <2>2. QED  BY <1>2, <1>3, <2>1 DEF PortsHold, NetsHold
<1>7. RequestsHold'
  BY <1>1, <1>2, <1>3, EditEnds
<1>8. QED  BY <1>5, <1>6, <1>7 DEF FlowInv, TypesHold

LEMMA EraseNetStep ==
  ASSUME FlowInv, NEW c \in Clients, EraseNet(c)
  PROVE  FlowInv'
<1>1. PICK w : w = NextWrite(c)
  OBVIOUS
<1>2. /\ request[c].todo # <<>> /\ w.tag = "unnet" /\ Written(c)
      /\ UNCHANGED <<blocks, ports, spent, allowed, raced>>
      /\ nets' = [n \in DOMAIN nets \ {w.net} |-> nets[n]]
  BY <1>1 DEF EraseNet, Under
<1>3. RequestsHold /\ BlocksHold /\ PortsHold /\ NetsHold /\ CountsHold
      /\ (~ raced => Forest(blocks))
  BY DEF FlowInv, TypesHold
<1>4. BlocksHold' /\ (~ raced' => Forest(blocks)') /\ CountsHold'
  BY <1>2, <1>3, BlocksStay
<1>5. PortsHold' /\ NetsHold'
  BY <1>2, <1>3 DEF PortsHold, NetsHold
<1>6. RequestsHold'
  <2>1. \A n \in DOMAIN nets' : n \in DOMAIN nets /\ w # Unnet(n)
          /\ ports'[n[1]] = ports[n[1]] /\ ports'[n[2]] = ports[n[2]]
    BY <1>2 DEF Unnet
  <2>2. request[c].op = "composite" /\ ~ request[c].overtaken =>
          request[c].of \in DOMAIN blocks' /\ blocks'[request[c].of].parent = None
    BY <1>1, <1>2, <1>3, BoxIsThere
  <2>3. QED  BY <1>1, <1>2, <1>3, <2>1, <2>2, WriteGoesOn DEF Proceeds
<1>7. QED  BY <1>4, <1>5, <1>6 DEF FlowInv, TypesHold
------------------------------------------------------------------------------
(* Requests.                                                                *)

(* An edit of one write that was checked against the blocks there are.      *)
LEMMA AskStep ==
  ASSUME FlowInv, NEW c \in Clients, Free(c), NEW w \in Write, Ask(c, <<w>>),
         spent \subseteq spent', spent' \subseteq Spare,
         w.tag = "parent" => w.parent \notin Beneath(blocks, w.block),
         w.tag = "block" => w.block \in spent'
  PROVE  FlowInv'
<1>1. UNCHANGED flowVars /\ raced' = raced /\ allowed[c] > 0
      /\ allowed' = [allowed EXCEPT ![c] = allowed[c] - 1]
      /\ request' = [request EXCEPT ![c] = [Idle EXCEPT !.op = "edit", !.todo = <<w>>]]
  BY DEF Ask, Free
<1>2. TypesHold /\ RequestsHold /\ CountsHold /\ (~ raced => Forest(blocks))
  BY DEF FlowInv, TypesHold
<1>3. CountsHold'
  BY <1>1, <1>2 DEF CountsHold
<1>4. TypesHold' /\ (~ raced' => Forest(blocks)')
  BY <1>1, <1>2, <1>3, TypesStay
<1>5. PICK bs, new : bs = blocks /\ new = blocks'
  OBVIOUS
<1>6. new = bs
  BY <1>1, <1>5 DEF flowVars
<1>7. MayEdit(w)'
  BY <1>5, <1>6 DEF MayEdit
<1>8. RequestsHold'
  BY <1>1, <1>2, <1>7, EditHolds
<1>9. QED  BY <1>4, <1>8 DEF FlowInv

LEMMA FreshIs ==
  ASSUME BlocksHold, CountsHold, Spare # spent
  PROVE  Fresh \in Spare /\ Fresh \notin spent /\ Fresh \notin DOMAIN blocks /\ Fresh \in Ids
<1>1. \E b \in Spare : b \notin spent
  BY DEF CountsHold
<1>2. Fresh \in Spare /\ Fresh \notin spent
  BY <1>1 DEF Fresh
<1>3. QED  BY <1>2, FlowAssumption DEF BlocksHold, Ids

(* The request of create_composite.                                         *)
BoxRequest(todo, box, S) ==
  [op |-> "composite", todo |-> todo, row |-> {}, overtaken |-> FALSE, of |-> box,
   children |-> S, joined |-> Connections, missing |-> MissingCalls]

LEMMA CreateCompositeStep ==
  ASSUME FlowInv, NEW c \in Clients, Free(c),
         NEW S \in SUBSET DOMAIN blocks, CreateComposite(c, S)
  PROVE  FlowInv'
<1>1. PICK box : box = Fresh
  OBVIOUS
<1>2. PICK todo : todo = CompositeWrites(S, box)
  OBVIOUS
<1>3. PICK r : r = BoxRequest(todo, box, S)
  OBVIOUS
<1>4. /\ Spare # spent /\ request' = [request EXCEPT ![c] = r]
      /\ spent' = spent \cup {box} /\ allowed' = [allowed EXCEPT ![c] = allowed[c] - 1]
      /\ allowed[c] > 0 /\ UNCHANGED flowVars /\ raced' = raced
  BY <1>1, <1>2, <1>3 DEF CreateComposite, Free, BoxRequest
<1>5. TypesHold /\ BlocksHold /\ PortsHold /\ NetsHold /\ RequestsHold /\ CountsHold
      /\ (~ raced => Forest(blocks))
  BY DEF FlowInv, TypesHold
<1>6. box \in Spare /\ box \notin DOMAIN blocks /\ box \in Ids
  BY <1>1, <1>4, <1>5, FreshIs
<1>7. CountsHold'
  BY <1>4, <1>5, <1>6 DEF CountsHold
<1>8. TypesHold' /\ (~ raced' => Forest(blocks)')
  BY <1>4, <1>5, <1>7, TypesStay
<1>9. /\ todo \in Seq(Write) /\ todo # <<>> /\ Head(todo) = BoxWrite(box)
      /\ Tail(todo) \in Seq(BoxWrites(box, S))
      /\ \A n \in Crossing(S) : \E i \in 1..Len(todo) : todo[i] = Unnet(n)
  BY <1>2, <1>5, <1>6, CompositeWritesAre
<1>10. /\ r.op = "composite" /\ r.todo = todo /\ r.of = box /\ r.children = S
       /\ r.row = {} /\ r \in RequestType
  <2>1. Connections \in SUBSET (Ids \X Ids) /\ MissingCalls \in SUBSET (Functions \X Functions)
    BY DEF Connections, MissingCalls, ExpectedCalls
  <2>2. S \in SUBSET Ids
    BY <1>5 DEF BlocksHold
  <2>3. QED  BY <1>3, <1>6, <1>9, <2>1, <2>2 DEF RequestType, BoxRequest
<1>11. BoxOK(r)'
  BY <1>4, <1>6, <1>9, <1>10 DEF BoxOK, BoxWrites, BoxWrite, BoxPorts, BoxNets, BoxParents, flowVars
<1>12. BoundaryOK(r)'
  <2>1. ASSUME NEW n \in DOMAIN nets', OnBoundary(r, n)'
        PROVE  \E i \in 1..Len(r.todo) : r.todo[i] = Unnet(n)
    <3>1. n \in External(S) /\ ports[n[1]].direction = "output" /\ ports[n[2]].direction = "input"
      BY <1>4, <1>10, <2>1 DEF OnBoundary, External, Internal, flowVars
    <3>2. n \in Crossing(S)
      BY <1>5, <3>1, CrossingIs
    <3>3. QED  BY <1>9, <1>10, <3>2
  <2>2. QED  BY <2>1 DEF BoundaryOK, Unnet
<1>13. RequestTyped(r)'
  <2>1. ASSUME NEW i \in 1..Len(todo), todo[i].tag = "block" PROVE todo[i].block \in spent'
    <3>1. CASE i = 1
      <4>1. todo[i] = BoxWrite(box)
        BY <1>9, <3>1, HeadAndTail
      <4>2. QED  BY <1>4, <4>1 DEF BoxWrite
    <3>2. CASE i # 1
      <4>1. /\ Len(todo) \in Nat \ {0} /\ Len(Tail(todo)) = Len(todo) - 1
            /\ \A k \in 2..Len(todo) : Tail(todo)[k - 1] = todo[k]
        BY <1>9, HeadAndTail
      <4>2. PICK j \in 1..Len(Tail(todo)) : j = i - 1
        BY <3>2, <4>1
      <4>3. Tail(todo)[j] = todo[i]
        BY <3>2, <4>1, <4>2
      <4>4. Tail(todo)[j] \in BoxWrites(box, S)
        BY <1>9
      <4>5. todo[i].tag # "block"
        BY <4>3, <4>4 DEF BoxWrites, BoxPorts, BoxNets, BoxParents, PortWrite, NetWrite,
                          NetErasure, ParentWrite, MetaWrite
      <4>6. QED  BY <2>1, <4>5
    <3>3. QED  BY <3>1, <3>2
  <2>2. QED  BY <1>10, <2>1 DEF RequestTyped, Given
<1>14. RequestOK(r)'
  BY <1>10, <1>11, <1>12, <1>13 DEF RequestOK, RowOK, EditOK, CompositeOK
<1>15. RequestsHold'
  BY <1>4, <1>5, <1>14, OnlyAsked
<1>16. QED  BY <1>8, <1>15 DEF FlowInv

LEMMA RequestStep ==
  ASSUME FlowInv, NEW c \in Clients, Request(c)
  PROVE  FlowInv'
<1>1. Free(c)
  BY DEF Request
<1>2. BlocksHold /\ PortsHold /\ NetsHold /\ CountsHold
  BY DEF FlowInv, TypesHold
<1>3. \A b : Below(b) = Beneath(blocks, b)
  BY BelowIsBeneath
<1>4. ASSUME NEW k \in BlockKinds, NEW p \in DOMAIN blocks \cup {None}, AddBlock(c, k, p)
      PROVE  FlowInv'
  <2>1. PICK w : w = [tag |-> "block", block |-> Fresh, kind |-> k, parent |-> p]
    OBVIOUS
  <2>2. Ask(c, <<w>>) /\ spent' = spent \cup {Fresh} /\ Spare # spent
    BY <1>4, <2>1 DEF AddBlock
  <2>3. Fresh \in Spare /\ Fresh \notin DOMAIN blocks /\ Fresh \in Ids
    BY <1>2, <2>2, FreshIs
  <2>4. w \in Write
    BY <1>2, <2>1, <2>3 DEF Write, BlockWrite, BlocksHold
  <2>5. QED  BY <1>1, <1>2, <2>1, <2>2, <2>3, <2>4, AskStep DEF CountsHold
<1>5. ASSUME NEW b \in DOMAIN blocks, NEW p \in DOMAIN blocks \cup {None}, Reparent(c, b, p)
      PROVE  FlowInv'
  <2>1. PICK w : w = PutParent(b, p)
    OBVIOUS
  <2>2. Ask(c, <<w>>) /\ spent' = spent /\ p \notin Beneath(blocks, b)
    BY <1>3, <1>5, <2>1 DEF Reparent, NoParentCycle
  <2>3. w \in Write /\ w.tag = "parent" /\ w.block = b /\ w.parent = p
    BY <1>2, <2>1 DEF Write, ParentWrite, PutParent, BlocksHold
  <2>4. QED  BY <1>1, <1>2, <2>2, <2>3, AskStep DEF CountsHold
<1>6. ASSUME NEW b \in DOMAIN blocks, NEW k \in BlockKinds, ChangeKind(c, b, k)
      PROVE  FlowInv'
  <2>1. PICK w : w = [tag |-> "kind", block |-> b, kind |-> k]
    OBVIOUS
  <2>2. Ask(c, <<w>>) /\ spent' = spent
    BY <1>6, <2>1 DEF ChangeKind
  <2>3. w \in Write /\ w.tag = "kind"
    BY <1>2, <2>1 DEF Write, KindWrite, BlocksHold
  <2>4. QED  BY <1>1, <1>2, <2>2, <2>3, AskStep DEF CountsHold
<1>7. ASSUME NEW b \in DOMAIN blocks, DeleteBlock(c, b) PROVE FlowInv'
  <2>1. PICK w : w = [tag |-> "unblock", block |-> b]
    OBVIOUS
  <2>2. Ask(c, <<w>>) /\ spent' = spent
    BY <1>7, <2>1 DEF DeleteBlock
  <2>3. w \in Write /\ w.tag = "unblock" /\ w.block = b
    BY <1>2, <2>1 DEF Write, BlockErasure, BlocksHold
  <2>4. QED  BY <1>1, <1>2, <2>2, <2>3, AskStep DEF CountsHold
<1>8. ASSUME NEW b \in DOMAIN blocks, NEW n \in PortNames, NEW d \in Directions,
             NEW k \in SemanticKinds, AddPort(c, <<b, n>>, d, k)
      PROVE  FlowInv'
  <2>1. PICK w : w = PutPort(<<b, n>>, d, k)
    OBVIOUS
  <2>2. Ask(c, <<w>>) /\ spent' = spent
    BY <1>8, <2>1 DEF AddPort
  <2>3. w \in Write /\ w.tag = "port"
    <3>1. <<b, n>> \in PortIds
      BY <1>2 DEF PortIds, BlocksHold
    <3>2. QED  BY <2>1, <3>1 DEF Write, PortWrite, PutPort
  <2>4. QED  BY <1>1, <1>2, <2>2, <2>3, AskStep DEF CountsHold
<1>9. ASSUME NEW p \in DOMAIN ports, NEW k \in SemanticKinds, ChangePortKind(c, p, k)
      PROVE  FlowInv'
  <2>1. PICK w : w = [tag |-> "portkind", port |-> p, kind |-> k]
    OBVIOUS
  <2>2. Ask(c, <<w>>) /\ spent' = spent
    BY <1>9, <2>1 DEF ChangePortKind
  <2>3. w \in Write /\ w.tag = "portkind"
    BY <1>2, <2>1 DEF Write, PortKindWrite, PortsHold
  <2>4. QED  BY <1>1, <1>2, <2>2, <2>3, AskStep DEF CountsHold
<1>10. ASSUME NEW p \in DOMAIN ports, DeletePort(c, p) PROVE FlowInv'
  <2>1. PICK w : w = [tag |-> "unport", port |-> p]
    OBVIOUS
  <2>2. Ask(c, <<w>>) /\ spent' = spent
    BY <1>10, <2>1 DEF DeletePort
  <2>3. w \in Write /\ w.tag = "unport"
    BY <1>2, <2>1 DEF Write, PortErasure, PortsHold
  <2>4. QED  BY <1>1, <1>2, <2>2, <2>3, AskStep DEF CountsHold
<1>11. ASSUME NEW s \in DOMAIN ports, NEW t \in DOMAIN ports, NEW k \in SemanticKinds,
              AddNet(c, s, t, k)
       PROVE  FlowInv'
  <2>1. PICK w : w = PutNet(s, t, k, FALSE, TRUE)
    OBVIOUS
  <2>2. Ask(c, <<w>>) /\ spent' = spent
    BY <1>11, <2>1 DEF AddNet
  <2>3. w \in Write /\ w.tag = "net"
    BY <1>2, <2>1 DEF Write, NetWrite, PutNet, PortsHold
  <2>4. QED  BY <1>1, <1>2, <2>2, <2>3, AskStep DEF CountsHold
<1>12. ASSUME NEW n \in DOMAIN nets, NEW k \in SemanticKinds, UpdateNet(c, n, k)
       PROVE  FlowInv'
  <2>1. PICK w : w = [tag |-> "netkind", net |-> n, kind |-> k]
    OBVIOUS
  <2>2. Ask(c, <<w>>) /\ spent' = spent
    BY <1>12, <2>1 DEF UpdateNet
  <2>3. w \in Write /\ w.tag = "netkind"
    BY <1>2, <2>1 DEF Write, NetKindWrite, NetsHold
  <2>4. QED  BY <1>1, <1>2, <2>2, <2>3, AskStep DEF CountsHold
<1>13. ASSUME NEW n \in DOMAIN nets, DeleteNet(c, n) PROVE FlowInv'
  <2>1. PICK w : w = Unnet(n)
    OBVIOUS
  <2>2. Ask(c, <<w>>) /\ spent' = spent
    BY <1>13, <2>1 DEF DeleteNet, Unnet
  <2>3. w \in Write /\ w.tag = "unnet"
    BY <1>2, <2>1 DEF Write, NetErasure, Unnet, NetsHold
  <2>4. QED  BY <1>1, <1>2, <2>2, <2>3, AskStep DEF CountsHold
<1>14. ASSUME NEW S \in SUBSET DOMAIN blocks, CreateComposite(c, S) PROVE FlowInv'
  BY <1>1, <1>14, CreateCompositeStep
<1>15. QED
  BY <1>4, <1>5, <1>6, <1>7, <1>8, <1>9, <1>10, <1>11, <1>12, <1>13, <1>14 DEF Request

(* Failing or answering ends the request.                                   *)
LEMMA EndStep ==
  ASSUME FlowInv, NEW c \in Clients, Fail(c) \/ Answer(c)
  PROVE  FlowInv'
<1>1. UNCHANGED flowVars /\ UNCHANGED <<spent, allowed, raced>>
      /\ request' = [request EXCEPT ![c] = Idle]
  BY DEF Fail, Answer
<1>2. TypesHold /\ RequestsHold /\ CountsHold /\ (~ raced => Forest(blocks))
  BY DEF FlowInv, TypesHold
<1>3. CountsHold'
  BY <1>1, <1>2 DEF CountsHold
<1>4. TypesHold' /\ (~ raced' => Forest(blocks)')
  BY <1>1, <1>2, <1>3, TypesStay
<1>5. RequestsHold'
  BY <1>1, <1>2, IdleHolds
<1>6. QED  BY <1>4, <1>5 DEF FlowInv

LEMMA StutterStep ==
  ASSUME FlowInv, UNCHANGED vars
  PROVE  FlowInv'
<1>1. UNCHANGED flowVars /\ UNCHANGED <<request, spent, allowed, raced>>
  BY DEF vars, flowVars
<1>2. TypesHold /\ RequestsHold /\ CountsHold /\ (~ raced => Forest(blocks))
  BY DEF FlowInv, TypesHold
<1>3. CountsHold'
  BY <1>1, <1>2 DEF CountsHold
<1>4. TypesHold' /\ (~ raced' => Forest(blocks)')
  BY <1>1, <1>2, <1>3, TypesStay
<1>5. ASSUME NEW c \in Clients PROVE RequestOK(request[c])'
  <2>1. PICK r : r = request[c] /\ r = request'[c]
    BY <1>1
  <2>2. RequestOK(r)
    BY <1>2, <2>1 DEF RequestsHold
  <2>3. RequestOK(r)'
    BY <1>1, <2>2, RequestStays
  <2>4. QED  BY <2>1, <2>3
<1>6. RequestsHold'
  BY <1>1, <1>2, <1>5 DEF RequestsHold
<1>7. QED  BY <1>4, <1>6 DEF FlowInv
------------------------------------------------------------------------------
LEMMA NextStep ==
  ASSUME FlowInv, [Next]_vars
  PROVE  FlowInv'
<1>1. CASE UNCHANGED vars
  BY <1>1, StutterStep
<1>2. ASSUME NEW c \in Clients, WriteBlock(c) PROVE FlowInv'
  BY <1>2, WriteBlockStep
<1>3. ASSUME NEW c \in Clients, ReadRow(c) PROVE FlowInv'
  BY <1>3, ReadRowStep
<1>4. ASSUME NEW c \in Clients, WriteRow(c) PROVE FlowInv'
  BY <1>4, WriteRowStep
<1>5. ASSUME NEW c \in Clients, EraseBlock(c) PROVE FlowInv'
  BY <1>5, EraseBlockStep
<1>6. ASSUME NEW c \in Clients, WritePort(c) PROVE FlowInv'
  BY <1>6, WritePortStep
<1>7. ASSUME NEW c \in Clients, WritePortKind(c) PROVE FlowInv'
  BY <1>7, WritePortKindStep
<1>8. ASSUME NEW c \in Clients, ErasePort(c) PROVE FlowInv'
  BY <1>8, ErasePortStep
<1>9. ASSUME NEW c \in Clients, WriteNet(c) PROVE FlowInv'
  BY <1>9, WriteNetStep
<1>10. ASSUME NEW c \in Clients, PassNet(c) PROVE FlowInv'
  BY <1>10, PassNetStep
<1>11. ASSUME NEW c \in Clients, WriteNetKind(c) PROVE FlowInv'
  BY <1>11, WriteNetKindStep
<1>12. ASSUME NEW c \in Clients, EraseNet(c) PROVE FlowInv'
  BY <1>12, EraseNetStep
<1>13. ASSUME NEW c \in Clients, Fail(c) \/ Answer(c) PROVE FlowInv'
  BY <1>13, EndStep
<1>14. ASSUME NEW c \in Clients, Request(c) PROVE FlowInv'
  BY <1>14, RequestStep
<1>15. QED
  BY <1>1, <1>2, <1>3, <1>4, <1>5, <1>6, <1>7, <1>8, <1>9, <1>10, <1>11, <1>12, <1>13, <1>14
  DEF Next

LEMMA InitHolds == Init => FlowInv
<1> SUFFICES ASSUME Init PROVE FlowInv
  OBVIOUS
<1>1. evidence \subseteq Functions \X Functions
  BY FlowAssumption DEF Init
<1>2. BlocksHold
  BY DEF Init, BlocksHold, Block, BlockKinds, Ids
<1>3. DOMAIN ports = UNION {{In(f), Out(f)} : f \in Functions}
  BY DEF Init
<1>4. \A f \in Functions : In(f) \in DOMAIN ports /\ Out(f) \in DOMAIN ports
  BY <1>3
<1>5. PortsHold
  <2>1. \A p \in DOMAIN ports : \E f \in Functions : p = In(f) \/ p = Out(f)
    BY <1>3
  <2>2. \A p \in DOMAIN ports : p \in PortIds /\ p[1] \in Functions
    BY <2>1 DEF In, Out, PortIds, Ids
  <2>3. ports \in [DOMAIN ports -> Port]
    BY DEF Init, Port, Directions, SemanticKinds
  <2>4. QED  BY <2>2, <2>3 DEF PortsHold, Init
<1>6. NetsHold
  <2>1. ASSUME NEW n \in DOMAIN nets PROVE n \in PortIds \X PortIds
                 /\ n[1] \in DOMAIN ports /\ n[2] \in DOMAIN ports
    <3>1. PICK e \in evidence : n = <<Out(e[1]), In(e[2])>>
      BY DEF Init
    <3>2. e[1] \in Functions /\ e[2] \in Functions
      BY <1>1, <3>1
    <3>3. QED  BY <1>4, <1>5, <3>1, <3>2 DEF PortsHold
  <2>2. nets \in [DOMAIN nets -> Net]
    BY DEF Init, Net, SemanticKinds
  <2>3. QED  BY <2>1, <2>2 DEF NetsHold
<1>7. CountsHold
  BY FlowAssumption DEF Init, CountsHold
<1>8. Forest(blocks)
  <2>1. None \notin DOMAIN blocks /\ \A b \in DOMAIN blocks : blocks[b].parent = None
    BY FlowAssumption DEF Init
  <2>2. QED  BY <2>1 DEF Forest, Beneath
<1>9. RequestsHold
  <2>1. request = [c \in Clients |-> request[c]] /\ \A c \in Clients : request[c] = Idle
    BY DEF Init
  <2>2. QED  BY <2>1, IdleIs DEF RequestsHold
<1>10. QED  BY <1>2, <1>5, <1>6, <1>7, <1>8, <1>9 DEF FlowInv, TypesHold

LEMMA FlowInvariant == Spec => []FlowInv
<1>1. Init => FlowInv
  BY InitHolds
<1>2. FlowInv /\ [Next]_vars => FlowInv'
  BY NextStep
<1>3. QED  BY <1>1, <1>2, PTL DEF Spec
------------------------------------------------------------------------------
(* Walks.                                                                   *)

LEMMA LeastNatural ==
  ASSUME NEW T \in SUBSET Nat, T # {}
  PROVE  \E n \in T : \A m \in T : n <= m
<1>1. PICK n \in T : \A m \in T : ~ (<<m, n>> \in OpToRel(<, Nat))
  BY NatLessThanWellFounded, WFMin
<1>2. ASSUME NEW m \in T PROVE n <= m
  <2>1. ~ (m < n)
    BY <1>1 DEF OpToRel
  <2>2. QED  BY <2>1
<1>3. QED  BY <1>2

(* What n steps find, step after step.                                      *)
Finds(G, start, found, n) ==
  found = [k \in 0..n |->
             IF k = 0 THEN {start} ELSE found[k - 1] \cup AllSuccessors(G, found[k - 1])]

LEMMA FindsExists ==
  ASSUME NEW G, NEW start, NEW n \in Nat
  PROVE  \E found : Finds(G, start, found, n)
<1> DEFINE bad == {m \in Nat : ~ \E found : Finds(G, start, found, m)}
<1>1. SUFFICES ASSUME bad # {} PROVE FALSE
  OBVIOUS
<1>2. PICK m \in bad : \A k \in bad : m <= k
  BY <1>1, LeastNatural
<1>3. CASE m = 0
  <2>1. Finds(G, start, [k \in 0..0 |-> {start}], 0)
    BY DEF Finds
  <2>2. QED  BY <1>2, <1>3, <2>1
<1>4. CASE m # 0
  <2>1. m - 1 \in Nat /\ m - 1 \notin bad
    BY <1>2, <1>4
  <2>2. PICK f : Finds(G, start, f, m - 1)
    BY <2>1
  <2>3. PICK next : next = f[m - 1] \cup AllSuccessors(G, f[m - 1])
    OBVIOUS
  <2>4. PICK g : g = [k \in 0..m |-> IF k = m THEN next ELSE f[k]]
    OBVIOUS
  <2>5. ASSUME NEW k \in 0..m
        PROVE  g[k] = IF k = 0 THEN {start} ELSE g[k - 1] \cup AllSuccessors(G, g[k - 1])
    <3>1. CASE k = m
      <4>1. k # 0 /\ g[k] = next /\ g[k - 1] = f[m - 1]
        BY <1>4, <2>1, <2>4, <3>1
      <4>2. QED  BY <2>3, <3>1, <4>1
    <3>2. CASE k # m
      <4>1. k \in 0..(m - 1) /\ g[k] = f[k]
        BY <1>2, <2>4, <3>2
      <4>2. f[k] = IF k = 0 THEN {start} ELSE f[k - 1] \cup AllSuccessors(G, f[k - 1])
        BY <2>2, <4>1 DEF Finds
      <4>3. k # 0 => g[k - 1] = f[k - 1]
        BY <1>2, <2>4, <3>2
      <4>4. QED  BY <4>1, <4>2, <4>3
    <3>3. QED  BY <3>1, <3>2
  <2>6. Finds(G, start, g, m)
    <3>1. g = [k \in 0..m |-> g[k]]
      BY <2>4
    <3>2. QED  BY <2>5, <3>1 DEF Finds
  <2>7. QED  BY <1>2, <2>6
<1>5. QED  BY <1>3, <1>4

LEMMA WalkFinds ==
  ASSUME NEW G, NEW start
  PROVE  \E found : Finds(G, start, found, MaxDepth) /\ Walk(G, start) = found[MaxDepth]
<1>1. \E found : Finds(G, start, found, MaxDepth)
  BY FindsExists, FlowAssumption
<1>2. PICK found : found = CHOOSE f : Finds(G, start, f, MaxDepth)
  OBVIOUS
<1>3. Finds(G, start, found, MaxDepth)
  BY <1>1, <1>2
<1>4. Walk(G, start) = found[MaxDepth]
  BY <1>2 DEF Walk, Finds
<1>5. QED  BY <1>3, <1>4

(* A walk keeps to every set that has its start and is closed.              *)
LEMMA WalkKeepsTo ==
  ASSUME NEW G, NEW start, NEW closed, start \in closed, AllSuccessors(G, closed) \subseteq closed
  PROVE  Walk(G, start) \subseteq closed
<1>1. PICK found : Finds(G, start, found, MaxDepth) /\ Walk(G, start) = found[MaxDepth]
  BY WalkFinds
<1> DEFINE bad == {k \in Nat : k <= MaxDepth /\ ~ (found[k] \subseteq closed)}
<1>2. ASSUME bad # {} PROVE FALSE
  <2>1. PICK k \in bad : \A j \in bad : k <= j
    BY <1>2, LeastNatural
  <2>2. k \in 0..MaxDepth /\ ~ (found[k] \subseteq closed)
    BY FlowAssumption
  <2>3. found[k] = IF k = 0 THEN {start} ELSE found[k - 1] \cup AllSuccessors(G, found[k - 1])
    BY <1>1, <2>2 DEF Finds
  <2>4. k # 0
    BY <2>2, <2>3
  <2>5. k - 1 \in 0..MaxDepth /\ k - 1 \notin bad
    BY <2>1, <2>4, FlowAssumption
  <2>6. found[k - 1] \subseteq closed
    BY <2>5
  <2>7. AllSuccessors(G, found[k - 1]) \subseteq AllSuccessors(G, closed)
    BY <2>6 DEF AllSuccessors
  <2>8. QED  BY <2>2, <2>3, <2>4, <2>6, <2>7
<1>3. MaxDepth \in 0..MaxDepth
  BY FlowAssumption
<1>4. QED  BY <1>1, <1>2, <1>3

LEMMA WalkHasStart ==
  ASSUME NEW G, NEW start
  PROVE  start \in Walk(G, start)
<1>1. PICK found : Finds(G, start, found, MaxDepth) /\ Walk(G, start) = found[MaxDepth]
  BY WalkFinds
<1> DEFINE bad == {k \in Nat : k <= MaxDepth /\ start \notin found[k]}
<1>2. ASSUME bad # {} PROVE FALSE
  <2>1. PICK k \in bad : \A j \in bad : k <= j
    BY <1>2, LeastNatural
  <2>2. k \in 0..MaxDepth /\ start \notin found[k]
    BY FlowAssumption
  <2>3. found[k] = IF k = 0 THEN {start} ELSE found[k - 1] \cup AllSuccessors(G, found[k - 1])
    BY <1>1, <2>2 DEF Finds
  <2>4. k - 1 \in 0..MaxDepth /\ k - 1 \notin bad
    BY <2>1, <2>2, <2>3, FlowAssumption
  <2>5. QED  BY <2>2, <2>3, <2>4
<1>3. MaxDepth \in 0..MaxDepth
  BY FlowAssumption
<1>4. QED  BY <1>1, <1>2, <1>3

(* A walk of G is one of H if each edge of G leads somewhere H leads too,   *)
(* and nothing cuts off the walk of H.                                      *)
LEMMA WalkLifts ==
  ASSUME NEW G, NEW H, NEW start, AllSuccessors(H, Walk(H, start)) \subseteq Walk(H, start),
         \A x, y : <<x, y>> \in G.edge =>
           \/ <<x, y>> \in H.edge /\ y \in H.node
           \/ \E q \in H.node : <<x, q>> \in H.edge /\ <<q, y>> \in H.edge /\ y \in H.node
  PROVE  Walk(G, start) \subseteq Walk(H, start)
<1>1. PICK walk : walk = Walk(H, start)
  OBVIOUS
<1>2. \A x \in walk : \A y \in H.node : <<x, y>> \in H.edge => y \in walk
  BY <1>1 DEF AllSuccessors, Successors
<1>3. AllSuccessors(G, walk) \subseteq walk
  <2>1. ASSUME NEW x \in walk, NEW y, <<x, y>> \in G.edge PROVE y \in walk
    BY <1>2, <2>1
  <2>2. QED  BY <2>1 DEF AllSuccessors, Successors
<1>4. QED  BY <1>1, <1>3, WalkHasStart, WalkKeepsTo
------------------------------------------------------------------------------
(* The connections of a netlist: its ports ps, its nets ns, and the blocks  *)
(* of it that are composites.                                               *)

Composites == {b \in DOMAIN blocks : blocks[b].kind = "composite"}

BehindOf(ps, ns, comps) == [node |-> ps, edge |-> {n \in ns : n[1][1] \in comps}]
DrivingOf(ps, ns, comps) ==
  [node |-> ps, edge |-> {<<n[2], n[1]>> : n \in {m \in ns : m[2][1] \in comps}}]

Ends(G) == G.node \ {e[1] : e \in G.edge}

Connects(ps, ns, comps, a, b) ==
  \E n \in ns :
    /\ \E p \in Walk(DrivingOf(ps, ns, comps), n[1]) \cap Ends(DrivingOf(ps, ns, comps)) : a = p[1]
    /\ \E p \in Walk(BehindOf(ps, ns, comps), n[2]) \cap Ends(BehindOf(ps, ns, comps)) : b = p[1]

LEMMA GraphsAre ==
  /\ Behind = BehindOf(DOMAIN ports, DOMAIN nets, Composites)
  /\ Driving = DrivingOf(DOMAIN ports, DOMAIN nets, Composites)
<1>1. \A b : IsComposite(b) <=> b \in Composites
  BY DEF IsComposite, Composites
<1>2. QED  BY <1>1 DEF Behind, Driving, BehindOf, DrivingOf

LEMMA UnrolledIs ==
  ASSUME NEW G, NEW p \in G.node
  PROVE  Unrolled(G)[p] = {q[1] : q \in Walk(G, p) \cap Ends(G)}
  BY DEF Unrolled, Ends

LEMMA ConnectionsAre ==
  ASSUME NetsHold, NEW a, NEW b
  PROVE  <<a, b>> \in Connections <=>
           a \in Ids /\ b \in Ids /\ Connects(DOMAIN ports, DOMAIN nets, Composites, a, b)
<1>1. PICK G, H : G = Behind /\ H = Driving
  OBVIOUS
<1>2. \A n \in DOMAIN nets : n[1] \in H.node /\ n[2] \in G.node
  BY <1>1 DEF NetsHold, Behind, Driving
<1>3. Connections = (UNION {Unrolled(H)[n[1]] \X Unrolled(G)[n[2]] : n \in DOMAIN nets})
                      \cap (Ids \X Ids)
  BY <1>1 DEF Connections, PairsOf
<1>4. <<a, b>> \in Connections <=>
        /\ a \in Ids /\ b \in Ids
        /\ \E n \in DOMAIN nets : a \in Unrolled(H)[n[1]] /\ b \in Unrolled(G)[n[2]]
  BY <1>3
<1>5. ASSUME NEW n \in DOMAIN nets
      PROVE  /\ a \in Unrolled(H)[n[1]] <=> \E p \in Walk(H, n[1]) \cap Ends(H) : a = p[1]
             /\ b \in Unrolled(G)[n[2]] <=> \E p \in Walk(G, n[2]) \cap Ends(G) : b = p[1]
  BY <1>2, UnrolledIs
<1>6. /\ G = BehindOf(DOMAIN ports, DOMAIN nets, Composites)
      /\ H = DrivingOf(DOMAIN ports, DOMAIN nets, Composites)
  BY <1>1, GraphsAre
<1>7. Connects(DOMAIN ports, DOMAIN nets, Composites, a, b) <=>
        \E n \in DOMAIN nets : /\ \E p \in Walk(H, n[1]) \cap Ends(H) : a = p[1]
                               /\ \E p \in Walk(G, n[2]) \cap Ends(G) : b = p[1]
  BY <1>6 DEF Connects
<1>8. QED  BY <1>4, <1>5, <1>7

(* A net that is led through a port of the box, and what stands for it.     *)
LedBy(box, n, new) == \E q : q[1] = box /\ <<n[1], q>> \in new /\ <<q, n[2]>> \in new
StandsFor(box, ns, m) == \E n \in ns : \E q : q[1] = box /\ (m = <<n[1], q>> \/ m = <<q, n[2]>>)

(* The netlist drawn with a box: every net is there or led through it, and  *)
(* there is no other.                                                       *)
Boxed(box, ps, ns, comps, newps, new, newcomps) ==
  /\ ps \subseteq newps /\ \A p \in ps : p[1] # box
  /\ ns \subseteq ps \X ps /\ new \subseteq newps \X newps
  /\ comps \subseteq newcomps /\ newcomps \subseteq comps \cup {box} /\ box \in newcomps
  /\ \A n \in ns : n \in new \/ LedBy(box, n, new)
  /\ \A m \in new : m \in ns \/ StandsFor(box, ns, m)

LEMMA NothingIsLost ==
  ASSUME NEW box, NEW ps, NEW ns, NEW comps, NEW newps, NEW new, NEW newcomps,
         Boxed(box, ps, ns, comps, newps, new, newcomps),
         Exhausts(BehindOf(newps, new, newcomps)), Exhausts(DrivingOf(newps, new, newcomps)),
         NEW a, NEW b, Connects(ps, ns, comps, a, b)
  PROVE  Connects(newps, new, newcomps, a, b)
<1>1. PICK G, H : G = BehindOf(ps, ns, comps) /\ H = DrivingOf(ps, ns, comps)
  OBVIOUS
<1>2. PICK G2, H2 : G2 = BehindOf(newps, new, newcomps) /\ H2 = DrivingOf(newps, new, newcomps)
  OBVIOUS
<1>3. PICK n, s, t :
        /\ n \in ns /\ s \in Walk(H, n[1]) \cap Ends(H) /\ t \in Walk(G, n[2]) \cap Ends(G)
        /\ a = s[1] /\ b = t[1]
  BY <1>1 DEF Connects
<1>4. /\ G.node = ps /\ \A x, y : <<x, y>> \in G.edge <=> <<x, y>> \in ns /\ x[1] \in comps
      /\ G2.node = newps /\ \A x, y : <<x, y>> \in G2.edge <=> <<x, y>> \in new /\ x[1] \in newcomps
  BY <1>1, <1>2 DEF BehindOf
<1>5. /\ H.node = ps /\ \A x, y : <<x, y>> \in H.edge <=> <<y, x>> \in ns /\ x[1] \in comps
      /\ H2.node = newps /\ \A x, y : <<x, y>> \in H2.edge <=> <<y, x>> \in new /\ x[1] \in newcomps
  BY <1>1, <1>2 DEF DrivingOf, Boxed
<1>6. ASSUME NEW x, NEW y, <<x, y>> \in ns
      PROVE  \/ <<x, y>> \in new /\ x \in newps /\ y \in newps
             \/ \E q : /\ q[1] = box /\ q \in newps /\ x \in newps /\ y \in newps
                       /\ <<x, q>> \in new /\ <<q, y>> \in new
  BY <1>6 DEF Boxed, LedBy
<1>7. ASSUME NEW x, NEW y, <<x, y>> \in G.edge
      PROVE  \/ <<x, y>> \in G2.edge /\ y \in G2.node
             \/ \E q \in G2.node : <<x, q>> \in G2.edge /\ <<q, y>> \in G2.edge /\ y \in G2.node
  BY <1>4, <1>6, <1>7 DEF Boxed
<1>8. ASSUME NEW x, NEW y, <<x, y>> \in H.edge
      PROVE  \/ <<x, y>> \in H2.edge /\ y \in H2.node
             \/ \E q \in H2.node : <<x, q>> \in H2.edge /\ <<q, y>> \in H2.edge /\ y \in H2.node
  <2>1. <<y, x>> \in ns /\ x[1] \in newcomps /\ box \in newcomps
    BY <1>5, <1>8 DEF Boxed
  <2>2. CASE <<y, x>> \in new /\ y \in newps
    BY <1>5, <2>1, <2>2
  <2>3. CASE \E q : /\ q[1] = box /\ q \in newps /\ y \in newps
                    /\ <<y, q>> \in new /\ <<q, x>> \in new
    <3>1. PICK q : /\ q[1] = box /\ q \in newps /\ y \in newps
                   /\ <<y, q>> \in new /\ <<q, x>> \in new
      BY <2>3
    <3>2. <<x, q>> \in H2.edge /\ <<q, y>> \in H2.edge
      BY <1>5, <2>1, <3>1
    <3>3. QED  BY <1>5, <3>1, <3>2
  <2>4. QED  BY <1>6, <2>1, <2>2, <2>3
<1>9. ASSUME NEW p \in newps
      PROVE  Walk(G, p) \subseteq Walk(G2, p) /\ Walk(H, p) \subseteq Walk(H2, p)
  <2>1. /\ AllSuccessors(G2, Walk(G2, p)) \subseteq Walk(G2, p)
        /\ AllSuccessors(H2, Walk(H2, p)) \subseteq Walk(H2, p)
    BY <1>2, <1>4, <1>5 DEF Exhausts
  <2>2. Walk(G, p) \subseteq Walk(G2, p)
    BY <1>7, <2>1, WalkLifts
  <2>3. Walk(H, p) \subseteq Walk(H2, p)
    BY <1>8, <2>1, WalkLifts
  <2>4. QED  BY <2>2, <2>3
<1>10. ASSUME NEW x, NEW y, <<x, y>> \in new, x[1] # box
       PROVE  \E z : <<x, z>> \in ns
  <2>1. CASE <<x, y>> \in ns
    BY <2>1
  <2>2. CASE StandsFor(box, ns, <<x, y>>)
    <3>1. PICK m, q : m \in ns /\ q[1] = box /\ (<<x, y>> = <<m[1], q>> \/ <<x, y>> = <<q, m[2]>>)
      BY <2>2 DEF StandsFor
    <3>2. m = <<m[1], m[2]>> /\ x = m[1]
      BY <1>10, <3>1 DEF Boxed
    <3>3. QED  BY <3>1, <3>2
  <2>3. QED  BY <1>10, <2>1, <2>2 DEF Boxed
<1>11. ASSUME NEW x, NEW y, <<x, y>> \in new, y[1] # box
       PROVE  \E z : <<z, y>> \in ns
  <2>1. CASE <<x, y>> \in ns
    BY <2>1
  <2>2. CASE StandsFor(box, ns, <<x, y>>)
    <3>1. PICK m, q : m \in ns /\ q[1] = box /\ (<<x, y>> = <<m[1], q>> \/ <<x, y>> = <<q, m[2]>>)
      BY <2>2 DEF StandsFor
    <3>2. m = <<m[1], m[2]>> /\ y = m[2]
      BY <1>11, <3>1 DEF Boxed
    <3>3. QED  BY <3>1, <3>2
  <2>3. QED  BY <1>11, <2>1, <2>2 DEF Boxed
<1>12. t \in Ends(G2)
  <2>1. t \in ps /\ t \in newps /\ t[1] # box /\ \A y : <<t, y>> \notin G.edge
    <3>1. t \in G.node /\ \A e \in G.edge : e[1] # t
      BY <1>3 DEF Ends
    <3>2. ASSUME NEW y, <<t, y>> \in G.edge PROVE FALSE
      <4>1. <<t, y>>[1] = t
        OBVIOUS
      <4>2. QED  BY <3>1, <3>2, <4>1, Zenon
    <3>3. QED  BY <1>4, <3>1, <3>2 DEF Boxed
  <2>2. ASSUME NEW e \in G2.edge, e[1] = t PROVE FALSE
    <3>1. e \in new /\ e = <<t, e[2]>> /\ t[1] \in newcomps
      BY <1>2, <2>2 DEF BehindOf, Boxed
    <3>2. \E z : <<t, z>> \in ns
      BY <1>10, <2>1, <3>1
    <3>3. QED  BY <1>4, <2>1, <3>1, <3>2 DEF Boxed
  <2>3. QED  BY <1>4, <2>1, <2>2 DEF Ends
<1>13. s \in Ends(H2)
  <2>1. s \in ps /\ s \in newps /\ s[1] # box /\ \A y : <<s, y>> \notin H.edge
    <3>1. s \in H.node /\ \A e \in H.edge : e[1] # s
      BY <1>3 DEF Ends
    <3>2. ASSUME NEW y, <<s, y>> \in H.edge PROVE FALSE
      <4>1. <<s, y>>[1] = s
        OBVIOUS
      <4>2. QED  BY <3>1, <3>2, <4>1, Zenon
    <3>3. QED  BY <1>5, <3>1, <3>2 DEF Boxed
  <2>2. ASSUME NEW e \in H2.edge, e[1] = s PROVE FALSE
    <3>1. <<e[2], s>> \in new /\ s[1] \in newcomps
      BY <1>2, <2>2 DEF DrivingOf, Boxed
    <3>2. \E z : <<z, s>> \in ns
      BY <1>11, <2>1, <3>1
    <3>3. QED  BY <1>5, <2>1, <3>1, <3>2 DEF Boxed
  <2>3. QED  BY <1>5, <2>1, <2>2 DEF Ends
<1>14. n[1] \in newps /\ n[2] \in newps /\ n = <<n[1], n[2]>>
  BY <1>3 DEF Boxed
<1>15. s \in Walk(H2, n[1]) /\ t \in Walk(G2, n[2])
  BY <1>3, <1>9, <1>14
<1>16. CASE n \in new
  BY <1>2, <1>3, <1>12, <1>13, <1>15, <1>16 DEF Connects
<1>17. CASE n \notin new
  <2>1. PICK q : q[1] = box /\ <<n[1], q>> \in new /\ <<q, n[2]>> \in new
    BY <1>3, <1>17 DEF Boxed, LedBy
  <2>2. q \in newps /\ <<q, n[2]>> \in G2.edge
    BY <1>4, <2>1 DEF Boxed
  <2>3. n[2] \in Walk(G2, q)
    <3>1. q \in Walk(G2, q) /\ AllSuccessors(G2, Walk(G2, q)) \subseteq Walk(G2, q)
      BY <1>2, <1>4, <2>2, WalkHasStart DEF Exhausts
    <3>2. QED  BY <1>4, <1>14, <2>2, <3>1 DEF AllSuccessors, Successors
  <2>4. t \in Walk(G2, q)
    <3>1. PICK walk : walk = Walk(G2, q)
      OBVIOUS
    <3>2. AllSuccessors(G2, walk) \subseteq walk /\ n[2] \in walk
      BY <1>2, <1>4, <2>2, <2>3, <3>1 DEF Exhausts
    <3>3. Walk(G2, n[2]) \subseteq walk
      BY <3>2, WalkKeepsTo
    <3>4. QED  BY <1>15, <3>1, <3>3
  <2>5. PICK m \in new : m = <<n[1], q>>
    BY <2>1
  <2>6. s \in Walk(H2, m[1]) /\ t \in Walk(G2, m[2])
    BY <1>15, <2>4, <2>5
  <2>7. QED  BY <1>2, <1>3, <1>12, <1>13, <2>5, <2>6 DEF Connects
<1>18. QED  BY <1>16, <1>17
------------------------------------------------------------------------------
(* The plan of an encapsulation in full.                                    *)

(* The two nets that stand for a crossing net.                              *)
Outer(S, box, n) == <<n[1], Shared(S, box, n)>>
Inner(S, box, n) == <<Shared(S, box, n), n[2]>>

IsNet(w, m) == w.tag = "net" /\ w.net = m
IsPort(w, q) == w.tag = "port" /\ w.port = q

LEMMA RedirectHas ==
  ASSUME NEW S, NEW box, NEW n
  PROVE  /\ \A i \in 1..3 : LET w == Redirect(S, box, n)[i]
                            IN  w = Unnet(n) \/ IsNet(w, Outer(S, box, n)) \/ IsNet(w, Inner(S, box, n))
         /\ \E i \in 1..3 : IsNet(Redirect(S, box, n)[i], Outer(S, box, n))
         /\ \E i \in 1..3 : IsNet(Redirect(S, box, n)[i], Inner(S, box, n))
<1> DEFINE outer == PutNet(n[1], Shared(S, box, n), nets[n].kind, TRUE, FALSE)
           inner == PutNet(Shared(S, box, n), n[2], nets[n].kind, TRUE, FALSE)
<1>1. IsNet(outer, Outer(S, box, n)) /\ IsNet(inner, Inner(S, box, n))
  BY DEF IsNet, Outer, Inner, PutNet
<1>2. Redirect(S, box, n) = <<Unnet(n), outer, inner>> \/ Redirect(S, box, n) = <<Unnet(n), inner, outer>>
  BY DEF Redirect, Unnet
<1> HIDE DEF outer, inner
<1>3. PICK x, y : /\ Redirect(S, box, n) = <<Unnet(n), x, y>>
                  /\ {x, y} = {outer, inner}
  BY <1>2
<1>4. <<Unnet(n), x, y>>[1] = Unnet(n) /\ <<Unnet(n), x, y>>[2] = x /\ <<Unnet(n), x, y>>[3] = y
  OBVIOUS
<1>5. (x = outer \/ x = inner) /\ (y = outer \/ y = inner)
      /\ (x = outer \/ y = outer) /\ (x = inner \/ y = inner)
  BY <1>3
<1>6. \A i \in 1..3 : i = 1 \/ i = 2 \/ i = 3
  OBVIOUS
<1>7. QED  BY <1>1, <1>3, <1>4, <1>5, <1>6

LEMMA ThirdsOf ==
  ASSUME NEW n \in Nat, NEW k \in 1..n, NEW j \in 1..3
  PROVE  \E i \in 1..(3 * n) : ((i - 1) \div 3) + 1 = k /\ ((i - 1) % 3) + 1 = j
<1>1. PICK i \in Int : i = 3 * (k - 1) + j
  OBVIOUS
<1>2. i \in 1..(3 * n) /\ ((i - 1) \div 3) + 1 = k /\ ((i - 1) % 3) + 1 = j
  BY <1>1
<1>3. QED  BY <1>2

LEMMA RedirectsHave ==
  ASSUME PortsHold, NetsHold, NEW S, NEW box \in Ids
  PROVE  /\ \A i \in 1..Len(Redirects(S, box)) : \E n \in Crossing(S) :
              LET w == Redirects(S, box)[i]
              IN  w = Unnet(n) \/ IsNet(w, Outer(S, box, n)) \/ IsNet(w, Inner(S, box, n))
         /\ \A n \in Crossing(S) :
              /\ \E i \in 1..Len(Redirects(S, box)) : IsNet(Redirects(S, box)[i], Outer(S, box, n))
              /\ \E i \in 1..Len(Redirects(S, box)) : IsNet(Redirects(S, box)[i], Inner(S, box, n))
<1> DEFINE order == SetToSeq(Crossing(S))
<1>1. order \in Seq(Crossing(S)) /\ \A n \in Crossing(S) : \E k \in 1..Len(order) : order[k] = n
  BY CrossingIs, SetToSeqIs
<1>2. PICK len \in Nat : len = Len(order)
  BY <1>1
<1>3. Redirects(S, box) = [i \in 1..(3 * len) |->
         Redirect(S, box, order[((i - 1) \div 3) + 1])[((i - 1) % 3) + 1]]
  BY <1>2 DEF Redirects
<1>4. \A k \in 1..len : order[k] \in Crossing(S)
  BY <1>1, <1>2
<1> HIDE DEF order
<1>5. Redirects(S, box) \in Seq(NetErasure \cup BoxNets(box))
  BY RedirectsAre
<1>6. Len(Redirects(S, box)) = 3 * len
  BY <1>2, <1>3, <1>5
<1>7. ASSUME NEW i \in 1..(3 * len)
      PROVE  \E n \in Crossing(S) :
               LET w == Redirects(S, box)[i]
               IN  w = Unnet(n) \/ IsNet(w, Outer(S, box, n)) \/ IsNet(w, Inner(S, box, n))
  <2>1. PICK k \in 1..len, j \in 1..3 : k = ((i - 1) \div 3) + 1 /\ j = ((i - 1) % 3) + 1
    BY Thirds
  <2>2. Redirects(S, box)[i] = Redirect(S, box, order[k])[j]
    BY <1>3, <2>1
  <2>3. QED  BY <1>4, <2>2, RedirectHas
<1>8. ASSUME NEW n \in Crossing(S), NEW j \in 1..3
      PROVE  \E i \in 1..(3 * len) : Redirects(S, box)[i] = Redirect(S, box, n)[j]
  <2>1. PICK k \in 1..len : order[k] = n
    BY <1>1, <1>2
  <2>2. PICK i \in 1..(3 * len) : ((i - 1) \div 3) + 1 = k /\ ((i - 1) % 3) + 1 = j
    BY ThirdsOf
  <2>3. QED  BY <1>3, <2>1, <2>2
<1>9. ASSUME NEW n \in Crossing(S)
      PROVE  /\ \E i \in 1..(3 * len) : IsNet(Redirects(S, box)[i], Outer(S, box, n))
             /\ \E i \in 1..(3 * len) : IsNet(Redirects(S, box)[i], Inner(S, box, n))
  <2>1. PICK j \in 1..3 : IsNet(Redirect(S, box, n)[j], Outer(S, box, n))
    BY RedirectHas
  <2>2. PICK k \in 1..3 : IsNet(Redirect(S, box, n)[k], Inner(S, box, n))
    BY RedirectHas
  <2>3. PICK i \in 1..(3 * len) : Redirects(S, box)[i] = Redirect(S, box, n)[j]
    BY <1>8
  <2>4. PICK l \in 1..(3 * len) : Redirects(S, box)[l] = Redirect(S, box, n)[k]
    BY <1>8
  <2>5. IsNet(Redirects(S, box)[i], Outer(S, box, n)) /\ IsNet(Redirects(S, box)[l], Inner(S, box, n))
    BY <2>1, <2>2, <2>3, <2>4
  <2>6. QED  BY <2>5
<1>10. QED  BY <1>6, <1>7, <1>9

(* Every shared port of a crossing net is created.                          *)
LEMMA SharedPortsHave ==
  ASSUME PortsHold, NEW S, NEW box \in Ids, NEW n \in Crossing(S)
  PROVE  LET puts == {PutPort(<<box, k[1]>>, k[2], k[3]) : k \in Needs(S)}
         IN  \E i \in 1..Len(SetToSeq(puts)) : IsPort(SetToSeq(puts)[i], Shared(S, box, n))
<1> DEFINE puts == {PutPort(<<box, k[1]>>, k[2], k[3]) : k \in Needs(S)}
<1>1. IsFiniteSet(puts)
  BY BoxPortsFinite
<1>2. PICK k \in Needs(S) : k[1] = Own(S, n)[2]
  BY DEF Crossing
<1>3. PICK w \in puts : w = PutPort(<<box, k[1]>>, k[2], k[3])
  OBVIOUS
<1>4. IsPort(w, Shared(S, box, n))
  BY <1>2, <1>3 DEF IsPort, PutPort, Shared
<1> HIDE DEF puts
<1>5. \E i \in 1..Len(SetToSeq(puts)) : SetToSeq(puts)[i] = w
  BY <1>1, SetToSeqIs
<1>6. \E i \in 1..Len(SetToSeq(puts)) : IsPort(SetToSeq(puts)[i], Shared(S, box, n))
  BY <1>4, <1>5
<1>7. QED  BY <1>6 DEF puts

(* The ports come first.                                                    *)
Orderly(todo) ==
  \A j \in 1..Len(todo) : todo[j].tag = "port" =>
    \A i \in 1..j : todo[i].tag \in {"port", "block"}

(* The sequence s stands in all, after its first k elements.                *)
After(all, k, s) == \A i \in (k + 1)..(k + Len(s)) : all[i] = s[i - k]

LEMMA Placed ==
  ASSUME NEW W, NEW first, NEW s \in Seq(W), NEW t \in Seq(W), NEW u \in Seq(W),
         NEW all, Joins(all, first, s, t, u)
  PROVE  /\ Len(all) = 1 + Len(s) + Len(t) + Len(u)
         /\ all[1] = first
         /\ After(all, 1, s) /\ After(all, 1 + Len(s), t) /\ After(all, 1 + Len(s) + Len(t), u)
<1>1. Len(all) = 1 + Len(s) + Len(t) + Len(u) /\ all[1] = first
  BY DEF Joins
<1>2. After(all, 1, s)
  BY DEF Joins, After
<1>3. After(all, 1 + Len(s), t)
  BY DEF Joins, After
<1>4. After(all, 1 + Len(s) + Len(t), u)
  BY DEF Joins, After
<1>5. QED  BY <1>1, <1>2, <1>3, <1>4

Tagged(first, s, t, u) ==
  /\ first.tag = "block"
  /\ \A i \in 1..Len(s) : s[i].tag = "port"
  /\ \A i \in 1..Len(t) : t[i].tag \in {"net", "unnet"}
  /\ \A i \in 1..Len(u) : u[i].tag \in {"parent", "meta"}
Keeps(all, s, t) ==
  /\ \A i \in 1..Len(all) : all[i].tag \in {"net", "unnet"} =>
       \E j \in 1..Len(t) : all[i] = t[j]
  /\ \A i \in 1..Len(s) : \E j \in 1..Len(all) : all[j] = s[i]
  /\ \A i \in 1..Len(t) : \E j \in 1..Len(all) : all[j] = t[i]

LEMMA TagsPlaced ==
  ASSUME NEW W, NEW first, NEW s \in Seq(W), NEW t \in Seq(W), NEW u \in Seq(W),
         NEW all, Joins(all, first, s, t, u), Tagged(first, s, t, u)
  PROVE  Orderly(all) /\ Keeps(all, s, t)
<1>0. /\ first.tag = "block"
      /\ \A i \in 1..Len(s) : s[i].tag = "port"
      /\ \A i \in 1..Len(t) : t[i].tag \in {"net", "unnet"}
      /\ \A i \in 1..Len(u) : u[i].tag \in {"parent", "meta"}
  BY DEF Tagged
<1>1. PICK a \in Nat, b \in Nat, d \in Nat : a = Len(s) /\ b = Len(t) /\ d = Len(u)
  BY LenProperties
<1>2. Len(all) = 1 + a + b + d
  BY <1>1, Placed
<1>3. ASSUME NEW i \in 1..(1 + a + b + d)
      PROVE  \/ i = 1 /\ all[i].tag = "block"
             \/ i \in 2..(1 + a) /\ all[i].tag = "port"
             \/ i \in (2 + a)..(1 + a + b) /\ all[i].tag \in {"net", "unnet"} /\ all[i] = t[i - 1 - a]
             \/ i \in (2 + a + b)..(1 + a + b + d) /\ all[i].tag \in {"parent", "meta"}
  <2>1. CASE i = 1
    BY <1>0, <2>1, Placed
  <2>2. CASE i \in 2..(1 + a)
    <3>1. PICK j \in 1..a : j = i - 1
      BY <2>2
    <3>2. After(all, 1, s)
      BY Placed
    <3>3. all[i] = s[j]
      BY <1>1, <2>2, <3>1, <3>2 DEF After
    <3>4. s[j].tag = "port"
      BY <1>0, <1>1
    <3>5. QED  BY <2>2, <3>3, <3>4
  <2>3. CASE i \in (2 + a)..(1 + a + b)
    <3>1. PICK k \in Nat : k = 1 + a
      OBVIOUS
    <3>2. PICK j \in 1..b : j = i - k /\ j = i - 1 - a
      BY <2>3, <3>1
    <3>3. After(all, k, t)
      BY <1>1, <3>1, Placed
    <3>4. all[i] = t[j]
      BY <1>1, <2>3, <3>1, <3>2, <3>3 DEF After
    <3>5. t[j].tag \in {"net", "unnet"}
      BY <1>0, <1>1
    <3>6. QED  BY <2>3, <3>2, <3>4, <3>5
  <2>4. CASE i \in (2 + a + b)..(1 + a + b + d)
    <3>1. PICK k \in Nat : k = 1 + a + b
      OBVIOUS
    <3>2. PICK j \in 1..d : j = i - k
      BY <2>4, <3>1
    <3>3. After(all, k, u)
      BY <1>1, <3>1, Placed
    <3>4. all[i] = u[j]
      BY <1>1, <2>4, <3>1, <3>2, <3>3 DEF After
    <3>5. u[j].tag \in {"parent", "meta"}
      BY <1>0, <1>1
    <3>6. QED  BY <2>4, <3>4, <3>5
  <2>5. QED  BY <2>1, <2>2, <2>3, <2>4
<1>4. Orderly(all)
  <2>1. ASSUME NEW j \in 1..(1 + a + b + d), all[j].tag = "port", NEW i \in 1..j
        PROVE  all[i].tag \in {"port", "block"}
    <3>1. j \in 2..(1 + a)
      BY <1>3, <2>1
    <3>2. i \in 1..(1 + a + b + d) /\ i <= 1 + a
      BY <3>1
    <3>3. QED  BY <1>3, <3>2
  <2>2. QED  BY <1>2, <2>1 DEF Orderly
<1>5. ASSUME NEW i \in 1..(1 + a + b + d), all[i].tag \in {"net", "unnet"}
      PROVE  \E j \in 1..b : all[i] = t[j]
  <2>1. i \in (2 + a)..(1 + a + b) /\ all[i] = t[i - 1 - a]
    BY <1>3, <1>5
  <2>2. i - 1 - a \in 1..b
    BY <2>1
  <2>3. QED  BY <2>1, <2>2
<1>6. ASSUME NEW i \in 1..a PROVE \E j \in 1..(1 + a + b + d) : all[j] = s[i]
  <2>1. PICK j \in 2..(1 + a) : j = 1 + i
    OBVIOUS
  <2>2. j \in 1..(1 + a + b + d) /\ j - 1 = i
    BY <2>1
  <2>3. After(all, 1, s)
    BY Placed
  <2>4. all[j] = s[i]
    BY <1>1, <2>1, <2>2, <2>3 DEF After
  <2>5. QED  BY <2>2, <2>4
<1>7. ASSUME NEW i \in 1..b PROVE \E j \in 1..(1 + a + b + d) : all[j] = t[i]
  <2>1. PICK k \in Nat : k = 1 + a
    OBVIOUS
  <2>2. PICK j \in (k + 1)..(k + b) : j = k + i
    BY <2>1
  <2>3. j \in 1..(1 + a + b + d) /\ j - k = i
    BY <2>1, <2>2
  <2>4. After(all, k, t)
    BY <1>1, <2>1, Placed
  <2>5. all[j] = t[i]
    BY <1>1, <2>2, <2>3, <2>4 DEF After
  <2>6. QED  BY <2>3, <2>5
<1>8. QED  BY <1>1, <1>2, <1>4, <1>5, <1>6, <1>7 DEF Keeps

(* All that is planned about a crossing net, and nothing about any other.   *)
Plans(todo, S, box) ==
  /\ Orderly(todo)
  /\ \A i \in 1..Len(todo) :
       /\ todo[i].tag = "unnet" => todo[i].net \in Crossing(S)
       /\ todo[i].tag = "net" =>
            \E n \in Crossing(S) : todo[i].net \in {Outer(S, box, n), Inner(S, box, n)}
  /\ \A n \in Crossing(S) :
       /\ \E i \in 1..Len(todo) : IsPort(todo[i], Shared(S, box, n))
       /\ \E i \in 1..Len(todo) : IsNet(todo[i], Outer(S, box, n))
       /\ \E i \in 1..Len(todo) : IsNet(todo[i], Inner(S, box, n))

LEMMA PlanIs ==
  ASSUME BlocksHold, PortsHold, NetsHold, NEW S \in SUBSET DOMAIN blocks, NEW box \in Ids
  PROVE  Plans(CompositeWrites(S, box), S, box)
<1>1. PICK s \in Seq(BoxPorts(box)) : s = SetToSeq({PutPort(<<box, k[1]>>, k[2], k[3]) : k \in Needs(S)})
  BY BoxPortsAre
<1>2. PICK t \in Seq(NetErasure \cup BoxNets(box)) : t = Redirects(S, box)
  BY RedirectsAre
<1>3. PICK u \in Seq(BoxParents(box, S)) : u = Enclosing(S, box)
  BY BoxParentsAre
<1>4. PICK W, first, all :
        W = BoxWrites(box, S) /\ first = BoxWrite(box) /\ all = CompositeWrites(S, box)
  OBVIOUS
<1>5. Joins(all, first, s, t, u)
  BY <1>1, <1>2, <1>3, <1>4 DEF CompositeWrites, BoxWrite, Joins
<1>6. s \in Seq(W) /\ t \in Seq(W) /\ u \in Seq(W)
  BY <1>4 DEF BoxWrites
<1>7. \A i \in 1..Len(s) : s[i].tag = "port"
  BY DEF BoxPorts, PortWrite
<1>8. \A i \in 1..Len(t) : t[i].tag \in {"net", "unnet"}
  BY DEF BoxNets, NetWrite, NetErasure
<1>9. \A i \in 1..Len(u) : u[i].tag \in {"parent", "meta"}
  BY DEF BoxParents, ParentWrite, MetaWrite
<1>10. first.tag = "block"
  BY <1>4 DEF BoxWrite
<1>11. /\ Orderly(all)
       /\ \A i \in 1..Len(all) : all[i].tag \in {"net", "unnet"} => \E j \in 1..Len(t) : all[i] = t[j]
       /\ \A i \in 1..Len(s) : \E j \in 1..Len(all) : all[j] = s[i]
       /\ \A i \in 1..Len(t) : \E j \in 1..Len(all) : all[j] = t[i]
  <2>1. Tagged(first, s, t, u)
    BY <1>7, <1>8, <1>9, <1>10 DEF Tagged
  <2>2. Orderly(all) /\ Keeps(all, s, t)
    BY <1>5, <1>6, <2>1, TagsPlaced
  <2>3. QED  BY <2>2 DEF Keeps
<1>12. \A i \in 1..Len(t) : \E n \in Crossing(S) :
         t[i] = Unnet(n) \/ IsNet(t[i], Outer(S, box, n)) \/ IsNet(t[i], Inner(S, box, n))
  BY <1>2, RedirectsHave
<1>13. ASSUME NEW i \in 1..Len(all)
       PROVE  /\ all[i].tag = "unnet" => all[i].net \in Crossing(S)
              /\ all[i].tag = "net" =>
                   \E n \in Crossing(S) : all[i].net \in {Outer(S, box, n), Inner(S, box, n)}
  <2>1. SUFFICES ASSUME all[i].tag \in {"net", "unnet"}
                 PROVE  /\ all[i].tag = "unnet" => all[i].net \in Crossing(S)
                        /\ all[i].tag = "net" =>
                             \E n \in Crossing(S) : all[i].net \in {Outer(S, box, n), Inner(S, box, n)}
    OBVIOUS
  <2>2. PICK n \in Crossing(S) : all[i] = Unnet(n) \/ IsNet(all[i], Outer(S, box, n))
                                   \/ IsNet(all[i], Inner(S, box, n))
    BY <1>11, <1>12, <2>1
  <2>3. QED  BY <2>2 DEF Unnet, IsNet
<1>14. ASSUME NEW n \in Crossing(S)
       PROVE  /\ \E i \in 1..Len(all) : IsPort(all[i], Shared(S, box, n))
              /\ \E i \in 1..Len(all) : IsNet(all[i], Outer(S, box, n))
              /\ \E i \in 1..Len(all) : IsNet(all[i], Inner(S, box, n))
  <2>1. PICK i \in 1..Len(s) : IsPort(s[i], Shared(S, box, n))
    BY <1>1, SharedPortsHave
  <2>2. PICK j \in 1..Len(t) : IsNet(t[j], Outer(S, box, n))
    BY <1>2, RedirectsHave
  <2>3. PICK k \in 1..Len(t) : IsNet(t[k], Inner(S, box, n))
    BY <1>2, RedirectsHave
  <2>4. PICK x \in 1..Len(all), y \in 1..Len(all), z \in 1..Len(all) :
          all[x] = s[i] /\ all[y] = t[j] /\ all[z] = t[k]
    BY <1>11
  <2>5. QED  BY <2>1, <2>2, <2>3, <2>4
<1>15. QED  BY <1>4, <1>11, <1>13, <1>14 DEF Plans
------------------------------------------------------------------------------
(* The netlist while a composite is drawn: each net of the start is there   *)
(* to stay, or its two halves are there or to be written; what is there     *)
(* beside the nets of the start are halves of them.                         *)

Items(todo) == {todo[i] : i \in 1..Len(todo)}

HasPort(P, I, q) == q \in P \/ \E w \in I : IsPort(w, q)
HasNet(N, I, m) == m \in N \/ \E w \in I : IsNet(w, m)
Erases(w, n) == w.tag = "unnet" /\ w.net = n

Led(box, n, N, I) ==
  \E q : q[1] = box /\ HasNet(N, I, <<n[1], q>>) /\ HasNet(N, I, <<q, n[2]>>)
HalfOf(box, n, m, P, I) ==
  \E q : q[1] = box /\ HasPort(P, I, q) /\ (m = <<n[1], q>> \/ m = <<q, n[2]>>)

Drawing(box, ps, ns, P, N, I) ==
  /\ ps \subseteq P /\ \A p \in ps : p[1] # box
  /\ ns \subseteq ps \X ps
  /\ \A n \in ns : (n \in N /\ \A w \in I : ~ Erases(w, n)) \/ Led(box, n, N, I)
  /\ \A m \in N : m \in ns \/ StandsFor(box, ns, m)
  /\ \A w \in I : w.tag = "unnet" => w.net \in ns
  /\ \A w \in I : w.tag = "net" => \E n \in ns : HalfOf(box, n, w.net, P, I)

(* What a write does to the ports and the nets.                             *)
Turns(w, P, N, P2, N2) ==
  \/ w.tag \in {"block", "parent", "meta"} /\ P2 = P /\ N2 = N
  \/ w.tag = "port" /\ P2 = P \cup {w.port} /\ N2 = N
  \/ w.tag = "net" /\ P2 = P /\ N2 = N \cup {w.net}
  \/ w.tag = "unnet" /\ P2 = P /\ N2 = N \ {w.net}

LEMMA TailItems ==
  ASSUME NEW W, NEW s \in Seq(W), s # <<>>
  PROVE  /\ Items(Tail(s)) \subseteq Items(s) /\ Items(s) \subseteq Items(Tail(s)) \cup {Head(s)}
         /\ Head(s) \in Items(s)
         /\ Orderly(s) => Orderly(Tail(s))
         /\ Orderly(s) /\ Head(s).tag = "net" => \A w \in Items(s) : w.tag # "port"
<1>1. PICK len \in Nat \ {0} : len = Len(s)
  BY HeadAndTail
<1>2. Head(s) = s[1] /\ Len(Tail(s)) = len - 1
  BY <1>1, HeadAndTail
<1>3. \A i \in 2..len : Tail(s)[i - 1] = s[i]
  BY <1>1, HeadAndTail
<1>4. \A i \in 1..(len - 1) : i + 1 \in 2..len /\ (i + 1) - 1 = i
  BY <1>1
<1>5. ASSUME NEW i \in 1..(len - 1) PROVE Tail(s)[i] = s[i + 1] /\ i + 1 \in 1..len
  <2>1. PICK j \in 2..len : j = i + 1 /\ j - 1 = i
    BY <1>4
  <2>2. Tail(s)[j - 1] = s[j]
    BY <1>3
  <2>3. Tail(s)[i] = s[i + 1]
    BY <2>1, <2>2, Zenon
  <2>4. i + 1 \in 1..len
    BY <2>1
  <2>5. QED  BY <2>3, <2>4
<1>6. Items(Tail(s)) \subseteq Items(s)
  BY <1>1, <1>2, <1>5 DEF Items
<1>7. Items(s) \subseteq Items(Tail(s)) \cup {Head(s)}
  <2>1. ASSUME NEW i \in 1..len, i # 1 PROVE \E j \in 1..(len - 1) : s[i] = Tail(s)[j]
    <3>1. i \in 2..len /\ i - 1 \in 1..(len - 1)
      BY <2>1
    <3>2. QED  BY <1>3, <3>1
  <2>2. QED  BY <1>1, <1>2, <2>1 DEF Items
<1>8. Head(s) \in Items(s)
  BY <1>1, <1>2 DEF Items
<1>9. ASSUME Orderly(s) PROVE Orderly(Tail(s))
  <2>1. ASSUME NEW j \in 1..(len - 1), Tail(s)[j].tag = "port", NEW i \in 1..j
        PROVE  Tail(s)[i].tag \in {"port", "block"}
    <3>1. PICK k \in 1..len, l \in 1..len : k = j + 1 /\ l = i + 1 /\ l \in 1..k
      BY <2>1
    <3>2. i \in 1..(len - 1)
      BY <2>1
    <3>3. Tail(s)[j] = s[k] /\ Tail(s)[i] = s[l]
      BY <1>5, <3>1, <3>2
    <3>4. QED  BY <1>1, <1>9, <2>1, <3>1, <3>3 DEF Orderly
  <2>2. QED  BY <1>2, <2>1 DEF Orderly
<1>10. ASSUME Orderly(s), Head(s).tag = "net", NEW w \in Items(s) PROVE w.tag # "port"
  <2>1. PICK j \in 1..len : w = s[j]
    BY <1>1, <1>10 DEF Items
  <2>2. 1 \in 1..j
    BY <2>1
  <2>3. QED  BY <1>1, <1>2, <1>10, <2>1, <2>2 DEF Orderly
<1>11. QED  BY <1>6, <1>7, <1>8, <1>9, <1>10

LEMMA DrawingGoesOn ==
  ASSUME NEW box, NEW ps, NEW ns, NEW P, NEW N, NEW I, NEW w \in I, NEW P2, NEW N2, NEW I2,
         Drawing(box, ps, ns, P, N, I), Turns(w, P, N, P2, N2),
         I2 \subseteq I, I \subseteq I2 \cup {w}
  PROVE  Drawing(box, ps, ns, P2, N2, I2)
<1>1. /\ ps \subseteq P /\ \A p \in ps : p[1] # box
      /\ ns \subseteq ps \X ps
      /\ \A n \in ns : (n \in N /\ \A v \in I : ~ Erases(v, n)) \/ Led(box, n, N, I)
      /\ \A m \in N : m \in ns \/ StandsFor(box, ns, m)
      /\ \A v \in I : v.tag = "unnet" => v.net \in ns
      /\ \A v \in I : v.tag = "net" => \E n \in ns : HalfOf(box, n, v.net, P, I)
  BY DEF Drawing
<1>2. P \subseteq P2
  BY DEF Turns
<1>3. ASSUME NEW q, HasPort(P, I, q) PROVE HasPort(P2, I2, q)
  BY <1>2, <1>3 DEF HasPort, IsPort, Turns
<1>4. ASSUME NEW m, m \notin ns, HasNet(N, I, m) PROVE HasNet(N2, I2, m)
  BY <1>1, <1>4 DEF HasNet, IsNet, Turns
<1>5. ASSUME NEW n \in ns, NEW q, q[1] = box PROVE <<n[1], q>> \notin ns /\ <<q, n[2]>> \notin ns
  BY <1>1, <1>5
<1>6. ASSUME NEW n \in ns, Led(box, n, N, I) PROVE Led(box, n, N2, I2)
  <2>1. PICK q : q[1] = box /\ HasNet(N, I, <<n[1], q>>) /\ HasNet(N, I, <<q, n[2]>>)
    BY <1>6 DEF Led
  <2>2. HasNet(N2, I2, <<n[1], q>>) /\ HasNet(N2, I2, <<q, n[2]>>)
    BY <1>4, <1>5, <2>1
  <2>3. QED  BY <2>1, <2>2 DEF Led
<1>7. ASSUME NEW n \in ns, n \in N, \A v \in I : ~ Erases(v, n)
      PROVE  n \in N2 /\ \A v \in I2 : ~ Erases(v, n)
  BY <1>7 DEF Turns, Erases
<1>8. ASSUME NEW n, NEW m, HalfOf(box, n, m, P, I) PROVE HalfOf(box, n, m, P2, I2)
  BY <1>3, <1>8 DEF HalfOf
<1>9. ASSUME NEW m \in N2 PROVE m \in ns \/ StandsFor(box, ns, m)
  <2>1. CASE m \in N
    BY <1>1, <2>1
  <2>2. CASE m \notin N
    <3>1. w.tag = "net" /\ m = w.net
      BY <1>9, <2>2 DEF Turns
    <3>2. PICK n \in ns : HalfOf(box, n, m, P, I)
      BY <1>1, <3>1
    <3>3. QED  BY <3>2 DEF HalfOf, StandsFor
  <2>3. QED  BY <2>1, <2>2
<1>10. \A n \in ns : (n \in N2 /\ \A v \in I2 : ~ Erases(v, n)) \/ Led(box, n, N2, I2)
  BY <1>1, <1>6, <1>7
<1>11. \A v \in I2 : v.tag = "net" => \E n \in ns : HalfOf(box, n, v.net, P2, I2)
  BY <1>1, <1>8
<1>12. ps \subseteq P2 /\ \A v \in I2 : v.tag = "unnet" => v.net \in ns
  BY <1>1, <1>2
<1>13. QED  BY <1>1, <1>9, <1>10, <1>11, <1>12 DEF Drawing

(* When nothing is left to write, the box is drawn.                         *)
LEMMA DrawingEnds ==
  ASSUME NEW box, NEW ps, NEW ns, NEW P, NEW N, NEW comps, NEW newcomps,
         Drawing(box, ps, ns, P, N, {}), N \subseteq P \X P,
         comps \subseteq newcomps, newcomps \subseteq comps \cup {box}, box \in newcomps
  PROVE  Boxed(box, ps, ns, comps, P, N, newcomps)
<1>1. ASSUME NEW n \in ns, Led(box, n, N, {}) PROVE LedBy(box, n, N)
  BY <1>1 DEF Led, LedBy, HasNet
<1>2. QED  BY <1>1 DEF Drawing, Boxed
------------------------------------------------------------------------------
(* A composite under way that nobody overtook is a drawing of the netlist   *)
(* it was planned from.                                                     *)

Wired(r, comps, ps, ns) ==
  /\ Drawing(r.of, ps, ns, DOMAIN ports, DOMAIN nets, Items(r.todo)) /\ Orderly(r.todo)
  /\ comps \subseteq Composites /\ Composites \subseteq comps \cup {r.of}
  /\ r.of \in DOMAIN blocks => r.of \in Composites
  /\ \A a, b : <<a, b>> \in r.joined => Connects(ps, ns, comps, a, b)

WiringOK(r) ==
  r.op = "composite" /\ ~ r.overtaken => \E comps, ps, ns : Wired(r, comps, ps, ns)
WiringHolds == \A c \in Clients : WiringOK(request[c])

LEMMA WiringStays ==
  ASSUME NEW r, WiringOK(r), UNCHANGED flowVars
  PROVE  WiringOK(r)'
  BY DEF WiringOK, Wired, Composites, flowVars

(* Of a request that is overtaken nothing is asked.                         *)
LEMMA OvertakenIsFree ==
  ASSUME NEW r, RequestTyped(r)
  PROVE  WiringOK(Overtaken(r))'
<1>1. PICK o : o = Overtaken(r)
  OBVIOUS
<1>2. r \in RequestType
  BY DEF RequestTyped
<1>3. CASE r.op = "none"
  <2>1. o.op = "none"
    BY <1>1, <1>3 DEF Overtaken
  <2>2. WiringOK(o)'
    BY <2>1 DEF WiringOK
  <2>3. QED  BY <1>1, <2>2
<1>4. CASE r.op # "none"
  <2>1. o.overtaken = TRUE
    BY <1>1, <1>2, <1>4 DEF Overtaken, RequestType
  <2>2. WiringOK(o)'
    BY <2>1 DEF WiringOK
  <2>3. QED  BY <1>1, <2>2
<1>5. QED  BY <1>3, <1>4

LEMMA OnlyWiring ==
  ASSUME RequestsHold, NEW c \in Clients, NEW r, WiringOK(r)',
         request' = [d \in Clients |-> IF d = c THEN r ELSE Overtaken(request[d])]
  PROVE  WiringHolds'
<1>1. ASSUME NEW d \in Clients PROVE WiringOK(request[d])'
  <2>1. CASE d = c
    <3>1. request'[d] = r
      BY <2>1
    <3>2. QED  BY <3>1
  <2>2. CASE d # c
    <3>1. PICK old, o : old = request[d] /\ o = Overtaken(old)
      OBVIOUS
    <3>2. RequestTyped(old)
      BY <3>1 DEF RequestsHold, RequestOK
    <3>3. WiringOK(Overtaken(old))'
      BY <3>2, OvertakenIsFree
    <3>4. WiringOK(o)' /\ request'[d] = o
      BY <2>2, <3>1, <3>3
    <3>5. QED  BY <3>4
  <2>3. QED  BY <2>1, <2>2
<1>2. QED  BY <1>1 DEF WiringHolds

(* Where nothing is written, the others stay as they are.                   *)
LEMMA OnlyWiringAsked ==
  ASSUME RequestsHold, WiringHolds, NEW c \in Clients, NEW r, WiringOK(r)',
         UNCHANGED flowVars, request' = [request EXCEPT ![c] = r]
  PROVE  WiringHolds'
<1>1. ASSUME NEW d \in Clients PROVE WiringOK(request[d])'
  <2>1. CASE d = c
    <3>1. request'[d] = r
      BY <2>1 DEF RequestsHold
    <3>2. QED  BY <3>1
  <2>2. CASE d # c
    <3>1. PICK old : old = request[d] /\ old = request'[d]
      BY <2>2 DEF RequestsHold
    <3>2. WiringOK(old)
      BY <3>1 DEF WiringHolds
    <3>3. WiringOK(old)'
      BY <3>2, WiringStays
    <3>4. QED  BY <3>1, <3>3
  <2>3. QED  BY <2>1, <2>2
<1>2. QED  BY <1>1 DEF WiringHolds

LEMMA WiringEnds ==
  ASSUME RequestsHold, WiringHolds, NEW c \in Clients, UNCHANGED flowVars,
         request' = [request EXCEPT ![c] = Idle]
  PROVE  WiringHolds'
<1>1. PICK r : r = Idle
  OBVIOUS
<1>2. WiringOK(r)'
  BY <1>1, IdleIs DEF WiringOK
<1>3. QED  BY <1>1, <1>2, OnlyWiringAsked

(* A request that goes on needs a drawing only if it is a composite.        *)
LEMMA WiringProceeds ==
  ASSUME RequestsHold, WiringHolds, NEW c \in Clients, request[c].todo # <<>>, Proceeds(c),
         NEW r, r = request[c],
         r.op = "composite" /\ ~ r.overtaken => WiringOK(Rest(r))'
  PROVE  WiringHolds'
<1>1. RequestTyped(r) /\ r.todo # <<>>
  BY DEF RequestsHold, RequestOK
<1>2. PICK rest : rest = Rest(r)
  OBVIOUS
<1>3. WiringOK(rest)'
  <2>1. CASE r.op = "edit"
    <3>1. rest.op = "none"
      BY <1>1, <1>2, <2>1, RestIs, IdleIs
    <3>2. QED  BY <3>1 DEF WiringOK
  <2>2. CASE r.op = "composite" /\ r.overtaken
    <3>1. rest.overtaken = r.overtaken
      BY <1>1, <1>2, <2>2, RestIs
    <3>2. QED  BY <2>2, <3>1 DEF WiringOK
  <2>3. CASE r.op = "composite" /\ ~ r.overtaken
    BY <1>2, <2>3
  <2>4. QED  BY <1>1, <2>1, <2>2, <2>3, RestIs
<1>4. CASE Written(c)
  <2>1. request' = [d \in Clients |-> IF d = c THEN rest ELSE Overtaken(request[d])]
    BY <1>2, <1>4 DEF Written
  <2>2. QED  BY <1>3, <2>1, OnlyWiring
<1>5. CASE UNCHANGED flowVars /\ request' = [request EXCEPT ![c] = Rest(request[c])]
  <2>1. request' = [request EXCEPT ![c] = rest]
    BY <1>2, <1>5
  <2>2. QED  BY <1>3, <1>5, <2>1, OnlyWiringAsked
<1>6. QED  BY <1>4, <1>5 DEF Proceeds

LEMMA PlansDraw ==
  ASSUME BlocksHold, PortsHold, NetsHold, NEW S \in SUBSET DOMAIN blocks,
         NEW box, box \notin DOMAIN blocks, NEW todo, Plans(todo, S, box)
  PROVE  Drawing(box, DOMAIN ports, DOMAIN nets, DOMAIN ports, DOMAIN nets, Items(todo))
<1>1. PICK P, N, X, I : P = DOMAIN ports /\ N = DOMAIN nets /\ X = Crossing(S) /\ I = Items(todo)
  OBVIOUS
<1>2. N \subseteq P \X P /\ \A p \in P : p[1] # box
  BY <1>1 DEF NetsHold, PortsHold
<1>3. X \subseteq N
  BY <1>1, CrossingIs
<1>4. /\ \A w \in I : w.tag = "unnet" => w.net \in X
      /\ \A w \in I : w.tag = "net" =>
           \E n \in X : w.net = Outer(S, box, n) \/ w.net = Inner(S, box, n)
  BY <1>1 DEF Items, Plans
<1>5. \A n \in X : /\ \E w \in I : IsPort(w, Shared(S, box, n))
                   /\ \E w \in I : IsNet(w, Outer(S, box, n))
                   /\ \E w \in I : IsNet(w, Inner(S, box, n))
  BY <1>1 DEF Items, Plans
<1>6. ASSUME NEW n \in X PROVE Led(box, n, N, I)
  <2>1. PICK q : q = Shared(S, box, n)
    OBVIOUS
  <2>2. q[1] = box
    BY <2>1 DEF Shared
  <2>3. HasNet(N, I, <<n[1], q>>) /\ HasNet(N, I, <<q, n[2]>>)
    BY <1>5, <2>1 DEF HasNet, Outer, Inner
  <2>4. QED  BY <2>2, <2>3 DEF Led
<1>7. ASSUME NEW n \in N, n \notin X, NEW w \in I PROVE ~ Erases(w, n)
  BY <1>4, <1>7 DEF Erases
<1>8. ASSUME NEW w \in I, w.tag = "net" PROVE \E n \in N : HalfOf(box, n, w.net, P, I)
  <2>1. PICK n \in X : w.net = Outer(S, box, n) \/ w.net = Inner(S, box, n)
    BY <1>4, <1>8
  <2>2. PICK q : q = Shared(S, box, n)
    OBVIOUS
  <2>3. q[1] = box /\ HasPort(P, I, q)
    BY <1>5, <2>2 DEF Shared, HasPort
  <2>4. w.net = <<n[1], q>> \/ w.net = <<q, n[2]>>
    BY <2>1, <2>2 DEF Outer, Inner
  <2>5. HalfOf(box, n, w.net, P, I)
    BY <2>3, <2>4 DEF HalfOf
  <2>6. QED  BY <1>3, <2>5
<1>9. Drawing(box, P, N, P, N, I)
  BY <1>2, <1>3, <1>4, <1>6, <1>7, <1>8 DEF Drawing
<1>10. QED  BY <1>1, <1>9

(* Creating a composite plans the drawing.                                  *)
LEMMA WiringStarts ==
  ASSUME FlowInv, WiringHolds, NEW c \in Clients, Free(c),
         NEW S \in SUBSET DOMAIN blocks, CreateComposite(c, S)
  PROVE  WiringHolds'
<1>1. PICK box : box = Fresh
  OBVIOUS
<1>2. PICK todo : todo = CompositeWrites(S, box)
  OBVIOUS
<1>3. PICK r : r = BoxRequest(todo, box, S)
  OBVIOUS
<1>4. /\ Spare # spent /\ request' = [request EXCEPT ![c] = r] /\ UNCHANGED flowVars
  BY <1>1, <1>2, <1>3 DEF CreateComposite, BoxRequest
<1>5. BlocksHold /\ PortsHold /\ NetsHold /\ RequestsHold /\ CountsHold
  BY DEF FlowInv, TypesHold
<1>6. box \notin DOMAIN blocks /\ box \in Ids
  BY <1>1, <1>4, <1>5, FreshIs
<1>7. Plans(todo, S, box)
  BY <1>2, <1>5, <1>6, PlanIs
<1>8. Drawing(box, DOMAIN ports, DOMAIN nets, DOMAIN ports, DOMAIN nets, Items(todo))
  BY <1>5, <1>6, <1>7, PlansDraw
<1>9. Orderly(todo)
  BY <1>7 DEF Plans
<1>10. /\ r.op = "composite" /\ r.of = box /\ r.todo = todo /\ r.joined = Connections
  BY <1>3 DEF BoxRequest
<1>11. \A a, b : <<a, b>> \in r.joined => Connects(DOMAIN ports, DOMAIN nets, Composites, a, b)
  BY <1>5, <1>10, ConnectionsAre
<1>12. Wired(r, Composites, DOMAIN ports, DOMAIN nets)
  BY <1>6, <1>8, <1>9, <1>10, <1>11 DEF Wired
<1>13. WiringOK(r)
  BY <1>12 DEF WiringOK
<1>14. WiringOK(r)'
  BY <1>4, <1>13, WiringStays
<1>15. QED  BY <1>4, <1>5, <1>14, OnlyWiringAsked

(* Each write goes on with it.                                              *)
LEMMA WiringGoesOn ==
  ASSUME RequestsHold, WiringHolds, NEW c \in Clients, request[c].todo # <<>>,
         request[c].op = "composite", ~ request[c].overtaken, Proceeds(c),
         Turns(NextWrite(c), DOMAIN ports, DOMAIN nets, DOMAIN ports', DOMAIN nets'),
         Composites \subseteq Composites', Composites' \subseteq Composites \cup {request[c].of},
         request[c].of \in Composites'
  PROVE  WiringHolds'
<1>1. PICK old : old = request[c]
  OBVIOUS
<1>2. PICK r : r = Rest(old)
  OBVIOUS
<1>3. RequestTyped(old) /\ old.todo # <<>> /\ old.op = "composite" /\ ~ old.overtaken
  BY <1>1 DEF RequestsHold, RequestOK
<1>4. old.todo \in Seq(Write)
  BY <1>3 DEF RequestTyped, RequestType
<1>5. r.op = "composite" /\ r.of = old.of /\ r.todo = Tail(old.todo) /\ r.joined = old.joined
  BY <1>2, <1>3, RestIs
<1>6. PICK comps, ps, ns : Wired(old, comps, ps, ns)
  BY <1>1, <1>3 DEF WiringHolds, WiringOK
<1>7. PICK P, N, P2, N2, I, I2, w :
        /\ P = DOMAIN ports /\ N = DOMAIN nets /\ P2 = DOMAIN ports' /\ N2 = DOMAIN nets'
        /\ I = Items(old.todo) /\ I2 = Items(r.todo) /\ w = Head(old.todo)
  OBVIOUS
<1>8. w \in I /\ I2 \subseteq I /\ I \subseteq I2 \cup {w} /\ (Orderly(old.todo) => Orderly(r.todo))
  BY <1>3, <1>4, <1>5, <1>7, TailItems
<1>9. Drawing(old.of, ps, ns, P, N, I) /\ Orderly(old.todo)
  BY <1>6, <1>7 DEF Wired
<1>10. Turns(w, P, N, P2, N2)
  BY <1>1, <1>7 DEF NextWrite
<1>11. Drawing(r.of, ps, ns, P2, N2, I2)
  BY <1>5, <1>8, <1>9, <1>10, DrawingGoesOn
<1>12. comps \subseteq Composites' /\ Composites' \subseteq comps \cup {r.of} /\ r.of \in Composites'
  BY <1>1, <1>5, <1>6 DEF Wired
<1>13. \A a, b : <<a, b>> \in r.joined => Connects(ps, ns, comps, a, b)
  BY <1>5, <1>6 DEF Wired
<1>14. Wired(r, comps, ps, ns)'
  BY <1>7, <1>8, <1>9, <1>11, <1>12, <1>13 DEF Wired
<1>15. WiringOK(r)'
  BY <1>14 DEF WiringOK
<1>16. QED  BY <1>1, <1>2, <1>3, <1>15, WiringProceeds

LEMMA WiringWritesBlock ==
  ASSUME FlowInv, WiringHolds, NEW c \in Clients, WriteBlock(c)
  PROVE  WiringHolds'
<1>1. PICK w : w = NextWrite(c)
  OBVIOUS
<1>2. /\ request[c].todo # <<>> /\ w.tag = "block" /\ Proceeds(c) /\ UNCHANGED <<ports, nets>>
      /\ blocks' = [b \in DOMAIN blocks \cup {w.block} |->
                      IF b = w.block THEN [kind |-> w.kind, parent |-> w.parent] ELSE blocks[b]]
  BY <1>1 DEF WriteBlock, Under, Proceeds
<1>3. RequestsHold
  BY DEF FlowInv
<1>4. CASE request[c].op = "composite" /\ ~ request[c].overtaken
  <2>1. w \notin BoxWrites(request[c].of, request[c].children)
    BY <1>2 DEF BoxWrites, BoxPorts, BoxNets, BoxParents, PortWrite, NetWrite, ParentWrite,
                NetErasure, MetaWrite
  <2>2. request[c].of \notin DOMAIN blocks /\ w = BoxWrite(request[c].of)
    BY <1>1, <1>2, <1>3, <1>4, <2>1, NextIs
  <2>3. w.block = request[c].of /\ w.kind = "composite"
    BY <2>2 DEF BoxWrite
  <2>4. Composites' = Composites \cup {request[c].of}
    BY <1>2, <2>2, <2>3 DEF Composites
  <2>5. Turns(w, DOMAIN ports, DOMAIN nets, DOMAIN ports', DOMAIN nets')
    BY <1>2 DEF Turns
  <2>6. QED  BY <1>1, <1>2, <1>3, <1>4, <2>4, <2>5, WiringGoesOn
<1>5. CASE ~ (request[c].op = "composite" /\ ~ request[c].overtaken)
  <2>1. PICK r : r = request[c]
    OBVIOUS
  <2>2. QED  BY <1>2, <1>3, <1>5, <2>1, WiringProceeds
<1>6. QED  BY <1>4, <1>5

(* The other writes of a composite leave the kinds of the blocks alone.     *)
LEMMA WiringWrites ==
  ASSUME RequestsHold, WiringHolds, NEW c \in Clients,
         request[c].todo # <<>>, Proceeds(c), NextWrite(c).tag # "block",
         request[c].op = "composite" /\ ~ request[c].overtaken =>
           /\ Composites' = Composites
           /\ Turns(NextWrite(c), DOMAIN ports, DOMAIN nets, DOMAIN ports', DOMAIN nets')
  PROVE  WiringHolds'
<1>1. CASE request[c].op = "composite" /\ ~ request[c].overtaken
  <2>1. request[c].of \in DOMAIN blocks
    BY <1>1, BoxIsThere
  <2>2. WiringOK(request[c])
    BY DEF WiringHolds
  <2>3. request[c].of \in Composites
    BY <1>1, <2>1, <2>2 DEF WiringOK, Wired
  <2>4. QED  BY <1>1, <2>3, WiringGoesOn
<1>2. CASE ~ (request[c].op = "composite" /\ ~ request[c].overtaken)
  <2>1. PICK r : r = request[c]
    OBVIOUS
  <2>2. QED  BY <1>2, <2>1, WiringProceeds
<1>3. QED  BY <1>1, <1>2

LEMMA WiringEdits ==
  ASSUME RequestsHold, WiringHolds, NEW c \in Clients, request[c].todo # <<>>, Proceeds(c),
         NextWrite(c).tag \notin {"block", "port", "net", "unnet", "parent", "meta"}
  PROVE  WiringHolds'
<1>1. ~ (request[c].op = "composite" /\ ~ request[c].overtaken)
  BY BoxIsThere
<1>2. PICK r : r = request[c]
  OBVIOUS
<1>3. QED  BY <1>1, <1>2, WiringProceeds

(* A net that is passed over is there: its port was written before it.      *)
LEMMA PassedIsThere ==
  ASSUME RequestsHold, WiringHolds, NetsHold, NEW c \in Clients, request[c].todo # <<>>,
         request[c].op = "composite", ~ request[c].overtaken,
         NextWrite(c).tag = "net", ~ NewNet(c)
  PROVE  NextWrite(c).net \in DOMAIN nets
<1>1. PICK r : r = request[c]
  OBVIOUS
<1>2. PICK comps, ps, ns : Wired(r, comps, ps, ns)
  BY <1>1 DEF WiringHolds, WiringOK
<1>3. r.todo \in Seq(Write) /\ r.todo # <<>>
  BY <1>1 DEF RequestsHold, RequestOK, RequestTyped, RequestType
<1>4. PICK P, N, I, w :
        /\ P = DOMAIN ports /\ N = DOMAIN nets /\ I = Items(r.todo) /\ w = Head(r.todo)
  OBVIOUS
<1>5. w.tag = "net" /\ ~ (w.net \notin N /\ w.net[1] \in P /\ w.net[2] \in P)
  BY <1>1, <1>4 DEF NextWrite, NewNet
<1>6. w \in I /\ \A v \in I : v.tag # "port"
  BY <1>2, <1>3, <1>4, <1>5, TailItems DEF Wired
<1>7. Drawing(r.of, ps, ns, P, N, I)
  BY <1>2, <1>4 DEF Wired
<1>8. PICK n \in ns : HalfOf(r.of, n, w.net, P, I)
  BY <1>5, <1>6, <1>7 DEF Drawing
<1>9. PICK q : HasPort(P, I, q) /\ (w.net = <<n[1], q>> \/ w.net = <<q, n[2]>>)
  BY <1>8 DEF HalfOf
<1>10. q \in P
  BY <1>6, <1>9 DEF HasPort, IsPort
<1>11. n[1] \in P /\ n[2] \in P
  BY <1>7 DEF Drawing
<1>12. w.net[1] \in P /\ w.net[2] \in P
  BY <1>9, <1>10, <1>11
<1>13. QED  BY <1>1, <1>4, <1>5, <1>12 DEF NextWrite

LEMMA WiringStep ==
  ASSUME FlowInv, WiringHolds, [Next]_vars
  PROVE  WiringHolds'
<1>1. RequestsHold /\ NetsHold
  BY DEF FlowInv, TypesHold
<1>2. CASE UNCHANGED vars
  <2>1. ASSUME NEW c \in Clients PROVE WiringOK(request[c])'
    <3>1. PICK r : r = request[c] /\ r = request'[c]
      BY <1>2 DEF vars
    <3>2. WiringOK(r)'
      BY <1>2, <3>1, WiringStays DEF WiringHolds, vars, flowVars
    <3>3. QED  BY <3>1, <3>2
  <2>2. QED  BY <2>1 DEF WiringHolds
<1>3. ASSUME NEW c \in Clients, WriteBlock(c) PROVE WiringHolds'
  BY <1>3, WiringWritesBlock
<1>4. ASSUME NEW c \in Clients, WriteRow(c) PROVE WiringHolds'
  <2>1. PICK w : w = NextWrite(c)
    OBVIOUS
  <2>2. PICK row \in request[c].row : blocks' = [blocks EXCEPT ![w.block] = row]
    BY <1>4, <2>1 DEF WriteRow
  <2>3. /\ request[c].todo # <<>> /\ w.tag \in {"parent", "kind", "meta"} /\ Proceeds(c)
        /\ UNCHANGED <<ports, nets>> /\ w.block \in DOMAIN blocks
    BY <1>4, <2>1 DEF WriteRow, Under, Proceeds
  <2>4. BlocksHold /\ w \in Write
    BY <1>1, <2>1, <2>3, NextIs DEF FlowInv, TypesHold
  <2>5. ASSUME request[c].op = "composite", ~ request[c].overtaken
        PROVE  /\ Composites' = Composites
               /\ Turns(w, DOMAIN ports, DOMAIN nets, DOMAIN ports', DOMAIN nets')
    <3>1. row = RowOf(w)
      BY <1>1, <2>1, <2>2, <2>5 DEF RequestsHold, RequestOK, RowOK, NextWrite
    <3>2. w.tag \in {"parent", "meta"}
      BY <1>1, <2>1, <2>3, <2>5, BoxIsThere
    <3>3. row.kind = blocks[w.block].kind
      BY <2>3, <2>4, <3>1, <3>2, RowIs
    <3>4. /\ DOMAIN blocks' = DOMAIN blocks
          /\ \A b \in DOMAIN blocks : blocks'[b].kind = blocks[b].kind
      BY <2>2, <3>3
    <3>5. Composites' = Composites
      BY <3>4 DEF Composites
    <3>6. QED  BY <2>3, <3>2, <3>5 DEF Turns
  <2>6. QED  BY <1>1, <2>1, <2>3, <2>5, WiringWrites
<1>5. ASSUME NEW c \in Clients, EraseBlock(c) \/ WritePortKind(c) \/ ErasePort(c)
                                  \/ WriteNetKind(c)
      PROVE  WiringHolds'
  <2>1. /\ request[c].todo # <<>> /\ Proceeds(c)
        /\ NextWrite(c).tag \notin {"block", "port", "net", "unnet", "parent", "meta"}
    BY <1>5 DEF EraseBlock, WritePortKind, ErasePort, WriteNetKind, Under, Proceeds
  <2>2. QED  BY <1>1, <2>1, WiringEdits
<1>6. ASSUME NEW c \in Clients, WritePort(c) PROVE WiringHolds'
  <2>1. /\ request[c].todo # <<>> /\ NextWrite(c).tag = "port" /\ Proceeds(c)
        /\ UNCHANGED <<blocks, nets>> /\ DOMAIN ports' = DOMAIN ports \cup {NextWrite(c).port}
    BY <1>6 DEF WritePort, Under, Proceeds
  <2>2. Composites' = Composites
    BY <2>1 DEF Composites
  <2>3. Turns(NextWrite(c), DOMAIN ports, DOMAIN nets, DOMAIN ports', DOMAIN nets')
    BY <2>1 DEF Turns
  <2>4. QED  BY <1>1, <2>1, <2>2, <2>3, WiringWrites
<1>7. ASSUME NEW c \in Clients, WriteNet(c) PROVE WiringHolds'
  <2>1. /\ request[c].todo # <<>> /\ NextWrite(c).tag = "net" /\ Proceeds(c)
        /\ UNCHANGED <<blocks, ports>> /\ DOMAIN nets' = DOMAIN nets \cup {NextWrite(c).net}
    BY <1>7 DEF WriteNet, Under, Proceeds
  <2>2. Composites' = Composites
    BY <2>1 DEF Composites
  <2>3. Turns(NextWrite(c), DOMAIN ports, DOMAIN nets, DOMAIN ports', DOMAIN nets')
    BY <2>1 DEF Turns
  <2>4. QED  BY <1>1, <2>1, <2>2, <2>3, WiringWrites
<1>8. ASSUME NEW c \in Clients, PassNet(c) PROVE WiringHolds'
  <2>1. /\ request[c].todo # <<>> /\ NextWrite(c).tag = "net" /\ Proceeds(c) /\ ~ NewNet(c)
        /\ UNCHANGED <<blocks, ports, nets>>
    BY <1>8 DEF PassNet, Under, flowVars, Proceeds
  <2>2. Composites' = Composites
    BY <2>1 DEF Composites
  <2>3. request[c].op = "composite" /\ ~ request[c].overtaken =>
          Turns(NextWrite(c), DOMAIN ports, DOMAIN nets, DOMAIN ports', DOMAIN nets')
    <3>1. request[c].op = "composite" /\ ~ request[c].overtaken =>
            NextWrite(c).net \in DOMAIN nets
      BY <1>1, <2>1, PassedIsThere
    <3>2. QED  BY <2>1, <3>1 DEF Turns
  <2>4. QED  BY <1>1, <2>1, <2>2, <2>3, WiringWrites
<1>9. ASSUME NEW c \in Clients, EraseNet(c) PROVE WiringHolds'
  <2>1. /\ request[c].todo # <<>> /\ NextWrite(c).tag = "unnet" /\ Proceeds(c)
        /\ UNCHANGED <<blocks, ports>> /\ DOMAIN nets' = DOMAIN nets \ {NextWrite(c).net}
    BY <1>9 DEF EraseNet, Under, Proceeds
  <2>2. Composites' = Composites
    BY <2>1 DEF Composites
  <2>3. Turns(NextWrite(c), DOMAIN ports, DOMAIN nets, DOMAIN ports', DOMAIN nets')
    BY <2>1 DEF Turns
  <2>4. QED  BY <1>1, <2>1, <2>2, <2>3, WiringWrites
<1>10. ASSUME NEW c \in Clients, Fail(c) \/ Answer(c) PROVE WiringHolds'
  <2>1. UNCHANGED flowVars /\ request' = [request EXCEPT ![c] = Idle]
    BY <1>10 DEF Fail, Answer
  <2>2. QED  BY <1>1, <2>1, WiringEnds
<1>11. ASSUME NEW c \in Clients, ReadRow(c) PROVE WiringHolds'
  <2>1. PICK old, row : old = request[c] /\ row = {RowOf(NextWrite(c))}
    OBVIOUS
  <2>2. PICK r : r = [old EXCEPT !.row = row]
    OBVIOUS
  <2>3. UNCHANGED flowVars /\ request' = [request EXCEPT ![c] = r]
    BY <1>1, <1>11, <2>1, <2>2 DEF ReadRow, RequestsHold
  <2>4. old \in RequestType /\ WiringOK(old)
    BY <1>1, <2>1 DEF RequestsHold, RequestOK, RequestTyped, WiringHolds
  <2>5. /\ r.op = old.op /\ r.todo = old.todo /\ r.overtaken = old.overtaken
        /\ r.of = old.of /\ r.joined = old.joined
    BY <2>2, <2>4 DEF RequestType
  <2>6. WiringOK(r)
    BY <2>4, <2>5 DEF WiringOK, Wired
  <2>7. WiringOK(r)'
    BY <2>3, <2>6, WiringStays
  <2>8. QED  BY <1>1, <2>3, <2>7, OnlyWiringAsked
<1>12. ASSUME NEW c \in Clients, NEW writes, Ask(c, writes) PROVE WiringHolds'
  <2>1. PICK r : r = [Idle EXCEPT !.op = "edit", !.todo = writes]
    OBVIOUS
  <2>2. r.op = "edit" /\ request' = [request EXCEPT ![c] = r] /\ UNCHANGED flowVars
    BY <1>12, <2>1 DEF Ask, Idle
  <2>3. WiringOK(r)'
    BY <2>2 DEF WiringOK
  <2>4. QED  BY <1>1, <2>2, <2>3, OnlyWiringAsked
<1>13. ASSUME NEW c \in Clients, Request(c) PROVE WiringHolds'
  <2>1. CASE \E S \in SUBSET DOMAIN blocks : CreateComposite(c, S)
    BY <1>13, <2>1, WiringStarts DEF Request
  <2>2. CASE \E writes : Ask(c, writes)
    BY <1>12, <2>2
  <2>3. (\E S \in SUBSET DOMAIN blocks : CreateComposite(c, S)) \/ \E writes : Ask(c, writes)
    BY <1>13 DEF Request, AddBlock, Reparent, ChangeKind, DeleteBlock, AddPort, ChangePortKind,
         DeletePort, AddNet, UpdateNet, DeleteNet
  <2>4. QED  BY <2>1, <2>2, <2>3
<1>14. QED
  BY <1>2, <1>3, <1>4, <1>5, <1>6, <1>7, <1>8, <1>9, <1>10, <1>11, <1>13 DEF Next

LEMMA WiringInvariant == Spec => []WiringHolds
<1>1. Init => WiringHolds
  <2>1. Init => \A c \in Clients : request[c] = Idle
    BY DEF Init
  <2>2. QED  BY <2>1, IdleIs DEF WiringHolds, WiringOK
<1>2. FlowInv /\ WiringHolds /\ [Next]_vars => WiringHolds'
  BY WiringStep
<1>3. QED  BY <1>1, <1>2, FlowInvariant, PTL DEF Spec
------------------------------------------------------------------------------

(* However many clients edit the flow at once, keys and types hold: no      *)
(* edit, encapsulation, overtaken or broken-off request leaves a port       *)
(* without its block, a net without a port or a block under a parent that   *)
(* is not there (flow/service.py over the foreign keys of db.py).           *)
THEOREM FlowTypesHold == Spec => []FlowTypeOK
<1>1. FlowInv => FlowTypeOK
  BY DEF FlowInv, TypesHold, BlocksHold, PortsHold, NetsHold, CountsHold, FlowTypeOK,
         Block, Port, Net
<1>2. QED  BY <1>1, FlowInvariant, PTL

(* However many clients edit the flow, no block comes to lie under itself   *)
(* before a block is written by a request that was overtaken since it read  *)
(* the flow (flow/service.py _ensure_no_parent_cycle: the service owns      *)
(* this, the database does not).                                            *)
THEOREM HierarchyStaysAcyclic == Spec => []HierarchyIsAcyclic
<1>1. FlowInv => HierarchyIsAcyclic
  BY BelowIsBeneath DEF FlowInv, Forest, HierarchyIsAcyclic
<1>2. QED  BY <1>1, FlowInvariant, PTL

(* When a create_composite that nobody overtook is done, every net across   *)
(* its boundary passes by the composite, however many nets, children and    *)
(* shared ports there are.                                                  *)
THEOREM BoundaryStaysClosed == Spec => []BoundaryIsClosed
<1>1. ASSUME FlowInv, NEW c \in Clients, Encapsulated(c), NEW n \in External(request[c].children),
             ports[n[1]].direction = "output", ports[n[2]].direction = "input"
      PROVE  request[c].of \in {n[1][1], n[2][1]}
  <2>1. BoundaryOK(request[c]) /\ request[c].todo = <<>>
    BY <1>1 DEF FlowInv, RequestsHold, RequestOK, RequestTyped, CompositeOK, Encapsulated, Done
  <2>2. n \in DOMAIN nets /\ OnBoundary(request[c], n)
    BY <1>1 DEF OnBoundary, External
  <2>3. ~ \E i \in 1..Len(request[c].todo) : request[c].todo[i] = Unnet(n)
    BY <2>1
  <2>4. QED  BY <2>1, <2>2, <2>3 DEF BoundaryOK, Passes
<1>2. FlowInv => BoundaryIsClosed
  BY <1>1 DEF BoundaryIsClosed
<1>3. QED  BY <1>2, FlowInvariant, PTL

(* When a create_composite that nobody overtook is done, every two blocks   *)
(* that a net joined before are still joined, unless the check gives up on  *)
(* the longer way, and no net passes the boundary but through the           *)
(* composite: whatever the netlist and whoever edited it before, the        *)
(* children, the ports they share and the depth the check follows.          *)
THEOREM EncapsulationStaysSound == Spec => []EncapsulationIsSound
<1>1. ASSUME FlowInv, WiringHolds, NEW c \in Clients, Encapsulated(c),
             Exhausts(Behind), Exhausts(Driving)
      PROVE  request[c].joined \subseteq Connections
  <2>1. PICK r : r = request[c]
    OBVIOUS
  <2>2. /\ r.op = "composite" /\ ~ r.overtaken /\ r.todo = <<>> /\ BoxOK(r) /\ r \in RequestType
        /\ NetsHold
    BY <1>1, <2>1 DEF FlowInv, TypesHold, RequestsHold, RequestOK, RequestTyped, CompositeOK, Encapsulated, Done
  <2>3. PICK comps, ps, ns : Wired(r, comps, ps, ns)
    BY <1>1, <2>1, <2>2 DEF WiringHolds, WiringOK
  <2>4. r.of \in DOMAIN blocks
    BY <2>2 DEF BoxOK
  <2>5. /\ comps \subseteq Composites /\ Composites \subseteq comps \cup {r.of}
        /\ r.of \in Composites
        /\ \A a, b : <<a, b>> \in r.joined => Connects(ps, ns, comps, a, b)
    BY <2>3, <2>4 DEF Wired
  <2>6. Items(r.todo) = {}
    BY <2>2 DEF Items
  <2>7. PICK P, N, newcomps : P = DOMAIN ports /\ N = DOMAIN nets /\ newcomps = Composites
    OBVIOUS
  <2>8. N \subseteq P \X P
    BY <2>2, <2>7 DEF NetsHold
  <2>9. Drawing(r.of, ps, ns, P, N, {})
    BY <2>3, <2>6, <2>7 DEF Wired
  <2>10. Boxed(r.of, ps, ns, comps, P, N, newcomps)
    BY <2>5, <2>7, <2>8, <2>9, DrawingEnds
  <2>11. Exhausts(BehindOf(P, N, newcomps)) /\ Exhausts(DrivingOf(P, N, newcomps))
    BY <1>1, <2>7, GraphsAre
  <2>12. ASSUME NEW a \in Ids, NEW b \in Ids, <<a, b>> \in r.joined
         PROVE  <<a, b>> \in Connections
    <3>1. Connects(P, N, newcomps, a, b)
      BY <2>5, <2>10, <2>11, <2>12, NothingIsLost
    <3>2. QED  BY <2>2, <2>7, <3>1, ConnectionsAre
  <2>13. r.joined \subseteq Ids \X Ids
    BY <2>2 DEF RequestType
  <2>14. QED  BY <2>1, <2>12, <2>13
<1>2. FlowInv /\ WiringHolds => EncapsulationLosesNothing
  BY <1>1 DEF EncapsulationLosesNothing
<1>3. QED
  BY <1>2, FlowInvariant, WiringInvariant, BoundaryStaysClosed, PTL DEF EncapsulationIsSound
==============================================================================
