---------------------------- MODULE FlowNetlist ----------------------------
(* The netlist of one flow model: blocks, their ports, and the nets between *)
(* ports (flow/service.py over the flow_* operations of db.py).             *)
(*                                                                          *)
(* A service operation reads the flow, checks it, and then writes: each     *)
(* write is a transaction of its own, and nothing keeps the requests of     *)
(* other clients out between the reading and the writes.  A request is      *)
(* therefore the list of writes that remain; it can be overtaken by the     *)
(* writes of another, fail at a write, or die before one, and keeps what it *)
(* wrote.  The row of a block is written in two steps: the store reads it   *)
(* and writes all its columns back.  create_composite is the long request:  *)
(* it draws a composite around some blocks, and leads every net that        *)
(* crosses the new boundary through a port of the composite.                *)
EXTENDS Naturals, Sequences, FiniteSets, SequencesExt, Graphs

CONSTANTS
  Functions,     \* symbols of the code: one projected block each
  Spare,         \* identities for the blocks that are added later
  PortNames, Kinds,  \* names for added ports, semantic kinds beside control
  Evidence,      \* the sets of calls the indexed code may have
  Clients, None, \* requests that may be under way at once; no block
  MaxDepth,      \* how many nets the check follows (8 in the code)
  Allowances     \* bounds on the requests that each client makes

ASSUME FlowAssumption ==
  /\ IsFiniteSet(Functions) /\ IsFiniteSet(Spare) /\ IsFiniteSet(PortNames)
  /\ Functions \cap Spare = {} /\ None \notin Functions \cup Spare
  /\ \A calls \in Evidence : calls \subseteq Functions \X Functions
  /\ MaxDepth \in Nat /\ Allowances \subseteq [Clients -> Nat]

VARIABLES
  blocks,    \* identity -> kind and parent, for the blocks there are
  ports,     \* <<block, name>> -> direction and semantic kind
  nets,      \* <<source, target>> -> kind, and whether it is projected
  evidence,  \* the CALLS edges of the indexed code
  request,   \* client -> what it still has to write
  spent,     \* identities that have been given out
  allowed,   \* client -> how many requests it may still make
  raced      \* history: a block was written by a request that was overtaken

flowVars == <<blocks, ports, nets>>
vars == <<blocks, ports, nets, evidence, request, spent, allowed, raced>>

SemanticKinds == Kinds \cup {"control"}
Directions == {"input", "output"}
Ids == Functions \cup Spare
PortIds == Ids \X (PortNames \cup {"control_in", "control_out"})

In(b) == <<b, "control_in">>
Out(b) == <<b, "control_out">>
------------------------------------------------------------------------------
(* What the LVS-like check reads off the netlist.                           *)

(* The nodes that at most MaxDepth edges lead to.                           *)
Walk(G, start) ==
  LET found[k \in 0..MaxDepth] ==
        IF k = 0 THEN {start}
        ELSE LET near == found[k - 1] IN near \cup AllSuccessors(G, near)
  IN  found[MaxDepth]

IsComposite(b) == b \in DOMAIN blocks /\ blocks[b].kind = "composite"

(* A port of a composite stands for the ports behind it.  A path may only   *)
(* go on through a port its composite owns: forwards through the nets that  *)
(* leave it, backwards through those that reach it.                         *)
Behind == [node |-> DOMAIN ports,
           edge |-> {n \in DOMAIN nets : IsComposite(n[1][1])}]
Driving == [node |-> DOMAIN ports,
           edge |-> {<<n[2], n[1]>> : n \in {m \in DOMAIN nets : IsComposite(m[2][1])}}]

Unrolled(G) ==
  LET last == G.node \ {e[1] : e \in G.edge}
  IN  [p \in G.node |-> {q[1] : q \in Walk(G, p) \cap last}]

PairsOf(some) ==
  LET from == Unrolled(Driving)
      to == Unrolled(Behind)
  IN  UNION {from[n[1]] \X to[n[2]] : n \in some}

(* Every pair of blocks that some net joins, through composites or not.     *)
Connections == PairsOf(DOMAIN nets) \cap (Ids \X Ids)

(* Only the control nets between bound blocks are claims about calls.       *)
ExpectedCalls ==
  PairsOf({n \in DOMAIN nets : nets[n].kind = "control"}) \cap (Functions \X Functions)

MissingCalls == ExpectedCalls \ evidence
------------------------------------------------------------------------------
(* Requests: what is read and checked first, and the writes that follow.    *)

(* row holds the row that the store has read for the write at hand, if it   *)
(* has; overtaken, that another request has written since this one read the *)
(* flow.                                                                    *)
Idle == [op |-> "none", todo |-> <<>>, row |-> {}, overtaken |-> FALSE,
         of |-> None, children |-> {}, joined |-> {}, missing |-> {}]

Free(c) == request[c] = Idle /\ allowed[c] > 0

Ask(c, writes) ==
  /\ request' = [request EXCEPT ![c] = [Idle EXCEPT !.op = "edit", !.todo = writes]]
  /\ allowed' = [allowed EXCEPT ![c] = @ - 1]
  /\ UNCHANGED <<flowVars, evidence, raced>>

PutNet(s, t, kind, derived, must) ==
  [tag |-> "net", net |-> <<s, t>>, kind |-> kind, derived |-> derived, must |-> must]
PutPort(p, direction, kind) ==
  [tag |-> "port", port |-> p, direction |-> direction, kind |-> kind]
PutParent(b, parent) == [tag |-> "parent", block |-> b, parent |-> parent]

(* A new block gets an identity nothing else has had.                       *)
Fresh == CHOOSE b \in Spare : b \notin spent

AddBlock(c, kind, parent) ==
  /\ Spare # spent
  /\ Ask(c, <<[tag |-> "block", block |-> Fresh, kind |-> kind, parent |-> parent]>>)
  /\ spent' = spent \cup {Fresh}

(* A block may not be put under itself, nor under a block below it: what is *)
(* in every set that has the block and, with a block, its children.         *)
ChildrenOf(found) == {b \in DOMAIN blocks : blocks[b].parent \in found}

Below(b) ==
  {d \in DOMAIN blocks : \A found \in SUBSET DOMAIN blocks :
     b \in found /\ ChildrenOf(found) \subseteq found => d \in found}

(* Slip: only the block itself is ruled out as its own parent.              *)
NotItself(b, parent) == b # parent

NoParentCycle(b, parent) == parent \notin Below(b)

Reparent(c, b, parent) ==
  /\ b \in DOMAIN blocks
  /\ NoParentCycle(b, parent)
  /\ Ask(c, <<PutParent(b, parent)>>)
  /\ UNCHANGED spent

ChangeKind(c, b, kind) ==
  /\ b \in DOMAIN blocks
  /\ blocks[b].parent # None => NoParentCycle(b, blocks[b].parent)
  /\ Ask(c, <<[tag |-> "kind", block |-> b, kind |-> kind]>>)
  /\ UNCHANGED spent

DeleteBlock(c, b) ==
  /\ Ask(c, <<[tag |-> "unblock", block |-> b]>>)
  /\ UNCHANGED spent

AddPort(c, p, direction, kind) ==
  /\ Ask(c, <<PutPort(p, direction, kind)>>)
  /\ UNCHANGED spent

ChangePortKind(c, p, kind) ==
  /\ p \in DOMAIN ports
  /\ Ask(c, <<[tag |-> "portkind", port |-> p, kind |-> kind]>>)
  /\ UNCHANGED spent

DeletePort(c, p) ==
  /\ Ask(c, <<[tag |-> "unport", port |-> p]>>)
  /\ UNCHANGED spent

AddNet(c, s, t, kind) ==
  /\ {s, t} \subseteq DOMAIN ports
  /\ ports[s].direction = "output" /\ ports[t].direction = "input"
  /\ ports[s].kind = ports[t].kind
  /\ Ask(c, <<PutNet(s, t, kind, FALSE, TRUE)>>)
  /\ UNCHANGED spent

UpdateNet(c, n, kind) ==
  /\ n \in DOMAIN nets /\ ~ nets[n].derived
  /\ Ask(c, <<[tag |-> "netkind", net |-> n, kind |-> kind]>>)
  /\ UNCHANGED spent

DeleteNet(c, n) ==
  /\ Ask(c, <<[tag |-> "unnet", net |-> n]>>)
  /\ UNCHANGED spent
------------------------------------------------------------------------------
(* create_composite plans all its writes from one reading of the flow.      *)

Internal(S) == {n \in DOMAIN nets : n[1][1] \in S /\ n[2][1] \in S}
External(S) == {n \in DOMAIN nets : n[1][1] \in S \/ n[2][1] \in S} \ Internal(S)

(* A port is exposed that no net inside consumes, or that one from outside  *)
(* uses.                                                                    *)
Exposed(S) ==
  {p \in DOMAIN ports :
     /\ p[1] \in S
     /\ LET end == IF ports[p].direction = "input" THEN 2 ELSE 1
        IN  \/ \E n \in External(S) : p = n[end]
            \/ ~ \E n \in Internal(S) : p = n[end]}

(* Ports of the same name, direction and kind share one port outside.       *)
Key(p) == <<p[2], ports[p].direction, ports[p].kind>>
Needs(S) == {Key(p) : p \in Exposed(S)}

(* The end of a crossing net inside, and the port it shares outside.        *)
Inward(S, n) == n[2][1] \in S
Own(S, n) == IF Inward(S, n) THEN n[2] ELSE n[1]
Shared(S, box, n) == <<box, Own(S, n)[2]>>

(* A net is led through the boundary if its own port is exposed that way.   *)
Crossing(S) ==
  {n \in External(S) :
     <<Own(S, n)[2], IF Inward(S, n) THEN "input" ELSE "output", ports[Own(S, n)].kind>>
       \in Needs(S)}

(* Slip: the net that goes on inside the boundary is forgotten when the     *)
(* shared port has one already.                                             *)
RedirectOnce(S, box, n) ==
  LET shared == Shared(S, box, n)
      kind == nets[n].kind
      first == Own(S, n) = CHOOSE p \in Exposed(S) : Key(p) = Key(Own(S, n))
      outside == IF Inward(S, n) THEN PutNet(n[1], shared, kind, TRUE, FALSE)
                 ELSE PutNet(shared, n[2], kind, TRUE, FALSE)
      inside == IF Inward(S, n) THEN PutNet(shared, n[2], kind, TRUE, FALSE)
                ELSE PutNet(n[1], shared, kind, TRUE, FALSE)
  IN  <<[tag |-> "unnet", net |-> n], outside, IF first THEN inside ELSE outside>>

(* A crossing net is deleted, put again up to the shared port, and carried  *)
(* on inside from there; a net that exists already is left as it is.        *)
Redirect(S, box, n) ==
  LET shared == Shared(S, box, n)
      kind == nets[n].kind
  IN  IF Inward(S, n)
      THEN <<[tag |-> "unnet", net |-> n], PutNet(n[1], shared, kind, TRUE, FALSE),
             PutNet(shared, n[2], kind, TRUE, FALSE)>>
      ELSE <<[tag |-> "unnet", net |-> n], PutNet(shared, n[2], kind, TRUE, FALSE),
             PutNet(n[1], shared, kind, TRUE, FALSE)>>

(* The three writes of each crossing net, net after net.                    *)
Redirects(S, box) ==
  LET order == SetToSeq(Crossing(S))
  IN  [i \in 1..(3 * Len(order)) |->
         Redirect(S, box, order[((i - 1) \div 3) + 1])[((i - 1) % 3) + 1]]

(* Then the composite is updated with what it exposes, and the children are *)
(* put under it.                                                            *)
Enclosing(S, box) ==
  <<[tag |-> "meta", block |-> box]>> \o SetToSeq({PutParent(b, box) : b \in S})

CompositeWrites(S, box) ==
  <<[tag |-> "block", block |-> box, kind |-> "composite", parent |-> None]>>
  \o SetToSeq({PutPort(<<box, k[1]>>, k[2], k[3]) : k \in Needs(S)})
  \o Redirects(S, box)
  \o Enclosing(S, box)

(* Two blocks are asked for, but one that is listed twice will do.          *)
CreateComposite(c, S) ==
  /\ Spare # spent
  /\ S \subseteq DOMAIN blocks /\ S # {}
  /\ \A b \in S : blocks[b].kind # "composite" /\ blocks[b].parent = None
  /\ request' = [request EXCEPT ![c] =
       [op |-> "composite", todo |-> CompositeWrites(S, Fresh), row |-> {}, overtaken |-> FALSE,
        of |-> Fresh, children |-> S, joined |-> Connections, missing |-> MissingCalls]]
  /\ spent' = spent \cup {Fresh}
  /\ allowed' = [allowed EXCEPT ![c] = @ - 1]
  /\ UNCHANGED <<flowVars, evidence, raced>>
------------------------------------------------------------------------------
(* The writes: one transaction each, with the checks of the store.          *)

NextWrite(c) == Head(request[c].todo)

Under(c, tag) ==
  /\ request[c].todo # <<>> /\ NextWrite(c).tag = tag
  /\ UNCHANGED <<evidence, spent, allowed>>

(* The last write of an edit ends the request; a composite is answered with *)
(* the flow, which is read once more.                                       *)
Rest(r) ==
  IF Len(r.todo) = 1 /\ r.op = "edit" THEN Idle
  ELSE [r EXCEPT !.todo = Tail(r.todo), !.row = {}]

(* Every request under way is overtaken by a write of another.              *)
Overtaken(r) == IF r.op = "none" THEN r ELSE [r EXCEPT !.overtaken = TRUE]

Written(c) ==
  request' = [d \in Clients |-> IF d = c THEN Rest(request[c]) ELSE Overtaken(request[d])]

(* A block that exists is written from what its request read.               *)
Races(c) == raced' = (raced \/ request[c].overtaken)

MayHold(parent) == parent = None \/ IsComposite(parent)

WriteBlock(c) ==
  /\ Under(c, "block")
  /\ NextWrite(c).block \notin DOMAIN blocks /\ MayHold(NextWrite(c).parent)
  /\ blocks' = [b \in DOMAIN blocks \cup {NextWrite(c).block} |->
                  IF b = NextWrite(c).block
                  THEN [kind |-> NextWrite(c).kind, parent |-> NextWrite(c).parent]
                  ELSE blocks[b]]
  /\ Written(c) /\ UNCHANGED <<ports, nets, raced>>

(* flow_update_block reads the row and checks the parent it will have, the  *)
(* new one or the old; flow_delete_block reads the parent of the block.     *)
RowOf(w) ==
  CASE w.tag = "parent" -> [blocks[w.block] EXCEPT !.parent = w.parent]
    [] w.tag = "kind" -> [blocks[w.block] EXCEPT !.kind = w.kind]
    [] OTHER -> blocks[w.block]

ReadRow(c) ==
  /\ \E tag \in {"parent", "kind", "meta", "unblock"} : Under(c, tag)
  /\ request[c].row = {} /\ NextWrite(c).block \in DOMAIN blocks
  /\ NextWrite(c).tag # "unblock" => MayHold(RowOf(NextWrite(c)).parent)
  /\ request' = [request EXCEPT ![c].row = {RowOf(NextWrite(c))}]
  /\ UNCHANGED <<flowVars, raced>>

(* All columns of the row are written.  A foreign key keeps the parent.     *)
WriteRow(c) ==
  /\ \E tag \in {"parent", "kind", "meta"} : Under(c, tag)
  /\ NextWrite(c).block \in DOMAIN blocks
  /\ \E row \in request[c].row :
       /\ row.parent \in DOMAIN blocks \cup {None}
       /\ blocks' = [blocks EXCEPT ![NextWrite(c).block] = row]
  /\ Races(c) /\ Written(c) /\ UNCHANGED <<ports, nets>>

(* Slip: the nets of a deleted port stay (foreign keys not enforced).       *)
KeepPortsOnly(keep) ==
  /\ ports' = [p \in keep |-> ports[p]]
  /\ UNCHANGED nets

(* The nets of a port go with it, the ports of a block with the block.      *)
KeepPorts(keep) ==
  /\ ports' = [p \in keep |-> ports[p]]
  /\ nets' = [n \in {m \in DOMAIN nets : {m[1], m[2]} \subseteq keep} |-> nets[n]]

(* The children of a deleted block move up to the parent it was read with.  *)
EraseBlock(c) ==
  /\ Under(c, "unblock")
  /\ LET gone == NextWrite(c).block
     IN  /\ gone \in DOMAIN blocks
         /\ \E row \in request[c].row :
              /\ ChildrenOf({gone}) # {} => row.parent \in (DOMAIN blocks \ {gone}) \cup {None}
              /\ blocks' = [b \in DOMAIN blocks \ {gone} |->
                              IF b \in ChildrenOf({gone})
                              THEN [blocks[b] EXCEPT !.parent = row.parent] ELSE blocks[b]]
         /\ KeepPorts({p \in DOMAIN ports : p[1] # gone})
  /\ Races(c) /\ Written(c)

WritePort(c) ==
  /\ Under(c, "port")
  /\ NextWrite(c).port[1] \in DOMAIN blocks /\ NextWrite(c).port \notin DOMAIN ports
  /\ ports' = [p \in DOMAIN ports \cup {NextWrite(c).port} |->
                 IF p = NextWrite(c).port
                 THEN [direction |-> NextWrite(c).direction, kind |-> NextWrite(c).kind]
                 ELSE ports[p]]
  /\ Written(c) /\ UNCHANGED <<blocks, nets, raced>>

WritePortKind(c) ==
  /\ Under(c, "portkind")
  /\ NextWrite(c).port \in DOMAIN ports
  /\ ports' = [ports EXCEPT ![NextWrite(c).port].kind = NextWrite(c).kind]
  /\ Written(c) /\ UNCHANGED <<blocks, nets, raced>>

ErasePort(c) ==
  /\ Under(c, "unport")
  /\ KeepPorts(DOMAIN ports \ {NextWrite(c).port})
  /\ Written(c) /\ UNCHANGED <<blocks, raced>>

NewNet(c) ==
  /\ NextWrite(c).net \notin DOMAIN nets
  /\ {NextWrite(c).net[1], NextWrite(c).net[2]} \subseteq DOMAIN ports

WriteNet(c) ==
  /\ Under(c, "net")
  /\ NewNet(c)
  /\ nets' = [n \in DOMAIN nets \cup {NextWrite(c).net} |->
                IF n = NextWrite(c).net
                THEN [kind |-> NextWrite(c).kind, derived |-> NextWrite(c).derived]
                ELSE nets[n]]
  /\ Written(c) /\ UNCHANGED <<blocks, ports, raced>>

(* _create_net_missing passes over a net that is there or cannot be.        *)
PassNet(c) ==
  /\ Under(c, "net")
  /\ ~ NewNet(c) /\ ~ NextWrite(c).must
  /\ request' = [request EXCEPT ![c] = Rest(request[c])]
  /\ UNCHANGED <<flowVars, raced>>

WriteNetKind(c) ==
  /\ Under(c, "netkind")
  /\ NextWrite(c).net \in DOMAIN nets
  /\ nets' = [nets EXCEPT ![NextWrite(c).net].kind = NextWrite(c).kind]
  /\ Written(c) /\ UNCHANGED <<blocks, ports, raced>>

EraseNet(c) ==
  /\ Under(c, "unnet")
  /\ nets' = [n \in DOMAIN nets \ {NextWrite(c).net} |-> nets[n]]
  /\ Written(c) /\ UNCHANGED <<blocks, ports, raced>>

(* The request dies, or the store refuses its next write: a port name that  *)
(* is taken, a parent that is gone or no composite, a row that is gone.     *)
(* What was written stays.                                                  *)
Fail(c) ==
  /\ request[c].todo # <<>>
  /\ request' = [request EXCEPT ![c] = Idle]
  /\ UNCHANGED <<flowVars, evidence, spent, allowed, raced>>

Done(c) == request[c].op = "composite" /\ request[c].todo = <<>>

Answer(c) ==
  /\ Done(c)
  /\ request' = [request EXCEPT ![c] = Idle]
  /\ UNCHANGED <<flowVars, evidence, spent, allowed, raced>>
------------------------------------------------------------------------------
(* A flow starts as a projection of evidence: a block for each symbol, with *)
(* its two control ports, and a derived control net for each call.          *)
Init ==
  /\ evidence \in Evidence
  /\ blocks = [f \in Functions |-> [kind |-> "function", parent |-> None]]
  /\ ports = [p \in UNION {{In(f), Out(f)} : f \in Functions} |->
                [direction |-> IF p = In(p[1]) THEN "input" ELSE "output",
                 kind |-> "control"]]
  /\ nets = [n \in {<<Out(e[1]), In(e[2])>> : e \in evidence} |->
               [kind |-> "control", derived |-> TRUE]]
  /\ request = [c \in Clients |-> Idle]
  /\ spent = {} /\ allowed \in Allowances /\ raced = FALSE

BlockKinds == {"function", "composite"}

Request(c) ==
  /\ Free(c)
  /\ \/ \E k \in BlockKinds, p \in DOMAIN blocks \cup {None} : AddBlock(c, k, p)
     \/ \E b \in DOMAIN blocks, p \in DOMAIN blocks \cup {None} : Reparent(c, b, p)
     \/ \E b \in DOMAIN blocks, k \in BlockKinds : ChangeKind(c, b, k)
     \/ \E b \in DOMAIN blocks : DeleteBlock(c, b)
     \/ \E b \in DOMAIN blocks, n \in PortNames, d \in Directions, k \in SemanticKinds :
          AddPort(c, <<b, n>>, d, k)
     \/ \E p \in DOMAIN ports, k \in SemanticKinds : ChangePortKind(c, p, k)
     \/ \E p \in DOMAIN ports : DeletePort(c, p)
     \/ \E s, t \in DOMAIN ports, k \in SemanticKinds : AddNet(c, s, t, k)
     \/ \E n \in DOMAIN nets, k \in SemanticKinds : UpdateNet(c, n, k)
     \/ \E n \in DOMAIN nets : DeleteNet(c, n)
     \/ \E S \in SUBSET DOMAIN blocks : CreateComposite(c, S)

Next ==
  \E c \in Clients :
    \/ Request(c)
    \/ WriteBlock(c) \/ ReadRow(c) \/ WriteRow(c) \/ EraseBlock(c)
    \/ WritePort(c) \/ WritePortKind(c) \/ ErasePort(c)
    \/ WriteNet(c) \/ PassNet(c) \/ WriteNetKind(c) \/ EraseNet(c)
    \/ Fail(c) \/ Answer(c)

Spec == Init /\ [][Next]_vars
------------------------------------------------------------------------------
(* Types, and what the foreign keys promise: a port has its block, a net    *)
(* its two ports, a parent is there.                                        *)
FlowTypeOK ==
  /\ DOMAIN blocks \subseteq Ids
  /\ \A b \in DOMAIN blocks :
       /\ blocks[b].kind \in BlockKinds
       /\ blocks[b].parent \in DOMAIN blocks \cup {None}
  /\ DOMAIN ports \subseteq PortIds
  /\ \A p \in DOMAIN ports :
       /\ p[1] \in DOMAIN blocks
       /\ ports[p].direction \in Directions /\ ports[p].kind \in SemanticKinds
  /\ \A n \in DOMAIN nets :
       /\ {n[1], n[2]} \subseteq DOMAIN ports
       /\ nets[n].kind \in SemanticKinds /\ nets[n].derived \in BOOLEAN
  /\ DOMAIN blocks \ Functions \subseteq spent /\ spent \subseteq Spare
  /\ allowed \in [Clients -> Nat]

(* The block hierarchy has no cycle, whatever sequence of reparenting,      *)
(* encapsulation, deletion and abandoned requests has been gone through     *)
(* (flow/service.py: the service owns this, the database does not): the one *)
(* way to a cycle is a block written by a request that had been overtaken   *)
(* since it read the flow.                                                  *)
HierarchyIsAcyclic ==
  ~ raced => \A b \in DOMAIN blocks : blocks[b].parent \notin Below(b)

(* No walk is cut off by the bound on its depth.                            *)
Exhausts(G) == \A p \in G.node : AllSuccessors(G, Walk(G, p)) \subseteq Walk(G, p)

(* create_composite has written everything, and nobody else has since it    *)
(* read the flow.                                                           *)
Encapsulated(c) == Done(c) /\ ~ request[c].overtaken

(* Then every two blocks that a net joined before are still joined, unless  *)
(* the check gives up on the longer way: leading the nets through the       *)
(* boundary has lost none of them.                                          *)
EncapsulationLosesNothing ==
  \A c \in Clients : Encapsulated(c) /\ Exhausts(Behind) /\ Exhausts(Driving) =>
    request[c].joined \subseteq Connections

(* And no net from an output to an input passes by the ports of the         *)
(* composite into or out of its children.                                   *)
BoundaryIsClosed ==
  \A c \in Clients : Encapsulated(c) =>
    \A n \in External(request[c].children) :
      ports[n[1]].direction = "output" /\ ports[n[2]].direction = "input" =>
        request[c].of \in {n[1][1], n[2][1]}

(* The two together: what create_composite answers with is the same wiring  *)
(* behind a boundary ("the net crossing the boundary is rewired and an      *)
(* internal net continues it inside the composite").                        *)
EncapsulationIsSound == EncapsulationLosesNothing /\ BoundaryIsClosed

(* Encapsulating blocks changes nothing about the code: the check finds no  *)
(* call missing afterwards that it did not find missing before              *)
(* (flow/service.py: "so hierarchy navigation and the LVS-like check stay   *)
(* truthful at every level").                                               *)
EncapsulationStaysTruthful ==
  \A c \in Clients : Encapsulated(c) => MissingCalls \subseteq request[c].missing
==============================================================================
