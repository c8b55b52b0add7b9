------------------------- MODULE ArchitecturePlane --------------------------
(* The architecture plane of one workspace: its AS-IS model, the proposals  *)
(* forked from it, their components, relations and mappings to evidence     *)
(* (the arch_* operations of db.py, called by _apply_architecture_mutation  *)
(* of design_lifecycle/service.py), and the diff of a proposal against the  *)
(* baseline frozen when it was forked (archmodel.py).                       *)
(*                                                                          *)
(* Every request has a store of its own.  It reads and checks, statement by *)
(* statement, and then writes in one transaction in which only the foreign  *)
(* keys are checked again: what another request writes in between is not    *)
(* seen.                                                                    *)
EXTENDS Integers, FiniteSets, Functions

CONSTANTS
  AsIs, Proposals,  \* the model every workspace has, and those to be forked
  Texts, Kinds,     \* what components say (kind, name, description); relations
  Entities,         \* evidence a component may be mapped to
  Seeds,            \* AS-IS models to start from
  Clients, None,    \* requests that may be under way at once; no component
  MaxRequests       \* bound on the requests that are made

ASSUME ArchAssumption ==
  /\ None \notin Nat /\ AsIs \notin Proposals /\ MaxRequests \in Nat
  /\ \A seed \in Seeds :
       LET C == DOMAIN seed.comps
           R == DOMAIN seed.rels
       IN  /\ Cardinality(C) \in Nat /\ Cardinality(R) \in Nat
           /\ C \cup R \subseteq 1..(Cardinality(C) + Cardinality(R))
           /\ \A k \in C : seed.comps[k] \in [text : Texts, parent : C \cup {None},
                                             maps : SUBSET Entities]
           /\ \A r \in R : seed.rels[r] \in [kind : Kinds, src : C, dst : C]

VARIABLES
  models,   \* the models there are -> baseline, None for AS-IS
  comps,    \* component -> model, origin, text, parent, mapped evidence
  rels,     \* relation -> model, kind, source, destination
  request,  \* client -> what it has read and means to write
  given,    \* number of identities given out
  asked     \* number of requests made

rows == <<models, comps, rels>>
vars == <<rows, request, given, asked>>

In(m) == {k \in DOMAIN comps : comps[k].model = m}
Links(m) == {r \in DOMAIN rels : rels[r].model = m}
Touching(k) == {r \in DOMAIN rels : k \in {rels[r].src, rels[r].dst}}
Children(k) == {d \in DOMAIN comps : comps[d].parent = k}

(* Components by their distance below k, as the recursive query finds them. *)
Reach(k) ==
  LET found[n \in 0..Cardinality(DOMAIN comps)] ==
        IF n = 0 THEN {k}
        ELSE LET near == found[n - 1] IN near \cup UNION {Children(d) : d \in near}
  IN  found

Subtree(k) == Reach(k)[Cardinality(DOMAIN comps)]

Depths(k) ==
  [d \in Subtree(k) |-> Cardinality({n \in DOMAIN Reach(k) : d \notin Reach(k)[n]})]

(* On a cycle the query joins rows for ever (UNION ALL).                    *)
Endless(k) == comps[k].parent \in Subtree(k)

(* What a model says: the form in which fork freezes it.  A relation is     *)
(* there or not, however many rows say so: compute_diff compares existence. *)
Content(cs, rs) ==
  [comps |-> [k \in DOMAIN cs |->
                [text |-> cs[k].text, parent |-> cs[k].parent, maps |-> cs[k].maps]],
   rels |-> {<<rs[r].kind, rs[r].src, rs[r].dst>> : r \in DOMAIN rs}]
------------------------------------------------------------------------------
(* Requests: what is checked before the write.                              *)

Idle == [op |-> "none"]

Free(c) == request[c] = Idle /\ asked < MaxRequests

Ask(c, wish) ==
  /\ request' = [request EXCEPT ![c] = wish]
  /\ asked' = asked + 1
  /\ UNCHANGED <<rows, given>>

MayHold(m, parent) == parent = None \/ parent \in In(m)

CreateComponent(c, m, text, parent, maps) ==
  /\ m \in DOMAIN models /\ MayHold(m, parent)
  /\ Ask(c, [op |-> "component", model |-> m, text |-> text, parent |-> parent,
             maps |-> maps])

UpdateText(c, k, text) ==
  Ask(c, [op |-> "text", comp |-> k, text |-> text])

(* The walk up from the new parent must not meet the component.             *)
NoArchCycle(k, parent) == parent = None \/ parent \notin Subtree(k)

Reparent(c, k, parent) ==
  /\ MayHold(comps[k].model, parent)
  /\ NoArchCycle(k, parent)
  /\ Ask(c, [op |-> "parent", comp |-> k, parent |-> parent])

DeleteComponent(c, k) ==
  /\ Children(k) = {} /\ Touching(k) = {}
  /\ Ask(c, [op |-> "delete", comp |-> k])

(* The members of the subtree are read here and deleted later.              *)
DeleteSubtree(c, k) ==
  /\ ~ Endless(k)
  /\ Ask(c, [op |-> "subtree", depth |-> Depths(k)])

CreateRelation(c, m, kind, src, dst) ==
  /\ src # dst
  /\ \A r \in Links(m) : <<rels[r].kind, rels[r].src, rels[r].dst>> # <<kind, src, dst>>
  /\ Ask(c, [op |-> "relation", model |-> m, kind |-> kind, src |-> src, dst |-> dst])

UpdateRelation(c, r, kind) ==
  Ask(c, [op |-> "relkind", rel |-> r, kind |-> kind])

DeleteRelation(c, r) == Ask(c, [op |-> "unrelate", rel |-> r])

CreateMappings(c, k, maps) ==
  /\ maps # {} /\ maps \cap comps[k].maps = {}
  /\ Ask(c, [op |-> "map", comp |-> k, maps |-> maps])

DeleteMapping(c, k, e) ==
  /\ e \in comps[k].maps
  /\ Ask(c, [op |-> "unmap", comp |-> k, entity |-> e])

(* fork reads the components first, then the relations, then the mappings   *)
(* of one component after the other.                                        *)
Fork(c, source) ==
  /\ source \in DOMAIN models /\ models[source] = None
  /\ Proposals \ DOMAIN models # {}
  /\ Ask(c, [op |-> "fork relations", source |-> source,
             comps |-> [k \in In(source) |-> [comps[k] EXCEPT !.maps = {}]]])

ForkReadRelations(c) ==
  /\ request[c].op = "fork relations"
  /\ request' = [request EXCEPT ![c] =
       [op |-> "fork", source |-> @.source, comps |-> @.comps,
        rels |-> Restrict(rels, Links(@.source)), unread |-> DOMAIN @.comps]]
  /\ UNCHANGED <<rows, given, asked>>

ForkReadMappings(c, k) ==
  /\ request[c].op = "fork" /\ k \in request[c].unread
  /\ LET found == IF k \in DOMAIN comps THEN comps[k].maps ELSE {}
     IN  request' = [request EXCEPT ![c] =
           [op |-> "fork", source |-> @.source, rels |-> @.rels,
            comps |-> [@.comps EXCEPT ![k].maps = found], unread |-> @.unread \ {k}]]
  /\ UNCHANGED <<rows, given, asked>>
------------------------------------------------------------------------------
(* The transactions.  A write that a foreign key refuses is not enabled:    *)
(* the request can then only fail.                                          *)

Under(c, op) ==
  /\ request[c].op = op
  /\ request' = [request EXCEPT ![c] = Idle]
  /\ UNCHANGED asked

Stored(old, more) == [k \in DOMAIN old \cup DOMAIN more |->
                        IF k \in DOMAIN more THEN more[k] ELSE old[k]]

WriteComponent(c) ==
  LET w == request[c] IN
  /\ Under(c, "component")
  /\ MayHold(w.model, w.parent)
  /\ given' = given + 1
  /\ comps' = Stored(comps, [k \in {given + 1} |->
       [model |-> w.model, origin |-> None, text |-> w.text, parent |-> w.parent,
        maps |-> w.maps]])
  /\ UNCHANGED <<models, rels>>

WriteText(c) ==
  /\ Under(c, "text")
  /\ request[c].comp \in DOMAIN comps
  /\ comps' = [comps EXCEPT ![request[c].comp].text = request[c].text]
  /\ UNCHANGED <<models, rels, given>>

WriteParent(c) ==
  LET w == request[c] IN
  /\ Under(c, "parent")
  /\ w.comp \in DOMAIN comps /\ MayHold(comps[w.comp].model, w.parent)
  /\ comps' = [comps EXCEPT ![w.comp].parent = w.parent]
  /\ UNCHANGED <<models, rels, given>>

(* A component with children or relations stays (ON DELETE RESTRICT).       *)
EraseComponent(c) ==
  LET k == request[c].comp IN
  /\ Under(c, "delete")
  /\ Children(k) = {} /\ Touching(k) = {}
  /\ comps' = Restrict(comps, DOMAIN comps \ {k})
  /\ UNCHANGED <<models, rels, given>>

(* Slip: relations are deleted through their source only.                   *)
EraseSubtreeBySource(c) ==
  LET depth == request[c].depth
      members == DOMAIN depth
  IN  /\ Under(c, "subtree")
      /\ \A p \in members : \A d \in Children(p) : d \in members /\ depth[d] >= depth[p]
      /\ rels' = Restrict(rels, {r \in DOMAIN rels : rels[r].src \notin members})
      /\ comps' = Restrict(comps, DOMAIN comps \ members)
      /\ UNCHANGED <<models, given>>

(* Members go deepest first by the depth that was read, with the relations  *)
(* that touch them; one that still has a child then stops the transaction.  *)
EraseSubtree(c) ==
  LET depth == request[c].depth
      members == DOMAIN depth
  IN  /\ Under(c, "subtree")
      /\ \A p \in members : \A d \in Children(p) : d \in members /\ depth[d] >= depth[p]
      /\ rels' = Restrict(rels, DOMAIN rels \ UNION {Touching(k) : k \in members})
      /\ comps' = Restrict(comps, DOMAIN comps \ members)
      /\ UNCHANGED <<models, given>>

WriteRelation(c) ==
  LET w == request[c] IN
  /\ Under(c, "relation")
  /\ {w.src, w.dst} \subseteq In(w.model)
  /\ given' = given + 1
  /\ rels' = Stored(rels, [r \in {given + 1} |->
       [model |-> w.model, kind |-> w.kind, src |-> w.src, dst |-> w.dst]])
  /\ UNCHANGED <<models, comps>>

(* The new kind is not compared with the relations there are.               *)
WriteRelationKind(c) ==
  /\ Under(c, "relkind")
  /\ request[c].rel \in DOMAIN rels
  /\ rels' = [rels EXCEPT ![request[c].rel].kind = request[c].kind]
  /\ UNCHANGED <<models, comps, given>>

EraseRelation(c) ==
  /\ Under(c, "unrelate")
  /\ rels' = Restrict(rels, DOMAIN rels \ {request[c].rel})
  /\ UNCHANGED <<models, comps, given>>

(* All or none: a mapping that is there by now stops the transaction.       *)
WriteMappings(c) ==
  LET w == request[c] IN
  /\ Under(c, "map")
  /\ w.comp \in DOMAIN comps /\ w.maps \cap comps[w.comp].maps = {}
  /\ comps' = [comps EXCEPT ![w.comp].maps = @ \cup w.maps]
  /\ UNCHANGED <<models, rels, given>>

EraseMapping(c) ==
  LET w == request[c] IN
  /\ Under(c, "unmap")
  /\ comps' = IF w.comp \in DOMAIN comps
              THEN [comps EXCEPT ![w.comp].maps = @ \ {w.entity}] ELSE comps
  /\ UNCHANGED <<models, rels, given>>

(* The copy has identities of its own; origins name the source.             *)
Rank(S, k) == Cardinality({d \in S : d <= k})

(* Slip: one pass; a parent that is copied after its child is lost.         *)
CopiedInOnePass(m, read) ==
  LET copy(k) == given + Rank(DOMAIN read, k)
  IN  [n \in {copy(k) : k \in DOMAIN read} |->
         LET k == CHOOSE d \in DOMAIN read : copy(d) = n
         IN  [model |-> m, origin |-> k, text |-> read[k].text,
              parent |-> IF read[k].parent \in DOMAIN read /\ read[k].parent < k
                         THEN copy(read[k].parent) ELSE None,
              maps |-> read[k].maps]]

CopiedComponents(m, read) ==
  LET copy(k) == given + Rank(DOMAIN read, k)
  IN  [n \in {copy(k) : k \in DOMAIN read} |->
         LET k == CHOOSE d \in DOMAIN read : copy(d) = n
         IN  [model |-> m, origin |-> k, text |-> read[k].text,
              parent |-> IF read[k].parent \in DOMAIN read
                         THEN copy(read[k].parent) ELSE None,
              maps |-> read[k].maps]]

CopiedRelations(m, read, links) ==
  LET copy(k) == given + Rank(DOMAIN read, k)
      first == given + Cardinality(DOMAIN read)
  IN  [n \in {first + Rank(DOMAIN links, r) : r \in DOMAIN links} |->
         LET r == links[CHOOSE l \in DOMAIN links : first + Rank(DOMAIN links, l) = n]
         IN  [model |-> m, kind |-> r.kind, src |-> copy(r.src), dst |-> copy(r.dst)]]

(* A relation whose end was created after the components were read has no   *)
(* copy of that end, and the fork fails.                                    *)
WriteFork(c) ==
  LET w == request[c]
      m == CHOOSE p \in Proposals : p \notin DOMAIN models
  IN  /\ Under(c, "fork") /\ w.unread = {}
      /\ Proposals \ DOMAIN models # {}
      /\ \A r \in DOMAIN w.rels : {w.rels[r].src, w.rels[r].dst} \subseteq DOMAIN w.comps
      /\ models' = Stored(models, [p \in {m} |-> Content(w.comps, w.rels)])
      /\ comps' = Stored(comps, CopiedComponents(m, w.comps))
      /\ rels' = Stored(rels, CopiedRelations(m, w.comps, w.rels))
      /\ given' = given + Cardinality(DOMAIN w.comps) + Cardinality(DOMAIN w.rels)

(* A check, a key or the connection ends the request; nothing is written.   *)
Fail(c) ==
  /\ request[c] # Idle
  /\ request' = [request EXCEPT ![c] = Idle]
  /\ UNCHANGED <<rows, given, asked>>
------------------------------------------------------------------------------
(* The diff of a proposal against its baseline (compute_diff).              *)

(* Working components are matched with the baseline by their origin.        *)
OriginOf(k) == IF k = None THEN None ELSE comps[k].origin
Matched(m) == {k \in In(m) : comps[k].origin \in DOMAIN models[m].comps}

(* Slip: a parent without an origin counts as no parent.                    *)
MovedByOrigin(m, k) ==
  OriginOf(comps[k].parent) # models[m].comps[comps[k].origin].parent

Moved(m, k) ==
  LET before == models[m].comps[comps[k].origin].parent
  IN  IF comps[k].parent = None THEN before # None
      ELSE OriginOf(comps[k].parent) = None \/ OriginOf(comps[k].parent) # before

RelKey(r) == <<rels[r].kind, OriginOf(rels[r].src), OriginOf(rels[r].dst)>>

HasKey(m, r) == {OriginOf(rels[r].src), OriginOf(rels[r].dst)} \subseteq DOMAIN models[m].comps

Diff(m) ==
  LET b == models[m]
      keys == {RelKey(r) : r \in {l \in Links(m) : HasKey(m, l)}}
  IN  [added |-> In(m) \ Matched(m),
       removed |-> DOMAIN b.comps \ {comps[k].origin : k \in Matched(m)},
       modified |-> {k \in Matched(m) : comps[k].text # b.comps[comps[k].origin].text},
       moved |-> {k \in Matched(m) : Moved(m, k)},
       addedRels |-> {r \in Links(m) : ~ HasKey(m, r) \/ RelKey(r) \notin b.rels},
       removedRels |-> b.rels \ keys,
       remapped |-> {k \in Matched(m) : comps[k].maps # b.comps[comps[k].origin].maps}]
------------------------------------------------------------------------------
Init ==
  /\ models = [m \in {AsIs} |-> None]
  /\ \E seed \in Seeds :
       /\ comps = [k \in DOMAIN seed.comps |->
                     [model |-> AsIs, origin |-> None, text |-> seed.comps[k].text,
                      parent |-> seed.comps[k].parent, maps |-> seed.comps[k].maps]]
       /\ rels = [r \in DOMAIN seed.rels |->
                    [model |-> AsIs, kind |-> seed.rels[r].kind,
                     src |-> seed.rels[r].src, dst |-> seed.rels[r].dst]]
       /\ given = Cardinality(DOMAIN seed.comps) + Cardinality(DOMAIN seed.rels)
  /\ request = [c \in Clients |-> Idle]
  /\ asked = 0

Request(c) ==
  /\ Free(c)
  /\ \/ \E m \in DOMAIN models, t \in Texts, p \in DOMAIN comps \cup {None},
           E \in SUBSET Entities : CreateComponent(c, m, t, p, E)
     \/ \E k \in DOMAIN comps, t \in Texts : UpdateText(c, k, t)
     \/ \E k \in DOMAIN comps, p \in DOMAIN comps \cup {None} : Reparent(c, k, p)
     \/ \E k \in DOMAIN comps : DeleteComponent(c, k) \/ DeleteSubtree(c, k)
     \/ \E m \in DOMAIN models, kind \in Kinds : \E s, d \in In(m) :
          CreateRelation(c, m, kind, s, d)
     \/ \E r \in DOMAIN rels, kind \in Kinds : UpdateRelation(c, r, kind)
     \/ \E r \in DOMAIN rels : DeleteRelation(c, r)
     \/ \E k \in DOMAIN comps, E \in SUBSET Entities : CreateMappings(c, k, E)
     \/ \E k \in DOMAIN comps, e \in Entities : DeleteMapping(c, k, e)
     \/ \E m \in DOMAIN models : Fork(c, m)

Write(c) ==
  \/ WriteComponent(c) \/ WriteText(c) \/ WriteParent(c)
  \/ EraseComponent(c) \/ EraseSubtree(c)
  \/ WriteRelation(c) \/ WriteRelationKind(c) \/ EraseRelation(c)
  \/ WriteMappings(c) \/ EraseMapping(c) \/ WriteFork(c)

Next ==
  \E c \in Clients :
    \/ Request(c) \/ Write(c) \/ Fail(c)
    \/ ForkReadRelations(c)
    \/ \E k \in DOMAIN comps \cup DOMAIN (IF request[c].op = "fork" THEN request[c].comps ELSE <<>>) :
         ForkReadMappings(c, k)

Spec == Init /\ [][Next]_vars
------------------------------------------------------------------------------
Ids == 1..given

Component ==
  [model : DOMAIN models, origin : Ids \cup {None}, text : Texts,
   parent : Ids \cup {None}, maps : SUBSET Entities]

Relation == [model : DOMAIN models, kind : Kinds, src : Ids, dst : Ids]

BaselineOK(b) ==
  /\ DOMAIN b.comps \subseteq Ids
  /\ \A k \in DOMAIN b.comps :
       b.comps[k] \in [text : Texts, parent : DOMAIN b.comps \cup {None},
                      maps : SUBSET Entities]
  /\ b.rels \subseteq Kinds \X (DOMAIN b.comps) \X (DOMAIN b.comps)

RowTypes ==
  /\ given \in Nat /\ asked \in 0..MaxRequests
  /\ AsIs \in DOMAIN models /\ DOMAIN models \subseteq {AsIs} \cup Proposals
  /\ models[AsIs] = None
  /\ \A m \in DOMAIN models \ {AsIs} : BaselineOK(models[m])
  /\ DOMAIN comps \subseteq Ids /\ comps \in [DOMAIN comps -> Component]
  /\ DOMAIN rels \subseteq Ids /\ rels \in [DOMAIN rels -> Relation]

(* Parents, and the ends of relations, are components of the same model;    *)
(* only components of a proposal have an origin, one of its baseline.       *)
KeysHold ==
  /\ \A k \in DOMAIN comps :
       /\ MayHold(comps[k].model, comps[k].parent)
       /\ comps[k].origin # None =>
            /\ comps[k].model # AsIs
            /\ comps[k].origin \in DOMAIN models[comps[k].model].comps
  /\ \A r \in DOMAIN rels : {rels[r].src, rels[r].dst} \subseteq In(rels[r].model)

(* Types, and what the composite keys promise, whatever is deleted between  *)
(* the reading and the writing of a request (schema.py: "cross-model        *)
(* references are rejected by composite FKs").                              *)
ArchTypeOK == RowTypes /\ KeysHold

(* A proposal as its readers see it: a component goes by its origin, or by  *)
(* its own identity if it has none.                                         *)
NameOf(k) == IF k # None /\ comps[k].origin # None THEN comps[k].origin ELSE k

Current(m) ==
  [comps |-> [n \in {NameOf(k) : k \in In(m)} |->
                LET k == CHOOSE d \in In(m) : NameOf(d) = n
                IN  [text |-> comps[k].text, parent |-> NameOf(comps[k].parent),
                     maps |-> comps[k].maps]],
   rels |-> {<<rels[r].kind, NameOf(rels[r].src), NameOf(rels[r].dst)>> : r \in Links(m)}]

(* The baseline with the changes of the diff made to it, and no others.     *)
Applied(m, diff) ==
  LET b == models[m]
      working(n) == CHOOSE k \in In(m) : NameOf(k) = n
      said(k) == [text |-> comps[k].text, parent |-> NameOf(comps[k].parent),
                  maps |-> comps[k].maps]
      changed(n) ==
        LET k == working(n) IN
        [text |-> IF k \in diff.modified THEN comps[k].text ELSE b.comps[n].text,
         parent |-> IF k \in diff.moved THEN NameOf(comps[k].parent) ELSE b.comps[n].parent,
         maps |-> IF k \in diff.remapped THEN comps[k].maps ELSE b.comps[n].maps]
  IN  [comps |-> [n \in (DOMAIN b.comps \ diff.removed) \cup diff.added |->
                    IF n \in diff.added THEN said(n) ELSE changed(n)],
       rels |-> (b.rels \ diff.removedRels) \cup
                  {<<rels[r].kind, NameOf(rels[r].src), NameOf(rels[r].dst)>> :
                     r \in diff.addedRels}]

(* The diff of a proposal is complete and says nothing false: the baseline  *)
(* with the diff applied is the proposal, after any edits of both models by *)
(* requests that overtake each other (archmodel.py: Diff(P) = Current(P) -  *)
(* Baseline(P)).  It says which relations there are, not how many rows say  *)
(* the same.                                                                *)
DiffIsExact ==
  \A m \in DOMAIN models \ {AsIs} : Applied(m, Diff(m)) = Current(m)

NoChange ==
  [added |-> {}, removed |-> {}, modified |-> {}, moved |-> {},
   addedRels |-> {}, removedRels |-> {}, remapped |-> {}]

(* A new proposal differs in nothing from its baseline, however the AS-IS   *)
(* model was edited while fork read it: identities, parents, relations and  *)
(* mappings are carried over without loss.                                  *)
ForkStartsEmpty ==
  [][\A m \in DOMAIN models' \ DOMAIN models : Diff(m)' = NoChange]_models

==============================================================================
