------------------------- MODULE ArchitectureProofs --------------------------
(* Proofs about the architecture plane: the composite keys hold after any   *)
(* interleaving, the diff of a proposal is exact, and a fork starts without *)
(* differences, for any number of requests, components and proposals.       *)
EXTENDS ArchitecturePlane, FiniteSetTheorems, TLAPS

(* Within a proposal an origin stands for one component, and no component   *)
(* has the identity of a baseline component.                                *)
NamesAreUnique ==
  /\ \A k, d \in DOMAIN comps :
       /\ comps[k].model = comps[d].model
       /\ comps[k].origin = comps[d].origin /\ comps[k].origin # None
       => k = d
  /\ \A k \in DOMAIN comps :
       comps[k].model # AsIs => k \notin DOMAIN models[comps[k].model].comps

(* What a fork has read can be copied.                                      *)
ReadOK(w) ==
  /\ w.source \in DOMAIN models
  /\ DOMAIN w.comps \subseteq Ids
  /\ w.comps \in [DOMAIN w.comps -> Component]
  /\ \A k \in DOMAIN w.comps : w.comps[k].parent \in DOMAIN w.comps \cup {None}

RequestOK(w) ==
  /\ w.op = "component" =>
       w.model \in DOMAIN models /\ w.text \in Texts /\ w.maps \subseteq Entities
  /\ w.op = "text" => w.text \in Texts
  /\ w.op \in {"relation", "relkind"} => w.kind \in Kinds
  /\ w.op = "map" => w.maps \subseteq Entities
  /\ w.op \in {"fork relations", "fork"} => ReadOK(w)
  /\ w.op = "fork" =>
       DOMAIN w.rels \subseteq Ids /\ w.rels \in [DOMAIN w.rels -> Relation]

RowsInv == ArchTypeOK /\ NamesAreUnique

RequestsInv ==
  /\ request = [c \in Clients |-> request[c]]
  /\ \A c \in Clients : RequestOK(request[c])

ArchInv == RowsInv /\ RequestsInv
------------------------------------------------------------------------------
(* The diff, from the invariant alone.                                      *)

LEMMA NoneIsNoId == None \notin Ids
  BY ArchAssumption DEF Ids

(* What is known of a component of a proposal.                              *)
LEMMA Proposed ==
  ASSUME ArchInv, NEW m \in DOMAIN models \ {AsIs}, NEW k \in In(m)
  PROVE  /\ k \in DOMAIN comps /\ k \in Ids /\ k # None /\ comps[k].model = m
         /\ comps[k] \in Component
         /\ comps[k].parent \in In(m) \cup {None}
         /\ comps[k].origin \in (DOMAIN models[m].comps) \cup {None}
         /\ k \notin DOMAIN models[m].comps
         /\ None \notin DOMAIN models[m].comps
         /\ \A d \in In(m) : comps[k].origin = comps[d].origin /\ comps[k].origin # None
                               => k = d
  BY NoneIsNoId
  DEF ArchInv, RowsInv, ArchTypeOK, RowTypes, KeysHold, NamesAreUnique, In, MayHold, BaselineOK

(* Matched components go by the identities of the baseline, the others by   *)
(* identities the baseline does not know.                                   *)
LEMMA Names ==
  ASSUME ArchInv, NEW m \in DOMAIN models \ {AsIs}
  PROVE  /\ \A k \in In(m) : k \in Matched(m) <=> comps[k].origin # None
         /\ \A k \in Matched(m) : NameOf(k) = comps[k].origin
                                  /\ NameOf(k) \in DOMAIN models[m].comps
         /\ \A k \in In(m) \ Matched(m) : NameOf(k) = k /\ k \notin DOMAIN models[m].comps
         /\ \A k, d \in In(m) : NameOf(k) = NameOf(d) => k = d
<1>1. \A k \in In(m) :
        /\ k \in Matched(m) <=> comps[k].origin # None
        /\ k \in Matched(m) => NameOf(k) = comps[k].origin
                               /\ NameOf(k) \in DOMAIN models[m].comps
        /\ k \notin Matched(m) => NameOf(k) = k /\ k \notin DOMAIN models[m].comps
  <2> SUFFICES ASSUME NEW k \in In(m)
               PROVE  /\ k \in Matched(m) <=> comps[k].origin # None
                      /\ k \in Matched(m) => NameOf(k) = comps[k].origin
                                             /\ NameOf(k) \in DOMAIN models[m].comps
                      /\ k \notin Matched(m) => NameOf(k) = k
                                                /\ k \notin DOMAIN models[m].comps
    OBVIOUS
  <2> QED
    BY Proposed DEF Matched, NameOf
<1>2. \A k, d \in In(m) : NameOf(k) = NameOf(d) => k = d
  <2> SUFFICES ASSUME NEW k \in In(m), NEW d \in In(m), NameOf(k) = NameOf(d)
               PROVE  k = d
    OBVIOUS
  <2>1. CASE k \in Matched(m) /\ d \in Matched(m)
    BY <1>1, <2>1, Proposed
  <2>2. CASE k \notin Matched(m) /\ d \notin Matched(m)
    BY <1>1, <2>2
  <2>3. CASE k \in Matched(m) /\ d \notin Matched(m)
    BY <1>1, <2>3
  <2>4. CASE k \notin Matched(m) /\ d \in Matched(m)
    BY <1>1, <2>4
  <2> QED BY <2>1, <2>2, <2>3, <2>4
<1> QED BY <1>1, <1>2 DEF Matched

(* A component that did not move hangs where the baseline says.             *)
LEMMA Unmoved ==
  ASSUME ArchInv, NEW m \in DOMAIN models \ {AsIs}, NEW k \in Matched(m), ~ Moved(m, k)
  PROVE  NameOf(comps[k].parent) = models[m].comps[comps[k].origin].parent
<1>1. k \in In(m)
  BY DEF Matched
<1>2. comps[k].parent \in In(m) \cup {None}
  BY <1>1, Proposed
<1>3. CASE comps[k].parent = None
  BY <1>3 DEF Moved, NameOf
<1>4. CASE comps[k].parent # None
  BY <1>4 DEF Moved, NameOf, OriginOf
<1> QED BY <1>3, <1>4

LEMMA ComponentsAreExact ==
  ASSUME ArchInv, NEW m \in DOMAIN models \ {AsIs}
  PROVE  Applied(m, Diff(m)).comps = Current(m).comps
<1> DEFINE b == models[m]
           diff == Diff(m)
           names == {NameOf(k) : k \in In(m)}
           working(n) == CHOOSE k \in In(m) : NameOf(k) = n
<1>1. (DOMAIN b.comps \ diff.removed) \cup diff.added = names
  <2>1. diff.added = In(m) \ Matched(m)
    BY DEF Diff
  <2>2. diff.removed = DOMAIN b.comps \ {comps[k].origin : k \in Matched(m)}
    BY DEF Diff
  <2>3. Matched(m) \subseteq In(m)
    BY DEF Matched
  <2> QED
    BY <2>1, <2>2, <2>3, Names
<1>2. \A k \in In(m) : working(NameOf(k)) = k
  BY Names
<1>3. \A n \in names : working(n) \in In(m) /\ NameOf(working(n)) = n
  BY <1>2
<1>4. \A n \in names : n \in diff.added <=> working(n) \notin Matched(m)
  BY <1>2, <1>3, Names DEF Diff
<1>5. \A n \in names : n \notin diff.added =>
        LET k == working(n) IN
        /\ k \in Matched(m) /\ comps[k].origin = n
        /\ k \notin diff.modified => comps[k].text = b.comps[n].text
        /\ k \notin diff.moved => NameOf(comps[k].parent) = b.comps[n].parent
        /\ k \notin diff.remapped => comps[k].maps = b.comps[n].maps
  <2> SUFFICES ASSUME NEW n \in names, n \notin diff.added, NEW k, k = working(n)
               PROVE  /\ k \in Matched(m) /\ comps[k].origin = n
                      /\ k \notin diff.modified => comps[k].text = b.comps[n].text
                      /\ k \notin diff.moved => NameOf(comps[k].parent) = b.comps[n].parent
                      /\ k \notin diff.remapped => comps[k].maps = b.comps[n].maps
    OBVIOUS
  <2>1. k \in Matched(m) /\ comps[k].origin = n
    BY <1>3, <1>4, Names
  <2>2. k \notin diff.moved => NameOf(comps[k].parent) = b.comps[n].parent
    BY <2>1, Unmoved DEF Diff
  <2> QED BY <2>1, <2>2 DEF Diff
<1>6. \A n \in diff.added : n \in names /\ working(n) = n
  BY <1>2, Names DEF Diff
<1> DEFINE current(n) == [text |-> comps[working(n)].text,
                          parent |-> NameOf(comps[working(n)].parent),
                          maps |-> comps[working(n)].maps]
           said(k) == [text |-> comps[k].text, parent |-> NameOf(comps[k].parent),
                       maps |-> comps[k].maps]
           changed(n) ==
             [text |-> IF working(n) \in diff.modified
                       THEN comps[working(n)].text ELSE b.comps[n].text,
              parent |-> IF working(n) \in diff.moved
                         THEN NameOf(comps[working(n)].parent) ELSE b.comps[n].parent,
              maps |-> IF working(n) \in diff.remapped
                       THEN comps[working(n)].maps ELSE b.comps[n].maps]
           applied(n) == IF n \in diff.added THEN said(n) ELSE changed(n)
<1>7. \A n \in names : applied(n) = current(n)
  <2> SUFFICES ASSUME NEW n \in names PROVE applied(n) = current(n)
    OBVIOUS
  <2>1. CASE n \in diff.added
    BY <2>1, <1>6
  <2>2. CASE n \notin diff.added
    <3> HIDE DEF diff, b, names, working
    <3> QED BY <2>2, <1>5
  <2> QED BY <2>1, <2>2
<1>8. Current(m).comps = [n \in names |-> current(n)]
  BY DEF Current
<1>9. Applied(m, diff).comps =
        [n \in (DOMAIN b.comps \ diff.removed) \cup diff.added |-> applied(n)]
  BY DEF Applied
<1> HIDE DEF applied, current, names, diff, b
<1>10. [n \in (DOMAIN b.comps \ diff.removed) \cup diff.added |-> applied(n)]
         = [n \in names |-> current(n)]
  BY <1>1, <1>7
<1> QED BY <1>8, <1>9, <1>10 DEF diff

LEMMA LinkEnds ==
  ASSUME ArchInv, NEW m \in DOMAIN models \ {AsIs}, NEW r \in Links(m)
  PROVE  /\ r \in DOMAIN rels /\ r \in Ids /\ rels[r] \in Relation /\ rels[r].model = m
         /\ rels[r].src \in In(m) /\ rels[r].dst \in In(m)
  BY DEF ArchInv, RowsInv, ArchTypeOK, RowTypes, KeysHold, Links

LEMMA RelationsAreExact ==
  ASSUME ArchInv, NEW m \in DOMAIN models \ {AsIs}
  PROVE  Applied(m, Diff(m)).rels = Current(m).rels
<1> DEFINE b == models[m]
           diff == Diff(m)
           name(r) == <<rels[r].kind, NameOf(rels[r].src), NameOf(rels[r].dst)>>
           keyed == {l \in Links(m) : HasKey(m, l)}
           keys == {RelKey(r) : r \in keyed}
<1>1. \A r \in keyed : name(r) = RelKey(r)
  <2> SUFFICES ASSUME NEW r \in keyed PROVE name(r) = RelKey(r)
    OBVIOUS
  <2>1. /\ rels[r].src \in In(m) /\ rels[r].dst \in In(m)
        /\ rels[r].src # None /\ rels[r].dst # None
    BY LinkEnds, Proposed
  <2>2. comps[rels[r].src].origin # None /\ comps[rels[r].dst].origin # None
    BY <2>1, Proposed DEF HasKey, OriginOf
  <2> QED BY <2>1, <2>2 DEF RelKey, NameOf, OriginOf
<1>2. diff.addedRels = {r \in Links(m) : r \notin keyed \/ RelKey(r) \notin b.rels}
  BY DEF Diff
<1>3. diff.removedRels = b.rels \ keys
  BY DEF Diff
<1>4. Current(m).rels = {name(r) : r \in Links(m)}
  BY DEF Current
<1>5. Applied(m, diff).rels =
        (b.rels \ diff.removedRels) \cup {name(r) : r \in diff.addedRels}
  BY DEF Applied
<1>6. \A r \in Links(m) : r \in diff.addedRels \/ (r \in keyed /\ RelKey(r) \in b.rels)
  BY <1>2
<1>7. b.rels \ diff.removedRels = b.rels \cap keys
  BY <1>3
<1>8. keys = {name(r) : r \in keyed}
  BY <1>1
<1>9. diff.addedRels \subseteq Links(m) /\ keyed \subseteq Links(m)
  BY <1>2
<1> HIDE DEF name, keyed, diff, b
<1>10. Applied(m, diff).rels \subseteq Current(m).rels
  BY <1>4, <1>5, <1>7, <1>8, <1>9
<1>11. ASSUME NEW r \in Links(m) PROVE name(r) \in Applied(m, diff).rels
  <2>1. CASE r \in diff.addedRels
    BY <2>1, <1>5
  <2>2. CASE r \in keyed /\ RelKey(r) \in b.rels
    <3>1. name(r) \in b.rels \cap keys
      BY <2>2, <1>1
    <3> QED BY <3>1, <1>5, <1>7
  <2> QED BY <1>6, <2>1, <2>2
<1> QED BY <1>4, <1>10, <1>11 DEF diff

LEMMA InvImpliesExact == ArchInv => DiffIsExact
<1> SUFFICES ASSUME ArchInv, NEW m \in DOMAIN models \ {AsIs}
             PROVE  Applied(m, Diff(m)) = Current(m)
  BY DEF DiffIsExact
<1>1. /\ Applied(m, Diff(m)) = [comps |-> Applied(m, Diff(m)).comps,
                                rels |-> Applied(m, Diff(m)).rels]
      /\ Current(m) = [comps |-> Current(m).comps, rels |-> Current(m).rels]
  BY DEF Applied, Current
<1> QED BY <1>1, ComponentsAreExact, RelationsAreExact
------------------------------------------------------------------------------
(* What every step needs: identities and models are only ever added.        *)

Growing ==
  /\ given' \in Nat /\ given <= given'
  /\ DOMAIN models \subseteq DOMAIN models'

LEMMA TypesGrow ==
  ASSUME RowsInv, Growing
  PROVE  /\ Ids \subseteq Ids' /\ Component \subseteq Component'
         /\ Relation \subseteq Relation'
         /\ \A b : BaselineOK(b) => BaselineOK(b)'
<1>1. Ids \subseteq Ids'
  BY DEF RowsInv, ArchTypeOK, RowTypes, Growing, Ids
<1>2. Component \subseteq Component' /\ Relation \subseteq Relation'
  BY <1>1 DEF Component, Relation, Growing
<1> QED BY <1>1, <1>2 DEF BaselineOK

LEMMA ReadsStay ==
  ASSUME RowsInv, Growing, NEW w, RequestOK(w)
  PROVE  RequestOK(w)'
<1>1. ReadOK(w) => ReadOK(w)'
  BY TypesGrow DEF ReadOK, Growing
<1>2. ASSUME DOMAIN w.rels \subseteq Ids, w.rels \in [DOMAIN w.rels -> Relation]
      PROVE  DOMAIN w.rels \subseteq Ids' /\ w.rels \in [DOMAIN w.rels -> Relation']
  BY <1>2, TypesGrow
<1> QED BY <1>1, <1>2 DEF RequestOK, Growing

LEMMA RequestsStay ==
  ASSUME ArchInv, Growing, NEW c \in Clients, NEW w, RequestOK(w)',
         request' = [request EXCEPT ![c] = w]
  PROVE  RequestsInv'
<1>1. request' = [d \in Clients |-> request'[d]]
  BY DEF ArchInv, RequestsInv
<1>2. ASSUME NEW d \in Clients PROVE RequestOK(request[d])'
  <2>1. PICK v : v = request'[d] /\ RequestOK(v)'
    <3>1. CASE d = c
      BY <3>1 DEF ArchInv, RequestsInv
    <3>2. CASE d # c
      BY <3>2, ReadsStay DEF ArchInv, RequestsInv
    <3> QED BY <3>1, <3>2
  <2> QED BY <2>1 DEF RequestOK, ReadOK
<1> QED BY <1>1, <1>2 DEF RequestsInv
------------------------------------------------------------------------------
(* The rows: nothing changes, one component changes, rows go, rows come.    *)

LEMMA RowsStay ==
  ASSUME RowsInv, UNCHANGED <<rows, given>>, asked' \in 0..MaxRequests
  PROVE  RowsInv'
  BY DEF RowsInv, ArchTypeOK, RowTypes, KeysHold, NamesAreUnique, rows, Ids, Component,
         Relation, BaselineOK, MayHold, In

LEMMA OneComponent ==
  ASSUME RowsInv, NEW k \in DOMAIN comps, NEW v \in Component,
         v.model = comps[k].model, v.origin = comps[k].origin,
         MayHold(v.model, v.parent),
         comps' = [comps EXCEPT ![k] = v],
         UNCHANGED <<models, rels, given, asked>>
  PROVE  RowsInv'
<1>1. /\ DOMAIN comps' = DOMAIN comps
      /\ comps'[k] = v
      /\ \A d \in DOMAIN comps : d # k => comps'[d] = comps[d]
      /\ \A d \in DOMAIN comps : comps'[d].model = comps[d].model
                                 /\ comps'[d].origin = comps[d].origin
  BY DEF RowsInv, ArchTypeOK, RowTypes
<1>2. \A m : In(m)' = In(m)
  BY <1>1 DEF In
<1>3. \A m, p : MayHold(m, p)' <=> MayHold(m, p)
  BY <1>2 DEF MayHold
<1>4. Ids' = Ids /\ Component' = Component /\ Relation' = Relation
  BY DEF Ids, Component, Relation
<1>5. \A b : BaselineOK(b)' <=> BaselineOK(b)
  BY DEF BaselineOK, Ids
<1>6. comps' \in [DOMAIN comps' -> Component']
  BY <1>1, <1>4 DEF RowsInv, ArchTypeOK, RowTypes
<1>7. RowTypes'
  BY <1>1, <1>4, <1>5, <1>6 DEF RowsInv, ArchTypeOK, RowTypes
<1>8. KeysHold'
  <2>1. ASSUME NEW d \in DOMAIN comps
        PROVE  /\ MayHold(comps[d].model, comps[d].parent)'
               /\ comps'[d].origin # None =>
                    /\ comps'[d].model # AsIs
                    /\ comps'[d].origin \in DOMAIN models'[comps'[d].model].comps
    <3>1. MayHold(comps'[d].model, comps'[d].parent)
      BY <1>1 DEF RowsInv, ArchTypeOK, KeysHold
    <3>2. MayHold(comps[d].model, comps[d].parent)'
      BY <3>1, <1>2 DEF MayHold
    <3> QED BY <3>2, <1>1 DEF RowsInv, ArchTypeOK, KeysHold
  <2>2. ASSUME NEW r \in DOMAIN rels
        PROVE  {rels'[r].src, rels'[r].dst} \subseteq In(rels[r].model)'
    BY <1>2 DEF RowsInv, ArchTypeOK, KeysHold
  <2> QED BY <1>1, <2>1, <2>2 DEF KeysHold
<1>9. NamesAreUnique'
  BY <1>1 DEF RowsInv, NamesAreUnique
<1> QED BY <1>7, <1>8, <1>9 DEF RowsInv, ArchTypeOK

LEMMA RowsGo ==
  ASSUME RowsInv, NEW S \in SUBSET DOMAIN comps, NEW R \in SUBSET DOMAIN rels,
         \A k \in S : comps[k].parent \in S \cup {None},
         \A r \in R : {rels[r].src, rels[r].dst} \subseteq S,
         comps' = Restrict(comps, S), rels' = Restrict(rels, R),
         UNCHANGED <<models, given, asked>>
  PROVE  RowsInv'
<1>1. /\ DOMAIN comps' = S /\ \A k \in S : comps'[k] = comps[k]
      /\ DOMAIN rels' = R /\ \A r \in R : rels'[r] = rels[r]
  BY DEF Restrict
<1>2. Ids' = Ids /\ Component' = Component /\ Relation' = Relation
  BY DEF Ids, Component, Relation
<1>3. \A b : BaselineOK(b)' <=> BaselineOK(b)
  BY DEF BaselineOK, Ids
<1>4. /\ comps' \in [DOMAIN comps' -> Component']
      /\ rels' \in [DOMAIN rels' -> Relation']
  BY <1>1, <1>2 DEF RowsInv, ArchTypeOK, RowTypes, Restrict
<1>5. RowTypes'
  BY <1>1, <1>2, <1>3, <1>4 DEF RowsInv, ArchTypeOK, RowTypes
<1>6. \A m : In(m)' = In(m) \cap S
  BY <1>1 DEF In
<1>7. KeysHold'
  <2>1. ASSUME NEW k \in S
        PROVE  /\ MayHold(comps[k].model, comps[k].parent)'
               /\ comps'[k].origin # None =>
                    /\ comps'[k].model # AsIs
                    /\ comps'[k].origin \in DOMAIN models'[comps'[k].model].comps
    <3>1. comps[k].parent = None \/ comps[k].parent \in In(comps[k].model) \cap S
      BY DEF RowsInv, ArchTypeOK, KeysHold, MayHold
    <3>2. MayHold(comps[k].model, comps[k].parent)'
      BY <1>1, <1>6, <3>1 DEF MayHold
    <3> QED BY <3>2, <1>1 DEF RowsInv, ArchTypeOK, KeysHold
  <2>2. ASSUME NEW r \in R
        PROVE  {rels'[r].src, rels'[r].dst} \subseteq In(rels[r].model)'
    BY <1>1, <1>6 DEF RowsInv, ArchTypeOK, KeysHold
  <2> QED BY <1>1, <2>1, <2>2 DEF KeysHold
<1>8. NamesAreUnique'
  BY <1>1 DEF RowsInv, NamesAreUnique
<1> QED BY <1>5, <1>7, <1>8 DEF RowsInv, ArchTypeOK

LEMMA RowsCome ==
  ASSUME RowsInv, Growing, NEW cs, NEW ls, UNCHANGED asked,
         DOMAIN models' \subseteq {AsIs} \cup Proposals,
         \A m \in DOMAIN models : models'[m] = models[m],
         \A m \in DOMAIN models' \ DOMAIN models : BaselineOK(models[m])',
         DOMAIN cs \subseteq given + 1..given', cs \in [DOMAIN cs -> Component'],
         DOMAIN ls \subseteq given + 1..given', ls \in [DOMAIN ls -> Relation'],
         comps' = Stored(comps, cs), rels' = Stored(rels, ls),
         \A k \in DOMAIN cs : cs[k].parent \in {None} \cup In(cs[k].model)',
         \A k \in DOMAIN cs : cs[k].origin # None =>
            /\ cs[k].model \notin DOMAIN models
            /\ cs[k].origin \in DOMAIN models'[cs[k].model].comps,
         \A k \in DOMAIN cs : cs[k].model # AsIs =>
            k \notin DOMAIN models'[cs[k].model].comps,
         \A k, d \in DOMAIN cs : cs[k].origin = cs[d].origin /\ cs[k].origin # None => k = d,
         \A r \in DOMAIN ls : {ls[r].src, ls[r].dst} \subseteq In(ls[r].model)'
  PROVE  RowsInv'
<1> USE DEF RowsInv, ArchTypeOK
<1>1. /\ DOMAIN comps \cap DOMAIN cs = {} /\ DOMAIN rels \cap DOMAIN ls = {}
      /\ DOMAIN comps \subseteq Ids' /\ DOMAIN rels \subseteq Ids'
      /\ DOMAIN cs \subseteq Ids' /\ DOMAIN ls \subseteq Ids'
  BY DEF RowTypes, Ids, Growing
<1>2. /\ DOMAIN comps' = DOMAIN comps \cup DOMAIN cs
      /\ DOMAIN rels' = DOMAIN rels \cup DOMAIN ls
      /\ \A k \in DOMAIN comps : comps'[k] = comps[k]
      /\ \A k \in DOMAIN cs : comps'[k] = cs[k]
      /\ \A r \in DOMAIN rels : rels'[r] = rels[r]
      /\ \A r \in DOMAIN ls : rels'[r] = ls[r]
      /\ comps' = [k \in DOMAIN comps' |-> comps'[k]]
      /\ rels' = [r \in DOMAIN rels' |-> rels'[r]]
  BY <1>1 DEF Stored
<1>3. /\ \A k \in DOMAIN comps : comps[k] \in Component'
      /\ \A r \in DOMAIN rels : rels[r] \in Relation'
  BY TypesGrow DEF RowTypes
<1>4. \A k \in DOMAIN comps' : comps'[k] \in Component'
  BY <1>2, <1>3
<1>5. \A r \in DOMAIN rels' : rels'[r] \in Relation'
  BY <1>2, <1>3
<1>6. /\ comps' \in [DOMAIN comps' -> Component']
      /\ rels' \in [DOMAIN rels' -> Relation']
  BY <1>2, <1>4, <1>5
<1>7. AsIs \in DOMAIN models' /\ models'[AsIs] = None
  BY DEF RowTypes, Growing
<1>8. ASSUME NEW m \in DOMAIN models' \ {AsIs} PROVE BaselineOK(models[m])'
  <2>1. CASE m \in DOMAIN models
    <3>1. PICK b : b = models'[m] /\ BaselineOK(b)'
      BY <2>1, TypesGrow DEF RowTypes
    <3> QED BY <3>1 DEF BaselineOK
  <2>2. CASE m \notin DOMAIN models
    BY <2>2
  <2> QED BY <2>1, <2>2
<1>9. RowTypes'
  BY <1>1, <1>2, <1>6, <1>7, <1>8 DEF RowTypes, Growing
<1>10. \A m : In(m) \subseteq In(m)'
  BY <1>2 DEF In
<1>11. KeysHold'
  <2>1. ASSUME NEW k \in DOMAIN comps'
        PROVE  /\ MayHold(comps[k].model, comps[k].parent)'
               /\ comps'[k].origin # None =>
                    /\ comps'[k].model # AsIs
                    /\ comps'[k].origin \in DOMAIN models'[comps'[k].model].comps
    <3>1. CASE k \in DOMAIN comps
      <4>1. comps[k].parent \in {None} \cup In(comps[k].model)
        BY <3>1 DEF KeysHold, MayHold
      <4>2. MayHold(comps[k].model, comps[k].parent)'
        BY <4>1, <3>1, <1>2, <1>10 DEF MayHold
      <4>3. comps[k].model \in DOMAIN models
        BY <3>1 DEF RowTypes, Component
      <4> QED BY <4>2, <4>3, <3>1, <1>2 DEF KeysHold
    <3>2. CASE k \in DOMAIN cs
      <4>1. MayHold(comps[k].model, comps[k].parent)'
        BY <3>2, <1>2 DEF MayHold
      <4> QED BY <4>1, <3>2, <1>2 DEF RowTypes
    <3> QED BY <3>1, <3>2, <1>2
  <2>2. ASSUME NEW r \in DOMAIN rels'
        PROVE  {rels'[r].src, rels'[r].dst} \subseteq In(rels[r].model)'
    <3>1. CASE r \in DOMAIN rels
      BY <3>1, <1>2, <1>10 DEF KeysHold
    <3>2. CASE r \in DOMAIN ls
      BY <3>2, <1>2
    <3> QED BY <3>1, <3>2, <1>2
  <2> QED BY <2>1, <2>2 DEF KeysHold
<1>12. NamesAreUnique'
  <2>1. ASSUME NEW k \in DOMAIN comps', NEW d \in DOMAIN comps',
               comps'[k].model = comps'[d].model,
               comps'[k].origin = comps'[d].origin, comps'[k].origin # None
        PROVE  k = d
    <3>1. \A x \in DOMAIN comps : comps'[x].model \in DOMAIN models
      BY <1>2 DEF RowTypes, Component
    <3>2. \A x \in DOMAIN cs : comps'[x].origin # None => comps'[x].model \notin DOMAIN models
      BY <1>2
    <3>3. CASE k \in DOMAIN comps /\ d \in DOMAIN comps
      BY <2>1, <3>3, <1>2 DEF NamesAreUnique
    <3>4. CASE k \in DOMAIN cs /\ d \in DOMAIN cs
      BY <2>1, <3>4, <1>2
    <3> QED BY <2>1, <3>1, <3>2, <3>3, <3>4, <1>2
  <2>2. ASSUME NEW k \in DOMAIN comps', comps'[k].model # AsIs
        PROVE  k \notin DOMAIN models'[comps'[k].model].comps
    <3>1. CASE k \in DOMAIN comps
      <4>1. comps[k].model \in DOMAIN models
        BY <3>1 DEF RowTypes, Component
      <4> QED BY <4>1, <3>1, <2>2, <1>2 DEF NamesAreUnique
    <3>2. CASE k \in DOMAIN cs
      BY <3>2, <2>2, <1>2
    <3> QED BY <3>1, <3>2, <1>2
  <2> QED BY <2>1, <2>2 DEF NamesAreUnique
<1> QED BY <1>9, <1>11, <1>12
------------------------------------------------------------------------------
(* Requests and readings.                                                   *)

LEMMA InitInv == Init => ArchInv
<1> SUFFICES ASSUME Init PROVE ArchInv
  OBVIOUS
<1> PICK seed \in Seeds :
      /\ comps = [k \in DOMAIN seed.comps |->
                    [model |-> AsIs, origin |-> None, text |-> seed.comps[k].text,
                     parent |-> seed.comps[k].parent, maps |-> seed.comps[k].maps]]
      /\ rels = [r \in DOMAIN seed.rels |->
                   [model |-> AsIs, kind |-> seed.rels[r].kind,
                    src |-> seed.rels[r].src, dst |-> seed.rels[r].dst]]
      /\ given = Cardinality(DOMAIN seed.comps) + Cardinality(DOMAIN seed.rels)
  BY DEF Init
<1>1. /\ given \in Nat /\ asked \in 0..MaxRequests
      /\ DOMAIN models = {AsIs} /\ models[AsIs] = None
  BY ArchAssumption DEF Init
<1>2. DOMAIN comps \subseteq Ids /\ DOMAIN rels \subseteq Ids
  BY ArchAssumption DEF Ids
<1>3. In(AsIs) = DOMAIN comps
  BY DEF In
<1>4. ASSUME NEW k \in DOMAIN comps
      PROVE  /\ comps[k] \in Component /\ comps[k].model = AsIs /\ comps[k].origin = None
             /\ comps[k].parent \in DOMAIN comps \cup {None}
  <2>1. /\ seed.comps[k].text \in Texts /\ seed.comps[k].maps \subseteq Entities
        /\ seed.comps[k].parent \in DOMAIN seed.comps \cup {None}
    BY ArchAssumption
  <2> QED BY <1>1, <1>2, <2>1 DEF Component
<1>5. ASSUME NEW r \in DOMAIN rels
      PROVE  /\ rels[r] \in Relation /\ rels[r].model = AsIs
             /\ {rels[r].src, rels[r].dst} \subseteq DOMAIN comps
  <2>1. /\ seed.rels[r].kind \in Kinds
        /\ {seed.rels[r].src, seed.rels[r].dst} \subseteq DOMAIN seed.comps
    BY ArchAssumption
  <2> QED BY <1>1, <1>2, <2>1 DEF Relation
<1>6. comps \in [DOMAIN comps -> Component] /\ rels \in [DOMAIN rels -> Relation]
  BY <1>4, <1>5
<1>7. RowTypes
  BY <1>1, <1>2, <1>6 DEF RowTypes
<1>8. KeysHold
  BY <1>3, <1>4, <1>5 DEF KeysHold, MayHold
<1>9. NamesAreUnique
  BY <1>4 DEF NamesAreUnique
<1>10. RequestsInv
  BY DEF Init, RequestsInv, RequestOK, Idle
<1> QED BY <1>7, <1>8, <1>9, <1>10 DEF ArchInv, RowsInv, ArchTypeOK

LEMMA AskKeeps ==
  ASSUME ArchInv, NEW c \in Clients, Free(c), NEW w, RequestOK(w), Ask(c, w)
  PROVE  ArchInv'
<1>1. Growing
  BY DEF Ask, rows, Growing, ArchInv, RowsInv, ArchTypeOK, RowTypes
<1>2. RequestOK(w)'
  BY <1>1, ReadsStay DEF ArchInv
<1>3. RequestsInv'
  BY <1>1, <1>2, RequestsStay DEF Ask
<1>4. asked' \in 0..MaxRequests
  BY ArchAssumption DEF Ask, Free, ArchInv, RowsInv, ArchTypeOK, RowTypes
<1>5. RowsInv'
  BY <1>4, RowsStay DEF Ask, ArchInv
<1> QED BY <1>3, <1>5 DEF ArchInv

(* A reading of one statement is closed under parents.                      *)
LEMMA ForkKeeps ==
  ASSUME ArchInv, NEW c \in Clients, Free(c), NEW m, Fork(c, m)
  PROVE  ArchInv'
<1> DEFINE read == [k \in In(m) |-> [comps[k] EXCEPT !.maps = {}]]
           w == [op |-> "fork relations", source |-> m, comps |-> read]
<1>1. ASSUME NEW k \in In(m)
      PROVE  /\ k \in Ids /\ read[k] \in Component
             /\ read[k].parent \in In(m) \cup {None}
  <2>1. k \in DOMAIN comps /\ comps[k].model = m /\ comps[k] \in Component /\ k \in Ids
    BY DEF In, ArchInv, RowsInv, ArchTypeOK, RowTypes
  <2>2. comps[k].parent \in In(m) \cup {None}
    BY <2>1 DEF ArchInv, RowsInv, ArchTypeOK, KeysHold, MayHold
  <2> QED BY <2>1, <2>2 DEF Component
<1>2. ReadOK(w)
  BY <1>1 DEF ReadOK, Fork
<1>3. RequestOK(w)
  BY <1>2 DEF RequestOK
<1>4. Ask(c, w)
  BY DEF Fork
<1> QED BY <1>3, <1>4, AskKeeps

LEMMA RequestKeeps ==
  ASSUME ArchInv, NEW c \in Clients, Request(c)
  PROVE  ArchInv'
<1> Free(c)
  BY DEF Request
<1> USE DEF RequestOK
<1>1. ASSUME NEW m \in DOMAIN models, NEW t \in Texts, NEW p, NEW E \in SUBSET Entities,
             CreateComponent(c, m, t, p, E)
      PROVE  ArchInv'
  BY <1>1, AskKeeps DEF CreateComponent
<1>2. ASSUME NEW k, NEW t \in Texts, UpdateText(c, k, t)
      PROVE  ArchInv'
  BY <1>2, AskKeeps DEF UpdateText
<1>3. ASSUME NEW k, NEW p, Reparent(c, k, p)
      PROVE  ArchInv'
  BY <1>3, AskKeeps DEF Reparent
<1>4. ASSUME NEW k, DeleteComponent(c, k) \/ DeleteSubtree(c, k)
      PROVE  ArchInv'
  BY <1>4, AskKeeps DEF DeleteComponent, DeleteSubtree
<1>5. ASSUME NEW m, NEW kind \in Kinds, NEW s, NEW d, CreateRelation(c, m, kind, s, d)
      PROVE  ArchInv'
  BY <1>5, AskKeeps DEF CreateRelation
<1>6. ASSUME NEW r, NEW kind \in Kinds, UpdateRelation(c, r, kind)
      PROVE  ArchInv'
  BY <1>6, AskKeeps DEF UpdateRelation
<1>7. ASSUME NEW r, DeleteRelation(c, r)
      PROVE  ArchInv'
  BY <1>7, AskKeeps DEF DeleteRelation
<1>8. ASSUME NEW k, NEW E \in SUBSET Entities, CreateMappings(c, k, E)
      PROVE  ArchInv'
  BY <1>8, AskKeeps DEF CreateMappings
<1>9. ASSUME NEW k, NEW e, DeleteMapping(c, k, e)
      PROVE  ArchInv'
  BY <1>9, AskKeeps DEF DeleteMapping
<1>10. ASSUME NEW m, Fork(c, m)
       PROVE  ArchInv'
  BY <1>10, ForkKeeps
<1> QED
  BY <1>1, <1>2, <1>3, <1>4, <1>5, <1>6, <1>7, <1>8, <1>9, <1>10 DEF Request

LEMMA ReadKeeps ==
  ASSUME ArchInv, NEW c \in Clients, NEW w, RequestOK(w),
         request' = [request EXCEPT ![c] = w], UNCHANGED <<rows, given, asked>>
  PROVE  ArchInv'
<1>1. Growing
  BY DEF rows, Growing, ArchInv, RowsInv, ArchTypeOK, RowTypes
<1>2. RequestsInv'
  BY <1>1, ReadsStay, RequestsStay DEF ArchInv
<1>3. RowsInv'
  BY RowsStay DEF ArchInv, RowsInv, ArchTypeOK, RowTypes
<1> QED BY <1>2, <1>3 DEF ArchInv

LEMMA ForkReadsKeep ==
  ASSUME ArchInv, NEW c \in Clients,
         ForkReadRelations(c) \/ \E k : ForkReadMappings(c, k)
  PROVE  ArchInv'
<1> DEFINE q == request[c]
<1>1. RequestOK(q)
  BY DEF ArchInv, RequestsInv
<1>2. CASE ForkReadRelations(c)
  <2> DEFINE links == Restrict(rels, Links(q.source))
             w == [op |-> "fork", source |-> q.source, comps |-> q.comps,
                   rels |-> links, unread |-> DOMAIN q.comps]
  <2>1. ReadOK(q)
    BY <1>1, <1>2 DEF RequestOK, ForkReadRelations
  <2>2. DOMAIN links \subseteq Ids /\ links \in [DOMAIN links -> Relation]
    BY DEF Restrict, Links, ArchInv, RowsInv, ArchTypeOK, RowTypes
  <2>3. RequestOK(w)
    BY <2>1, <2>2 DEF RequestOK, ReadOK
  <2>4. request' = [request EXCEPT ![c] = w]
    BY <1>2 DEF ForkReadRelations, ArchInv, RequestsInv
  <2> QED BY <2>3, <2>4, <1>2, ReadKeeps DEF ForkReadRelations
<1>3. ASSUME NEW k, ForkReadMappings(c, k) PROVE ArchInv'
  <2> DEFINE found == IF k \in DOMAIN comps THEN comps[k].maps ELSE {}
             w == [op |-> "fork", source |-> q.source, rels |-> q.rels,
                   comps |-> [q.comps EXCEPT ![k].maps = found],
                   unread |-> q.unread \ {k}]
  <2>1. ReadOK(q) /\ q.op = "fork"
    BY <1>1, <1>3 DEF RequestOK, ForkReadMappings
  <2>2. found \in SUBSET Entities
    BY DEF ArchInv, RowsInv, ArchTypeOK, RowTypes, Component
  <2>3. request' = [request EXCEPT ![c] = w]
    BY <1>3 DEF ForkReadMappings, ArchInv, RequestsInv
  <2>4. /\ DOMAIN w.comps = DOMAIN q.comps
        /\ \A d \in DOMAIN q.comps :
             w.comps[d] = IF d = k THEN [q.comps[d] EXCEPT !.maps = found] ELSE q.comps[d]
        /\ w.comps = [d \in DOMAIN w.comps |-> w.comps[d]]
    BY <2>1 DEF ReadOK
  <2>5. \A d \in DOMAIN q.comps :
          w.comps[d] \in Component /\ w.comps[d].parent = q.comps[d].parent
    <3> SUFFICES ASSUME NEW d \in DOMAIN q.comps
                 PROVE  w.comps[d] \in Component /\ w.comps[d].parent = q.comps[d].parent
      OBVIOUS
    <3>1. q.comps[d] \in Component
      BY <2>1 DEF ReadOK
    <3> HIDE DEF w, found, q
    <3> QED BY <3>1, <2>2, <2>4 DEF Component
  <2>6. ReadOK(w)
    <3>1. w.comps \in [DOMAIN w.comps -> Component]
      BY <2>4, <2>5
    <3>2. w.source = q.source
      OBVIOUS
    <3> HIDE DEF w
    <3> QED BY <2>1, <2>4, <2>5, <3>1, <3>2 DEF ReadOK
  <2>7. RequestOK(w)
    BY <1>1, <2>1, <2>6 DEF RequestOK
  <2> QED BY <2>3, <2>7, <1>3, ReadKeeps DEF ForkReadMappings
<1> QED BY <1>2, <1>3
------------------------------------------------------------------------------
(* The transactions.                                                        *)

(* A write ends its request; what is left to show is about the rows.        *)
LEMMA Written ==
  ASSUME ArchInv, NEW c \in Clients, NEW op, Under(c, op), Growing, RowsInv'
  PROVE  ArchInv'
<1>1. RequestOK(Idle)'
  BY DEF RequestOK, Idle
<1>2. RequestsInv'
  BY <1>1, RequestsStay DEF Under
<1> QED BY <1>2 DEF ArchInv

LEMMA StillGrowing ==
  ASSUME ArchInv, UNCHANGED <<models, given>>
  PROVE  Growing
  BY DEF Growing, ArchInv, RowsInv, ArchTypeOK, RowTypes

LEMMA ComponentWrites ==
  ASSUME ArchInv, NEW c \in Clients,
         WriteText(c) \/ WriteParent(c) \/ WriteMappings(c) \/ EraseMapping(c)
  PROVE  ArchInv'
<1> DEFINE w == request[c]
           k == w.comp
<1>1. RequestOK(w)
  BY DEF ArchInv, RequestsInv
<1>2. UNCHANGED <<models, rels, given, asked>>
  BY DEF WriteText, WriteParent, WriteMappings, EraseMapping, Under
<1>3. \E op : Under(c, op)
  BY DEF WriteText, WriteParent, WriteMappings, EraseMapping
<1>4. \A d \in DOMAIN comps :
        /\ comps[d] \in Component
        /\ MayHold(comps[d].model, comps[d].parent)
  BY DEF ArchInv, RowsInv, ArchTypeOK, RowTypes, KeysHold
<1>5. CASE WriteText(c)
  <2> DEFINE v == [comps[k] EXCEPT !.text = w.text]
  <2>1. k \in DOMAIN comps /\ w.text \in Texts /\ comps' = [comps EXCEPT ![k] = v]
    BY <1>1, <1>5 DEF WriteText, Under, RequestOK
  <2>2. v \in Component /\ v.model = comps[k].model /\ v.origin = comps[k].origin
        /\ v.parent = comps[k].parent
    BY <2>1, <1>4 DEF Component
  <2>3. RowsInv'
    BY <2>1, <2>2, <1>2, <1>4, OneComponent DEF ArchInv
  <2> QED BY <2>3, <1>2, <1>3, Written, StillGrowing
<1>6. CASE WriteParent(c)
  <2> DEFINE v == [comps[k] EXCEPT !.parent = w.parent]
  <2>1. /\ k \in DOMAIN comps /\ comps' = [comps EXCEPT ![k] = v]
        /\ MayHold(comps[k].model, w.parent)
    BY <1>6 DEF WriteParent
  <2>2. w.parent \in Ids \cup {None}
    BY <2>1 DEF MayHold, In, ArchInv, RowsInv, ArchTypeOK, RowTypes
  <2>3. v \in Component /\ v.model = comps[k].model /\ v.origin = comps[k].origin
        /\ v.parent = w.parent
    BY <2>1, <2>2, <1>4 DEF Component
  <2>4. RowsInv'
    BY <2>1, <2>3, <1>2, OneComponent DEF ArchInv
  <2> QED BY <2>4, <1>2, <1>3, Written, StillGrowing
<1>7. CASE WriteMappings(c)
  <2> DEFINE v == [comps[k] EXCEPT !.maps = @ \cup w.maps]
  <2>1. k \in DOMAIN comps /\ w.maps \subseteq Entities /\ comps' = [comps EXCEPT ![k] = v]
    BY <1>1, <1>7 DEF WriteMappings, Under, RequestOK
  <2>2. v \in Component /\ v.model = comps[k].model /\ v.origin = comps[k].origin
        /\ v.parent = comps[k].parent
    BY <2>1, <1>4 DEF Component
  <2>3. RowsInv'
    BY <2>1, <2>2, <1>2, <1>4, OneComponent DEF ArchInv
  <2> QED BY <2>3, <1>2, <1>3, Written, StillGrowing
<1>8. CASE EraseMapping(c)
  <2>1. CASE k \in DOMAIN comps
    <3> DEFINE v == [comps[k] EXCEPT !.maps = @ \ {w.entity}]
    <3>1. comps' = [comps EXCEPT ![k] = v]
      BY <1>8, <2>1 DEF EraseMapping
    <3>2. v \in Component /\ v.model = comps[k].model /\ v.origin = comps[k].origin
          /\ v.parent = comps[k].parent
      BY <2>1, <1>4 DEF Component
    <3>3. RowsInv'
      BY <2>1, <3>1, <3>2, <1>2, <1>4, OneComponent DEF ArchInv
    <3> QED BY <3>3, <1>2, <1>3, Written, StillGrowing
  <2>2. CASE k \notin DOMAIN comps
    <3>1. UNCHANGED rows /\ asked' \in 0..MaxRequests
      BY <1>8, <1>2, <2>2 DEF EraseMapping, rows, ArchInv, RowsInv, ArchTypeOK, RowTypes
    <3>2. RowsInv'
      BY <3>1, <1>2, RowsStay DEF ArchInv
    <3> QED BY <3>2, <1>2, <1>3, Written, StillGrowing
  <2> QED BY <2>1, <2>2
<1> QED BY <1>5, <1>6, <1>7, <1>8

LEMMA Erasures ==
  ASSUME ArchInv, NEW c \in Clients,
         EraseComponent(c) \/ EraseSubtree(c) \/ EraseRelation(c)
  PROVE  ArchInv'
<1>1. UNCHANGED <<models, given, asked>> /\ \E op : Under(c, op)
  BY DEF EraseComponent, EraseSubtree, EraseRelation, Under
<1>2. \A k \in DOMAIN comps : comps[k].parent \in DOMAIN comps \cup {None}
  BY DEF ArchInv, RowsInv, ArchTypeOK, KeysHold, MayHold, In
<1>3. \A r \in DOMAIN rels : {rels[r].src, rels[r].dst} \subseteq DOMAIN comps
  BY DEF ArchInv, RowsInv, ArchTypeOK, KeysHold, In
<1>4. rels = Restrict(rels, DOMAIN rels) /\ comps = Restrict(comps, DOMAIN comps)
  BY DEF Restrict, ArchInv, RowsInv, ArchTypeOK, RowTypes
<1>5. CASE EraseComponent(c)
  <2> DEFINE S == DOMAIN comps \ {request[c].comp}
  <2>1. /\ \A k \in S : comps[k].parent \in S \cup {None}
        /\ \A r \in DOMAIN rels : {rels[r].src, rels[r].dst} \subseteq S
    BY <1>2, <1>3, <1>5 DEF EraseComponent, Children, Touching
  <2>2. RowsInv'
    BY <1>1, <1>4, <1>5, <2>1, RowsGo DEF EraseComponent, ArchInv
  <2> QED BY <2>2, <1>1, Written, StillGrowing
<1>6. CASE EraseSubtree(c)
  <2> DEFINE members == DOMAIN request[c].depth
             S == DOMAIN comps \ members
             R == DOMAIN rels \ UNION {Touching(k) : k \in members}
  <2>1. \A k \in S : comps[k].parent \in S \cup {None}
    BY <1>2, <1>6 DEF EraseSubtree, Children
  <2>2. \A r \in R : {rels[r].src, rels[r].dst} \subseteq S
    BY <1>3 DEF Touching
  <2>3. RowsInv'
    BY <1>1, <1>6, <2>1, <2>2, RowsGo DEF EraseSubtree, ArchInv
  <2> QED BY <2>3, <1>1, Written, StillGrowing
<1>7. CASE EraseRelation(c)
  <2> DEFINE R == DOMAIN rels \ {request[c].rel}
  <2>1. comps' = Restrict(comps, DOMAIN comps) /\ rels' = Restrict(rels, R)
    BY <1>4, <1>7 DEF EraseRelation
  <2>2. RowsInv'
    BY <1>1, <1>2, <1>3, <2>1, RowsGo DEF ArchInv
  <2> QED BY <2>2, <1>1, Written, StillGrowing
<1> QED BY <1>5, <1>6, <1>7

NoRows == [k \in {} |-> k]

LEMMA NothingComes ==
  ASSUME RowsInv
  PROVE  /\ DOMAIN NoRows = {}
         /\ Stored(comps, NoRows) = comps /\ Stored(rels, NoRows) = rels
  BY DEF Stored, NoRows, RowsInv, ArchTypeOK, RowTypes

(* One component comes.                                                     *)
LEMMA ComponentComes ==
  ASSUME RowsInv, NEW row \in Component, row.origin = None,
         MayHold(row.model, row.parent), NEW n, n = given + 1, given' = n,
         comps' = Stored(comps, [k \in {n} |-> row]),
         UNCHANGED <<models, rels, asked>>
  PROVE  RowsInv'
<1> DEFINE cs == [k \in {n} |-> row]
<1>1. given \in Nat /\ n \in Nat /\ n \notin Ids
  BY DEF RowsInv, ArchTypeOK, RowTypes, Ids
<1>2. Growing
  BY <1>1 DEF Growing
<1>3. /\ DOMAIN cs = {n} /\ cs[n] = row /\ \A k \in DOMAIN cs : cs[k] = row
      /\ {n} = given + 1..given'
  BY <1>1
<1>4. row \in Component' /\ row.model \in DOMAIN models
  BY <1>2, TypesGrow DEF Component
<1>5. \A k \in DOMAIN comps : k \in DOMAIN comps' /\ comps'[k] = comps[k]
  BY <1>1 DEF Stored, RowsInv, ArchTypeOK, RowTypes
<1>6. row.parent \in {None} \cup In(row.model)'
  BY <1>5 DEF MayHold, In
<1>7. row.model # AsIs => n \notin DOMAIN models'[row.model].comps
  BY <1>1, <1>4 DEF RowsInv, ArchTypeOK, RowTypes, BaselineOK
<1>8. rels' = Stored(rels, NoRows) /\ DOMAIN NoRows = {}
  BY NothingComes
<1>9. cs \in [DOMAIN cs -> Component'] /\ NoRows \in [DOMAIN NoRows -> Relation']
  BY <1>3, <1>4 DEF NoRows
<1>10. DOMAIN models' \subseteq {AsIs} \cup Proposals
  BY DEF RowsInv, ArchTypeOK, RowTypes
<1>11. \A k \in DOMAIN cs : cs[k].parent \in {None} \cup In(cs[k].model)'
  BY <1>3, <1>6
<1>12. /\ \A k \in DOMAIN cs : cs[k].origin = None
       /\ \A k \in DOMAIN cs : cs[k].model # AsIs =>
            k \notin DOMAIN models'[cs[k].model].comps
  BY <1>3, <1>7
<1>13. comps' = Stored(comps, cs)
  OBVIOUS
<1> HIDE DEF cs
<1> QED BY <1>2, <1>3, <1>8, <1>9, <1>10, <1>11, <1>12, <1>13, RowsCome

LEMMA RelationComes ==
  ASSUME RowsInv, NEW row \in Relation, {row.src, row.dst} \subseteq In(row.model),
         NEW n, n = given + 1, given' = n,
         rels' = Stored(rels, [k \in {n} |-> row]),
         UNCHANGED <<models, comps, asked>>
  PROVE  RowsInv'
<1> DEFINE ls == [k \in {n} |-> row]
<1>1. given \in Nat /\ n \in Nat /\ n \notin Ids
  BY DEF RowsInv, ArchTypeOK, RowTypes, Ids
<1>2. Growing
  BY <1>1 DEF Growing
<1>3. /\ DOMAIN ls = {n} /\ \A k \in DOMAIN ls : ls[k] = row
      /\ {n} = given + 1..given'
  BY <1>1
<1>4. row \in Relation'
  BY <1>2, TypesGrow
<1>5. {row.src, row.dst} \subseteq In(row.model)'
  BY DEF In
<1>6. comps' = Stored(comps, NoRows) /\ DOMAIN NoRows = {}
  BY NothingComes
<1>7. ls \in [DOMAIN ls -> Relation'] /\ NoRows \in [DOMAIN NoRows -> Component']
  BY <1>3, <1>4 DEF NoRows
<1>8. DOMAIN models' \subseteq {AsIs} \cup Proposals
  BY DEF RowsInv, ArchTypeOK, RowTypes
<1>9. \A r \in DOMAIN ls : {ls[r].src, ls[r].dst} \subseteq In(ls[r].model)'
  BY <1>3, <1>5
<1>10. rels' = Stored(rels, ls)
  OBVIOUS
<1> HIDE DEF ls
<1> QED BY <1>2, <1>3, <1>6, <1>7, <1>8, <1>9, <1>10, RowsCome

LEMMA OneRowKeeps ==
  ASSUME ArchInv, NEW c \in Clients, WriteComponent(c) \/ WriteRelation(c)
  PROVE  ArchInv'
<1> PICK w : w = request[c]
  OBVIOUS
<1> PICK n : n = given + 1
  OBVIOUS
<1>1. given \in Nat /\ RequestOK(w)
  BY DEF ArchInv, RequestsInv, RowsInv, ArchTypeOK, RowTypes
<1>2. Growing
  BY <1>1 DEF WriteComponent, WriteRelation, Growing
<1>3. CASE WriteComponent(c)
  <2> DEFINE row == [model |-> w.model, origin |-> None, text |-> w.text,
                     parent |-> w.parent, maps |-> w.maps]
  <2>1. /\ Under(c, "component") /\ w.op = "component"
        /\ MayHold(w.model, w.parent) /\ given' = n
        /\ comps' = Stored(comps, [k \in {n} |-> row])
        /\ UNCHANGED <<models, rels, asked>>
    BY <1>3 DEF WriteComponent, Under
  <2>2. w.model \in DOMAIN models /\ w.text \in Texts /\ w.maps \subseteq Entities
    BY <1>1, <2>1 DEF RequestOK
  <2>3. w.parent \in Ids \cup {None}
    BY <2>1 DEF MayHold, In, ArchInv, RowsInv, ArchTypeOK, RowTypes
  <2>4. row \in Component
    BY <2>2, <2>3 DEF Component
  <2>5. row.origin = None /\ MayHold(row.model, row.parent)
    BY <2>1
  <2> HIDE DEF row
  <2>6. RowsInv'
    BY <2>1, <2>4, <2>5, ComponentComes DEF ArchInv
  <2> QED BY <1>2, <2>1, <2>6, Written
<1>4. CASE WriteRelation(c)
  <2> DEFINE row == [model |-> w.model, kind |-> w.kind, src |-> w.src, dst |-> w.dst]
  <2>1. /\ Under(c, "relation") /\ w.op = "relation"
        /\ {w.src, w.dst} \subseteq In(w.model) /\ given' = n
        /\ rels' = Stored(rels, [k \in {n} |-> row])
        /\ UNCHANGED <<models, comps, asked>>
    BY <1>4 DEF WriteRelation, Under
  <2>2. w.kind \in Kinds
    BY <1>1, <2>1 DEF RequestOK
  <2>3. w.model \in DOMAIN models /\ {w.src, w.dst} \subseteq Ids
    BY <2>1 DEF In, ArchInv, RowsInv, ArchTypeOK, RowTypes, Component
  <2>4. row \in Relation
    BY <2>2, <2>3 DEF Relation
  <2>5. {row.src, row.dst} \subseteq In(row.model)
    BY <2>1
  <2> HIDE DEF row
  <2>6. RowsInv'
    BY <2>1, <2>4, <2>5, RelationComes DEF ArchInv
  <2> QED BY <1>2, <2>1, <2>6, Written
<1> QED BY <1>3, <1>4

LEMMA RelationKindKeeps ==
  ASSUME ArchInv, NEW c \in Clients, WriteRelationKind(c)
  PROVE  ArchInv'
<1> DEFINE q == request[c].rel
           kind == request[c].kind
<1>1. /\ kind \in Kinds /\ q \in DOMAIN rels /\ Under(c, "relkind")
      /\ UNCHANGED <<models, comps, given, asked>>
      /\ rels' = [rels EXCEPT ![q].kind = kind]
  BY DEF WriteRelationKind, Under, ArchInv, RequestsInv, RequestOK
<1>2. /\ Ids' = Ids /\ Component' = Component /\ Relation' = Relation
      /\ \A b : BaselineOK(b)' <=> BaselineOK(b)
      /\ \A m : In(m)' = In(m)
  BY <1>1 DEF Ids, Component, Relation, BaselineOK, In
<1>3. /\ DOMAIN rels' = DOMAIN rels
      /\ \A r \in DOMAIN rels :
           /\ rels'[r] \in Relation /\ rels'[r].model = rels[r].model
           /\ rels'[r].src = rels[r].src /\ rels'[r].dst = rels[r].dst
      /\ rels' = [r \in DOMAIN rels' |-> rels'[r]]
  BY <1>1 DEF ArchInv, RowsInv, ArchTypeOK, RowTypes, Relation
<1>4. RowTypes'
  <2>1. rels' \in [DOMAIN rels' -> Relation']
    BY <1>2, <1>3
  <2> QED BY <2>1, <1>1, <1>2, <1>3 DEF ArchInv, RowsInv, ArchTypeOK, RowTypes
<1>5. KeysHold'
  <2>1. \A m, p : MayHold(m, p)' <=> MayHold(m, p)
    BY <1>2 DEF MayHold
  <2>2. ASSUME NEW r \in DOMAIN rels
        PROVE  {rels'[r].src, rels'[r].dst} \subseteq In(rels[r].model)'
    BY <1>2, <1>3 DEF ArchInv, RowsInv, ArchTypeOK, KeysHold
  <2>3. ASSUME NEW k \in DOMAIN comps
        PROVE  MayHold(comps[k].model, comps[k].parent)'
    BY <1>1, <1>2 DEF MayHold, ArchInv, RowsInv, ArchTypeOK, KeysHold
  <2> QED BY <1>1, <1>3, <2>2, <2>3 DEF ArchInv, RowsInv, ArchTypeOK, KeysHold
<1>6. NamesAreUnique'
  BY <1>1 DEF ArchInv, RowsInv, NamesAreUnique
<1> QED BY <1>1, <1>4, <1>5, <1>6, Written, StillGrowing DEF RowsInv, ArchTypeOK

------------------------------------------------------------------------------
(* The copy that fork writes.                                               *)

LEMMA RankIsAnIndex ==
  ASSUME RowsInv, NEW S \in SUBSET Ids
  PROVE  /\ Cardinality(S) \in Nat
         /\ \A k \in S : Rank(S, k) \in 1..Cardinality(S)
         /\ \A k, d \in S : Rank(S, k) = Rank(S, d) => k = d
<1>1. given \in Nat
  BY DEF RowsInv, ArchTypeOK, RowTypes
<1>2. IsFiniteSet(S) /\ Cardinality(S) \in Nat
  <2>1. IsFiniteSet(1..given)
    BY <1>1, FS_Interval
  <2>2. IsFiniteSet(S)
    BY <2>1, FS_Subset DEF Ids
  <2> QED BY <2>2, FS_CardinalityType
<1>3. ASSUME NEW k \in S PROVE Rank(S, k) \in 1..Cardinality(S)
  <2> DEFINE T == {d \in S : d <= k}
  <2>1. IsFiniteSet(T) /\ Cardinality(T) <= Cardinality(S) /\ Cardinality(T) \in Nat
    BY <1>2, FS_Subset, FS_CardinalityType
  <2>2. k \in T
    BY DEF Ids
  <2>3. Cardinality(T) # 0
    BY <2>1, <2>2, FS_EmptySet
  <2> QED BY <1>2, <2>1, <2>3 DEF Rank
<1>4. ASSUME NEW k \in S, NEW d \in S, k < d PROVE Rank(S, k) # Rank(S, d)
  <2> DEFINE T == {x \in S : x <= k}
             U == {x \in S : x <= d}
  <2> \A x \in S : x \in Int
    BY DEF Ids
  <2>1. T \subseteq U /\ d \in U /\ d \notin T
    BY <1>4
  <2>2. IsFiniteSet(U)
    BY <1>2, FS_Subset
  <2>3. Cardinality(U) = Cardinality(T) => U = T
    BY <2>1, <2>2, FS_Subset
  <2> QED BY <2>1, <2>3 DEF Rank
<1>5. \A k, d \in S : k < d \/ d < k \/ k = d
  BY DEF Ids
<1> QED BY <1>2, <1>3, <1>4, <1>5

(* Where the copies of what was read are put, and what they are.            *)
Places(read) == [k \in DOMAIN read |-> given + Rank(DOMAIN read, k)]

CopiesOf(m, read, at, cs) ==
  /\ DOMAIN at = DOMAIN read
  /\ DOMAIN cs = {at[k] : k \in DOMAIN read}
  /\ cs = [n \in DOMAIN cs |-> cs[n]]
  /\ \A k \in DOMAIN read :
       cs[at[k]] = [model |-> m, origin |-> k, text |-> read[k].text,
                    parent |-> IF read[k].parent = None THEN None
                               ELSE at[read[k].parent],
                    maps |-> read[k].maps]

LinksOf(m, links, at, ls) ==
  /\ ls = [n \in DOMAIN ls |-> ls[n]]
  /\ \A n \in DOMAIN ls : \E r \in DOMAIN links :
       ls[n] = [model |-> m, kind |-> links[r].kind,
                src |-> at[links[r].src], dst |-> at[links[r].dst]]
  /\ \A r \in DOMAIN links : \E n \in DOMAIN ls :
       ls[n] = [model |-> m, kind |-> links[r].kind,
                src |-> at[links[r].src], dst |-> at[links[r].dst]]

LEMMA ComponentsAreCopied ==
  ASSUME RowsInv, NEW m, NEW read, DOMAIN read \subseteq Ids,
         \A k \in DOMAIN read : read[k].parent \in DOMAIN read \cup {None}
  PROVE  /\ CopiesOf(m, read, Places(read), CopiedComponents(m, read))
         /\ DOMAIN CopiedComponents(m, read)
              \subseteq given + 1..given + Cardinality(DOMAIN read)
<1> PICK at : at = Places(read)
  OBVIOUS
<1> PICK cs : cs = CopiedComponents(m, read)
  OBVIOUS
<1> DEFINE copy(k) == given + Rank(DOMAIN read, k)
           source(n) == CHOOSE d \in DOMAIN read : copy(d) = n
<1>1. given \in Nat /\ None \notin DOMAIN read
  BY NoneIsNoId DEF RowsInv, ArchTypeOK, RowTypes
<1>2. /\ Cardinality(DOMAIN read) \in Nat
      /\ \A k \in DOMAIN read : Rank(DOMAIN read, k) \in 1..Cardinality(DOMAIN read)
      /\ \A k, d \in DOMAIN read : Rank(DOMAIN read, k) = Rank(DOMAIN read, d) => k = d
  BY RankIsAnIndex
<1>3. \A k, d \in DOMAIN read : copy(k) = copy(d) => k = d
  BY <1>1, <1>2
<1>4. \A k \in DOMAIN read : copy(k) \in given + 1..given + Cardinality(DOMAIN read)
  BY <1>1, <1>2
<1>5. \A k \in DOMAIN read : source(copy(k)) = k
  <2> HIDE DEF copy
  <2> QED BY <1>3
<1>6. cs = [n \in {copy(k) : k \in DOMAIN read} |->
              [model |-> m, origin |-> source(n), text |-> read[source(n)].text,
               parent |-> IF read[source(n)].parent \in DOMAIN read
                          THEN copy(read[source(n)].parent) ELSE None,
               maps |-> read[source(n)].maps]]
  BY DEF CopiedComponents
<1>7. DOMAIN at = DOMAIN read /\ \A k \in DOMAIN read : at[k] = copy(k)
  BY DEF Places
<1> HIDE DEF copy, source
<1>8. \A k \in DOMAIN read :
        cs[copy(k)] =
          [model |-> m, origin |-> k, text |-> read[k].text,
           parent |-> IF read[k].parent = None THEN None ELSE copy(read[k].parent),
           maps |-> read[k].maps]
  BY <1>1, <1>5, <1>6
<1>9. \A k \in DOMAIN read : (IF read[k].parent = None THEN None ELSE copy(read[k].parent))
                             = IF read[k].parent = None THEN None ELSE at[read[k].parent]
  BY <1>7
<1>10. /\ DOMAIN cs = {copy(k) : k \in DOMAIN read}
       /\ cs = [n \in DOMAIN cs |-> cs[n]]
  BY <1>6
<1>11. DOMAIN cs = {at[k] : k \in DOMAIN read}
  BY <1>7, <1>10
<1>12. DOMAIN cs \subseteq given + 1..given + Cardinality(DOMAIN read)
  BY <1>4, <1>10
<1>13. \A k \in DOMAIN read :
        cs[at[k]] = [model |-> m, origin |-> k, text |-> read[k].text,
                     parent |-> IF read[k].parent = None THEN None
                                ELSE at[read[k].parent],
                     maps |-> read[k].maps]
  BY <1>7, <1>8, <1>9
<1> QED BY <1>7, <1>10, <1>11, <1>12, <1>13 DEF CopiesOf

LEMMA RelationsAreCopied ==
  ASSUME RowsInv, NEW m, NEW read, DOMAIN read \subseteq Ids,
         NEW links, DOMAIN links \subseteq Ids,
         \A r \in DOMAIN links : {links[r].src, links[r].dst} \subseteq DOMAIN read
  PROVE  /\ LinksOf(m, links, Places(read), CopiedRelations(m, read, links))
         /\ DOMAIN CopiedRelations(m, read, links) \subseteq given + 1..
              given + Cardinality(DOMAIN read) + Cardinality(DOMAIN links)
<1> PICK at : at = Places(read)
  OBVIOUS
<1> PICK ls : ls = CopiedRelations(m, read, links)
  OBVIOUS
<1> DEFINE copy(k) == given + Rank(DOMAIN read, k)
           first == given + Cardinality(DOMAIN read)
           index(r) == first + Rank(DOMAIN links, r)
           source(n) == CHOOSE l \in DOMAIN links : index(l) = n
           row(r) == [model |-> m, kind |-> links[r].kind,
                      src |-> at[links[r].src], dst |-> at[links[r].dst]]
<1>1. given \in Nat
  BY DEF RowsInv, ArchTypeOK, RowTypes
<1>2. /\ Cardinality(DOMAIN read) \in Nat /\ Cardinality(DOMAIN links) \in Nat
      /\ \A k \in DOMAIN links : Rank(DOMAIN links, k) \in 1..Cardinality(DOMAIN links)
      /\ \A k, d \in DOMAIN links : Rank(DOMAIN links, k) = Rank(DOMAIN links, d) => k = d
  BY RankIsAnIndex
<1>3. \A k, d \in DOMAIN links : index(k) = index(d) => k = d
  BY <1>1, <1>2
<1>4. \A r \in DOMAIN links :
        index(r) \in given + 1..given + Cardinality(DOMAIN read) + Cardinality(DOMAIN links)
  BY <1>1, <1>2
<1>5. \A r \in DOMAIN links : source(index(r)) = r
  <2> HIDE DEF index
  <2> QED BY <1>3
<1>6. ls = [n \in {index(r) : r \in DOMAIN links} |->
              [model |-> m, kind |-> links[source(n)].kind,
               src |-> copy(links[source(n)].src), dst |-> copy(links[source(n)].dst)]]
  BY DEF CopiedRelations
<1>7. DOMAIN at = DOMAIN read /\ \A k \in DOMAIN read : at[k] = copy(k)
  BY DEF Places
<1> HIDE DEF copy, index, source, first
<1>8. \A r \in DOMAIN links : ls[index(r)] = row(r)
  <2> SUFFICES ASSUME NEW r \in DOMAIN links PROVE ls[index(r)] = row(r)
    OBVIOUS
  <2>1. ls[index(r)] = [model |-> m, kind |-> links[r].kind,
                        src |-> copy(links[r].src), dst |-> copy(links[r].dst)]
    BY <1>5, <1>6
  <2>2. copy(links[r].src) = at[links[r].src] /\ copy(links[r].dst) = at[links[r].dst]
    BY <1>7
  <2> QED BY <2>1, <2>2
<1>9. /\ DOMAIN ls = {index(r) : r \in DOMAIN links}
      /\ ls = [n \in DOMAIN ls |-> ls[n]]
  BY <1>6
<1> HIDE DEF row
<1>10. /\ \A n \in DOMAIN ls : \E r \in DOMAIN links : ls[n] = row(r)
       /\ \A r \in DOMAIN links : \E n \in DOMAIN ls : ls[n] = row(r)
  BY <1>8, <1>9
<1>11. DOMAIN ls \subseteq given + 1..
         given + Cardinality(DOMAIN read) + Cardinality(DOMAIN links)
  BY <1>4, <1>9
<1> QED BY <1>9, <1>10, <1>11 DEF row, LinksOf

(* What the transaction of a fork leaves: a model m that was not there, its *)
(* baseline b, copies cs of components and ls of relations.                 *)
ForkLeaves(read, links, m, b, at, cs, ls) ==
  /\ DOMAIN read \subseteq Ids /\ DOMAIN links \subseteq Ids
  /\ \A k \in DOMAIN read :
       /\ k # None /\ read[k] \in Component
       /\ read[k].parent \in DOMAIN read \cup {None}
  /\ \A r \in DOMAIN links :
       links[r] \in Relation /\ {links[r].src, links[r].dst} \subseteq DOMAIN read
  /\ m \in Proposals /\ m \notin DOMAIN models /\ b = Content(read, links)
  /\ models' = Stored(models, [p \in {m} |-> b])
  /\ comps' = Stored(comps, cs) /\ rels' = Stored(rels, ls)
  /\ DOMAIN cs \subseteq given + 1..given' /\ DOMAIN ls \subseteq given + 1..given'
  /\ given' \in Nat /\ given <= given' /\ asked' = asked
  /\ CopiesOf(m, read, at, cs) /\ LinksOf(m, links, at, ls)

LEMMA ForkWrites ==
  ASSUME ArchInv, NEW c \in Clients, WriteFork(c)
  PROVE  \E read, links, m, b, at, cs, ls : ForkLeaves(read, links, m, b, at, cs, ls)
<1> PICK w : w = request[c]
  OBVIOUS
<1> PICK read : read = w.comps
  OBVIOUS
<1> PICK links : links = w.rels
  OBVIOUS
<1> PICK m : m = CHOOSE p \in Proposals : p \notin DOMAIN models
  OBVIOUS
<1> PICK b : b = Content(read, links)
  OBVIOUS
<1> PICK at : at = Places(read)
  OBVIOUS
<1> PICK cs : cs = CopiedComponents(m, read)
  OBVIOUS
<1> PICK ls : ls = CopiedRelations(m, read, links)
  OBVIOUS
<1>1. /\ Under(c, "fork") /\ asked' = asked
      /\ Proposals \ DOMAIN models # {}
      /\ \A r \in DOMAIN links : {links[r].src, links[r].dst} \subseteq DOMAIN read
      /\ models' = Stored(models, [p \in {m} |-> b])
      /\ comps' = Stored(comps, cs) /\ rels' = Stored(rels, ls)
      /\ given' = given + Cardinality(DOMAIN read) + Cardinality(DOMAIN links)
  BY DEF WriteFork, Under
<1>2. RequestOK(w) /\ w.op = "fork" /\ RowsInv
  BY <1>1 DEF ArchInv, RequestsInv, Under
<1>3. /\ DOMAIN read \subseteq Ids /\ read \in [DOMAIN read -> Component]
      /\ \A k \in DOMAIN read : read[k].parent \in DOMAIN read \cup {None}
      /\ DOMAIN links \subseteq Ids /\ links \in [DOMAIN links -> Relation]
  BY <1>2 DEF RequestOK, ReadOK
<1>4. /\ \A k \in DOMAIN read : k # None /\ read[k] \in Component
      /\ \A r \in DOMAIN links : links[r] \in Relation
  BY <1>3, NoneIsNoId
<1>5. m \in Proposals /\ m \notin DOMAIN models
  BY <1>1
<1>6. /\ given \in Nat /\ Cardinality(DOMAIN read) \in Nat
      /\ Cardinality(DOMAIN links) \in Nat
  BY <1>2, <1>3, RankIsAnIndex DEF RowsInv, ArchTypeOK, RowTypes
<1>7. given' \in Nat /\ given <= given'
  BY <1>1, <1>6
<1>8. /\ CopiesOf(m, read, at, cs)
      /\ DOMAIN cs \subseteq given + 1..given + Cardinality(DOMAIN read)
  BY <1>2, <1>3, ComponentsAreCopied
<1>9. /\ LinksOf(m, links, at, ls)
      /\ DOMAIN ls \subseteq given + 1..
           given + Cardinality(DOMAIN read) + Cardinality(DOMAIN links)
  <2>1. /\ DOMAIN read \subseteq Ids /\ DOMAIN links \subseteq Ids /\ RowsInv
        /\ \A r \in DOMAIN links : {links[r].src, links[r].dst} \subseteq DOMAIN read
    BY <1>1, <1>2, <1>3
  <2>2. /\ LinksOf(m, links, Places(read), CopiedRelations(m, read, links))
        /\ DOMAIN CopiedRelations(m, read, links) \subseteq given + 1..
             given + Cardinality(DOMAIN read) + Cardinality(DOMAIN links)
    BY ONLY <2>1, RelationsAreCopied
  <2> QED BY <2>2
<1>10. DOMAIN cs \subseteq given + 1..given' /\ DOMAIN ls \subseteq given + 1..given'
  BY <1>1, <1>6, <1>8, <1>9
<1>11. ForkLeaves(read, links, m, b, at, cs, ls)
  BY <1>1, <1>3, <1>4, <1>5, <1>7, <1>8, <1>9, <1>10 DEF ForkLeaves
<1> QED BY <1>11

(* The models and the copies after the fork.                                *)
LEMMA ForkedModels ==
  ASSUME RowsInv, NEW read, NEW links, NEW m, NEW b, NEW at, NEW cs, NEW ls,
         ForkLeaves(read, links, m, b, at, cs, ls)
  PROVE  /\ DOMAIN models' = DOMAIN models \cup {m} /\ models'[m] = b /\ m # AsIs
         /\ \A p \in DOMAIN models : models'[p] = models[p]
         /\ Growing /\ BaselineOK(b)'
         /\ DOMAIN b.comps = DOMAIN read
<1>1. /\ DOMAIN models' = DOMAIN models \cup {m} /\ models'[m] = b
      /\ \A p \in DOMAIN models : models'[p] = models[p]
  BY DEF ForkLeaves, Stored
<1>2. Growing
  BY <1>1 DEF ForkLeaves, Growing
<1>3. /\ b.comps = [k \in DOMAIN read |-> [text |-> read[k].text,
                       parent |-> read[k].parent, maps |-> read[k].maps]]
      /\ b.rels = {<<links[r].kind, links[r].src, links[r].dst>> : r \in DOMAIN links}
  BY DEF ForkLeaves, Content
<1>4. \A k \in DOMAIN read :
        b.comps[k] \in [text : Texts, parent : DOMAIN read \cup {None},
                        maps : SUBSET Entities]
  BY <1>3 DEF ForkLeaves, Component
<1>5. b.rels \subseteq Kinds \X (DOMAIN read) \X (DOMAIN read)
  BY <1>3 DEF ForkLeaves, Relation
<1>6. DOMAIN read \subseteq Ids'
  BY <1>2, TypesGrow DEF ForkLeaves
<1>7. BaselineOK(b)'
  BY <1>3, <1>4, <1>5, <1>6 DEF BaselineOK
<1>8. m # AsIs
  BY ArchAssumption DEF ForkLeaves
<1> QED BY <1>1, <1>2, <1>3, <1>7, <1>8

Joined(read, m, at, cs, ls) ==
  /\ \A k \in DOMAIN comps : k \in DOMAIN comps' /\ comps'[k] = comps[k]
  /\ \A k \in DOMAIN cs : k \in DOMAIN comps' /\ comps'[k] = cs[k]
  /\ \A k \in DOMAIN ls : k \in DOMAIN rels' /\ rels'[k] = ls[k]
  /\ \A k \in DOMAIN comps' : comps'[k].model = m <=> k \in DOMAIN cs
  /\ \A k \in DOMAIN rels' : rels'[k].model = m <=> k \in DOMAIN ls
  /\ \A k \in DOMAIN read : at[k] \in DOMAIN cs
  /\ \A n \in DOMAIN cs : \E k \in DOMAIN read : n = at[k]

LEMMA ForkedRows ==
  ASSUME RowsInv, NEW read, NEW links, NEW m, NEW b, NEW at, NEW cs, NEW ls,
         ForkLeaves(read, links, m, b, at, cs, ls)
  PROVE  Joined(read, m, at, cs, ls)
<1>1. DOMAIN comps \cap DOMAIN cs = {} /\ DOMAIN rels \cap DOMAIN ls = {}
  BY DEF ForkLeaves, RowsInv, ArchTypeOK, RowTypes, Ids
<1>2. /\ DOMAIN comps' = DOMAIN comps \cup DOMAIN cs
      /\ DOMAIN rels' = DOMAIN rels \cup DOMAIN ls
      /\ \A k \in DOMAIN comps : comps'[k] = comps[k]
      /\ \A k \in DOMAIN rels : rels'[k] = rels[k]
      /\ \A k \in DOMAIN cs : comps'[k] = cs[k]
      /\ \A k \in DOMAIN ls : rels'[k] = ls[k]
  BY <1>1 DEF ForkLeaves, Stored
<1>3. /\ \A k \in DOMAIN read : at[k] \in DOMAIN cs
      /\ \A n \in DOMAIN cs : \E k \in DOMAIN read : n = at[k]
  BY DEF ForkLeaves, CopiesOf
<1>4. ASSUME NEW n \in DOMAIN cs PROVE cs[n].model = m
  <2> PICK k \in DOMAIN read : n = at[k]
    BY <1>3
  <2>1. CopiesOf(m, read, at, cs)
    BY DEF ForkLeaves
  <2>2. cs[at[k]] = [model |-> m, origin |-> k, text |-> read[k].text,
                     parent |-> IF read[k].parent = None THEN None
                                ELSE at[read[k].parent],
                     maps |-> read[k].maps]
    BY ONLY <2>1 DEF CopiesOf
  <2> QED BY <2>2
<1>5. \A k \in DOMAIN ls : ls[k].model = m
  BY DEF ForkLeaves, LinksOf
<1>6. /\ \A k \in DOMAIN comps : comps[k].model # m
      /\ \A k \in DOMAIN rels : rels[k].model # m
  BY DEF ForkLeaves, RowsInv, ArchTypeOK, RowTypes, Component, Relation
<1>7. \A k \in DOMAIN comps' : comps'[k].model = m <=> k \in DOMAIN cs
  BY <1>2, <1>4, <1>6
<1>8. \A k \in DOMAIN rels' : rels'[k].model = m <=> k \in DOMAIN ls
  BY <1>2, <1>5, <1>6
<1> QED BY <1>2, <1>3, <1>7, <1>8 DEF Joined

LEMMA WriteForkKeeps ==
  ASSUME ArchInv, NEW c \in Clients, WriteFork(c)
  PROVE  ArchInv'
<1> PICK read, links, m, b, at, cs, ls : ForkLeaves(read, links, m, b, at, cs, ls)
  BY ForkWrites
<1>0. RowsInv
  BY DEF ArchInv
<1>1. /\ DOMAIN models' = DOMAIN models \cup {m} /\ models'[m] = b /\ m # AsIs
      /\ \A p \in DOMAIN models : models'[p] = models[p]
      /\ Growing /\ BaselineOK(b)' /\ DOMAIN b.comps = DOMAIN read
  BY <1>0, ForkedModels
<1>2. /\ \A k \in DOMAIN comps' : comps'[k].model = m <=> k \in DOMAIN cs
      /\ \A k \in DOMAIN cs : k \in DOMAIN comps'
      /\ \A k \in DOMAIN read : at[k] \in DOMAIN cs
      /\ \A n \in DOMAIN cs : \E k \in DOMAIN read : n = at[k]
  BY <1>0, ForkedRows DEF Joined
<1>3. Ids \subseteq Ids' /\ DOMAIN cs \subseteq Ids' /\ DOMAIN cs \cap Ids = {}
  BY <1>0, <1>1, TypesGrow DEF ForkLeaves, Ids, RowsInv, ArchTypeOK, RowTypes
<1>4. ASSUME NEW n \in DOMAIN cs
      PROVE  /\ cs[n] \in Component' /\ cs[n].model = m
             /\ cs[n].parent \in {None} \cup DOMAIN cs
             /\ cs[n].origin \in DOMAIN read /\ n = at[cs[n].origin]
  <2>1. PICK k \in DOMAIN read : n = at[k]
    BY <1>2
  <2>2. cs[n] = [model |-> m, origin |-> k, text |-> read[k].text,
                 parent |-> IF read[k].parent = None THEN None ELSE at[read[k].parent],
                 maps |-> read[k].maps]
    BY <2>1 DEF ForkLeaves, CopiesOf
  <2>3. k \in Ids' /\ read[k].text \in Texts /\ read[k].maps \in SUBSET Entities
        /\ read[k].parent \in DOMAIN read \cup {None}
    BY <1>3 DEF ForkLeaves, Component
  <2>4. cs[n].parent \in {None} \cup DOMAIN cs
    BY <2>2, <2>3, <1>2
  <2> QED BY <2>1, <2>2, <2>3, <2>4, <1>1, <1>3 DEF Component
<1>5. ASSUME NEW n \in DOMAIN ls
      PROVE  /\ ls[n] \in Relation' /\ ls[n].model = m
             /\ {ls[n].src, ls[n].dst} \subseteq DOMAIN cs
  <2>1. PICK r \in DOMAIN links :
          ls[n] = [model |-> m, kind |-> links[r].kind,
                   src |-> at[links[r].src], dst |-> at[links[r].dst]]
    BY DEF ForkLeaves, LinksOf
  <2>2. links[r].kind \in Kinds /\ {links[r].src, links[r].dst} \subseteq DOMAIN read
    BY DEF ForkLeaves, Relation
  <2>3. {ls[n].src, ls[n].dst} \subseteq DOMAIN cs
    BY <2>1, <2>2, <1>2
  <2> QED BY <2>1, <2>2, <2>3, <1>1, <1>3 DEF Relation
<1>6. cs \in [DOMAIN cs -> Component'] /\ ls \in [DOMAIN ls -> Relation']
  BY <1>4, <1>5 DEF ForkLeaves, CopiesOf, LinksOf
<1>7. /\ \A k \in DOMAIN cs : cs[k].parent \in {None} \cup In(cs[k].model)'
      /\ \A r \in DOMAIN ls : {ls[r].src, ls[r].dst} \subseteq In(ls[r].model)'
  <2>1. In(m)' = DOMAIN cs
    BY <1>2 DEF In
  <2> QED BY <2>1, <1>4, <1>5
<1>8. /\ \A k \in DOMAIN cs :
           /\ cs[k].model \notin DOMAIN models
           /\ cs[k].origin \in DOMAIN models'[cs[k].model].comps
           /\ k \notin DOMAIN models'[cs[k].model].comps
      /\ \A k, d \in DOMAIN cs : cs[k].origin = cs[d].origin => k = d
  BY <1>1, <1>3, <1>4 DEF ForkLeaves
<1>9. /\ DOMAIN models' \subseteq {AsIs} \cup Proposals
      /\ \A p \in DOMAIN models' \ DOMAIN models : BaselineOK(models[p])'
  BY <1>0, <1>1 DEF ForkLeaves, RowsInv, ArchTypeOK, RowTypes, BaselineOK
<1>10. /\ DOMAIN cs \subseteq given + 1..given' /\ DOMAIN ls \subseteq given + 1..given'
       /\ comps' = Stored(comps, cs) /\ rels' = Stored(rels, ls) /\ asked' = asked
  BY DEF ForkLeaves
<1>11. RowsInv'
  BY ONLY <1>0, <1>1, <1>6, <1>7, <1>8, <1>9, <1>10, RowsCome
<1>12. Under(c, "fork")
  BY DEF WriteFork
<1> QED BY <1>1, <1>11, <1>12, Written

------------------------------------------------------------------------------
(* A new proposal differs in nothing from its baseline.                     *)

LEMMA ForkedDiff ==
  ASSUME RowsInv, NEW read, NEW links, NEW m, NEW b, NEW at, NEW cs, NEW ls,
         ForkLeaves(read, links, m, b, at, cs, ls)
  PROVE  Diff(m)' = NoChange
<1>1. /\ models'[m] = b
      /\ b.comps = [k \in DOMAIN read |-> [text |-> read[k].text,
                       parent |-> read[k].parent, maps |-> read[k].maps]]
      /\ b.rels = {<<links[r].kind, links[r].src, links[r].dst>> : r \in DOMAIN links}
  <2>1. models'[m] = b
    BY ForkedModels
  <2> QED BY <2>1 DEF ForkLeaves, Content
<1>2. Joined(read, m, at, cs, ls)
  BY ForkedRows
<1>3. In(m)' = DOMAIN cs /\ Links(m)' = DOMAIN ls
  BY <1>2 DEF Joined, In, Links
<1>4. DOMAIN cs \subseteq Ids' /\ None \notin DOMAIN cs
  BY ArchAssumption DEF ForkLeaves, Ids, RowsInv, ArchTypeOK, RowTypes
<1>5. ASSUME NEW k \in DOMAIN read
      PROVE  /\ at[k] \in DOMAIN cs /\ at[k] # None
             /\ comps'[at[k]].origin = k /\ comps'[at[k]].text = b.comps[k].text
             /\ comps'[at[k]].maps = b.comps[k].maps
             /\ comps'[at[k]].parent = IF read[k].parent = None THEN None
                                       ELSE at[read[k].parent]
             /\ k # None /\ read[k].parent \in DOMAIN read \cup {None}
  <2>1. at[k] \in DOMAIN cs /\ comps'[at[k]] = cs[at[k]]
    BY <1>2 DEF Joined
  <2>2. CopiesOf(m, read, at, cs)
    BY DEF ForkLeaves
  <2>3. cs[at[k]] = [model |-> m, origin |-> k, text |-> read[k].text,
                     parent |-> IF read[k].parent = None THEN None
                                ELSE at[read[k].parent],
                     maps |-> read[k].maps]
    BY ONLY <2>2 DEF CopiesOf
  <2>4. k # None /\ read[k].parent \in DOMAIN read \cup {None}
    BY DEF ForkLeaves
  <2> QED BY <1>1, <1>4, <2>1, <2>3, <2>4
<1>6. \A n \in DOMAIN cs : \E k \in DOMAIN read : n = at[k]
  BY <1>2 DEF Joined
<1>7. \A n \in DOMAIN cs : comps'[n].origin \in DOMAIN read /\ n = at[comps'[n].origin]
  BY <1>5, <1>6
<1>8. Matched(m)' = DOMAIN cs
  BY <1>1, <1>3, <1>7 DEF Matched
<1>9. DOMAIN read \ {comps'[n].origin : n \in DOMAIN cs} = {}
  BY <1>5
<1>10. ASSUME NEW n \in DOMAIN cs PROVE ~ Moved(m, n)'
  <2> PICK k \in DOMAIN read : n = at[k]
    BY <1>6
  <2>1. comps'[n].origin = k /\ b.comps[k].parent = read[k].parent
    BY <1>1, <1>5
  <2>2. CASE read[k].parent = None
    BY <1>1, <1>5, <2>1, <2>2 DEF Moved
  <2>3. CASE read[k].parent # None
    <3> DEFINE p == read[k].parent
    <3>1. p \in DOMAIN read /\ comps'[n].parent = at[p] /\ p # None
      BY <1>5, <2>3
    <3>2. at[p] # None /\ comps'[at[p]].origin = p
      BY <1>5, <3>1
    <3> QED BY <1>1, <2>1, <3>1, <3>2 DEF Moved, OriginOf
  <2> QED BY <2>2, <2>3
<1>11. ASSUME NEW n \in DOMAIN ls, NEW r \in DOMAIN links,
              ls[n] = [model |-> m, kind |-> links[r].kind,
                       src |-> at[links[r].src], dst |-> at[links[r].dst]]
       PROVE  /\ HasKey(m, n)'
              /\ RelKey(n)' = <<links[r].kind, links[r].src, links[r].dst>>
  <2>1. rels'[n] = ls[n]
    BY <1>2 DEF Joined
  <2>2. links[r].src \in DOMAIN read /\ links[r].dst \in DOMAIN read
    BY DEF ForkLeaves
  <2>3. /\ rels'[n].kind = links[r].kind
        /\ rels'[n].src = at[links[r].src] /\ rels'[n].dst = at[links[r].dst]
    BY <1>11, <2>1
  <2>4. OriginOf(rels[n].src)' = links[r].src /\ OriginOf(rels[n].dst)' = links[r].dst
    BY <1>5, <2>2, <2>3 DEF OriginOf
  <2> QED BY <1>1, <2>2, <2>3, <2>4 DEF HasKey, RelKey
<1>12. /\ \A n \in DOMAIN ls : \E r \in DOMAIN links :
            ls[n] = [model |-> m, kind |-> links[r].kind,
                     src |-> at[links[r].src], dst |-> at[links[r].dst]]
       /\ \A r \in DOMAIN links : \E n \in DOMAIN ls :
            ls[n] = [model |-> m, kind |-> links[r].kind,
                     src |-> at[links[r].src], dst |-> at[links[r].dst]]
  BY DEF ForkLeaves, LinksOf
<1>13. \A n \in DOMAIN ls : HasKey(m, n)' /\ RelKey(n)' \in b.rels
  BY <1>1, <1>11, <1>12
<1>14. \A t \in b.rels : \E n \in DOMAIN ls : HasKey(m, n)' /\ RelKey(n)' = t
  <2> SUFFICES ASSUME NEW r \in DOMAIN links
               PROVE  \E n \in DOMAIN ls : HasKey(m, n)' /\ RelKey(n)' =
                        <<links[r].kind, links[r].src, links[r].dst>>
    BY <1>1
  <2> QED BY <1>11, <1>12
<1>15. Diff(m)'.added = {} /\ Diff(m)'.removed = {} /\ Diff(m)'.moved = {}
  BY <1>1, <1>3, <1>8, <1>9, <1>10 DEF Diff
<1>16. Diff(m)'.modified = {} /\ Diff(m)'.remapped = {}
  BY <1>1, <1>5, <1>7, <1>8 DEF Diff
<1>17. Diff(m)'.addedRels = {} /\ Diff(m)'.removedRels = {}
  BY <1>1, <1>3, <1>13, <1>14 DEF Diff
<1>18. Diff(m)' = [added |-> Diff(m)'.added, removed |-> Diff(m)'.removed,
                   modified |-> Diff(m)'.modified, moved |-> Diff(m)'.moved,
                   addedRels |-> Diff(m)'.addedRels,
                   removedRels |-> Diff(m)'.removedRels,
                   remapped |-> Diff(m)'.remapped]
  BY DEF Diff
<1> QED BY <1>15, <1>16, <1>17, <1>18 DEF NoChange

LEMMA ForkIsEmpty ==
  ASSUME ArchInv, NEW c \in Clients, WriteFork(c)
  PROVE  \A p \in DOMAIN models' \ DOMAIN models : Diff(p)' = NoChange
<1> PICK read, links, m, b, at, cs, ls : ForkLeaves(read, links, m, b, at, cs, ls)
  BY ForkWrites
<1>1. RowsInv
  BY DEF ArchInv
<1>2. Diff(m)' = NoChange
  BY <1>1, ForkedDiff
<1>3. DOMAIN models' = DOMAIN models \cup {m}
  BY <1>1, ForkedModels
<1> SUFFICES ASSUME NEW p \in DOMAIN models' \ DOMAIN models PROVE Diff(p)' = NoChange
  OBVIOUS
<1>4. p = m
  BY <1>3
<1> QED BY <1>2, <1>4
------------------------------------------------------------------------------
(* The theorems.                                                            *)

LEMMA FailKeeps ==
  ASSUME ArchInv, NEW c \in Clients, Fail(c)
  PROVE  ArchInv'
<1>1. RequestOK(Idle)
  BY DEF RequestOK, Idle
<1> QED BY <1>1, ReadKeeps DEF Fail

LEMMA StepKeeps == ArchInv /\ [Next]_vars => ArchInv'
<1> SUFFICES ASSUME ArchInv, [Next]_vars PROVE ArchInv'
  OBVIOUS
<1>1. ASSUME NEW c \in Clients, Request(c) PROVE ArchInv'
  BY <1>1, RequestKeeps
<1>2. ASSUME NEW c \in Clients, Write(c) PROVE ArchInv'
  BY <1>2, ComponentWrites, Erasures, OneRowKeeps, RelationKindKeeps, WriteForkKeeps
  DEF Write
<1>3. ASSUME NEW c \in Clients, Fail(c) PROVE ArchInv'
  BY <1>3, FailKeeps
<1>4. ASSUME NEW c \in Clients, ForkReadRelations(c) \/ \E k : ForkReadMappings(c, k)
      PROVE  ArchInv'
  BY <1>4, ForkReadsKeep
<1>5. CASE UNCHANGED vars
  <2>1. RowsInv'
    BY <1>5, RowsStay DEF vars, ArchInv, RowsInv, ArchTypeOK, RowTypes
  <2>2. Growing
    BY <1>5, StillGrowing DEF vars, rows
  <2>3. ASSUME NEW c \in Clients PROVE RequestOK(request[c])'
    <3>1. PICK v : v = request'[c] /\ RequestOK(v)'
      BY <1>5, <2>2, ReadsStay DEF vars, ArchInv, RequestsInv
    <3> QED BY <3>1 DEF RequestOK, ReadOK
  <2>4. RequestsInv'
    BY <1>5, <2>3 DEF vars, ArchInv, RequestsInv
  <2> QED BY <2>1, <2>4 DEF ArchInv
<1> QED BY <1>1, <1>2, <1>3, <1>4, <1>5 DEF Next

LEMMA OnlyForksAddModels ==
  ASSUME ArchInv, [Next]_vars
  PROVE  models' = models \/ \E c \in Clients : WriteFork(c)
  BY DEF Next, Request, Write, vars, rows, Ask, CreateComponent, UpdateText, Reparent,
         DeleteComponent, DeleteSubtree, CreateRelation, UpdateRelation, DeleteRelation,
         CreateMappings, DeleteMapping, Fork, ForkReadRelations, ForkReadMappings, Fail,
         WriteComponent, WriteText, WriteParent, EraseComponent, EraseSubtree,
         WriteRelation, WriteRelationKind, EraseRelation, WriteMappings, EraseMapping

LEMMA ArchInvariant == Spec => []ArchInv
  BY InitInv, StepKeeps, PTL DEF Spec

(* The composite keys hold in every reachable state: no parent, relation    *)
(* end or origin crosses models or dangles, whatever requests overtake each *)
(* other.                                                                   *)
THEOREM KeysAlwaysHold == Spec => []ArchTypeOK
<1>1. ArchInv => ArchTypeOK
  BY DEF ArchInv, RowsInv
<1> QED BY <1>1, ArchInvariant, PTL

(* The diff that a reviewer sees is always exact: the baseline with it      *)
(* applied is the proposal.                                                 *)
THEOREM DiffIsAlwaysExact == Spec => []DiffIsExact
<1> QED BY InvImpliesExact, ArchInvariant, PTL

(* Whatever was edited while fork read the AS-IS model, the new proposal    *)
(* and its baseline agree.                                                  *)
THEOREM ForksStartEmpty == Spec => ForkStartsEmpty
<1>1. ArchInv /\ [Next]_vars =>
        [\A m \in DOMAIN models' \ DOMAIN models : Diff(m)' = NoChange]_models
  BY OnlyForksAddModels, ForkIsEmpty
<1> QED BY <1>1, ArchInvariant, PTL DEF Spec, ForkStartsEmpty
==============================================================================
