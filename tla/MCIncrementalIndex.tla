------------------------- MODULE MCIncrementalIndex -------------------------
(* Three files: modules that define f, import and call it, or do not parse; *)
(* units that define h, call f and include file 2, which may include 1      *)
(* under the one condition and define f itself under the other.  In the     *)
(* second project a header declares h as well.                              *)
EXTENDS IncrementalIndex

CONSTANTS callee, commented, user, broken, unit, either, header, f, g, h

Nothing == [defs |-> {}, decls |-> {}, calls |-> {}, refs |-> {},
            imports |-> {}, includes |-> {}]

MCContents == {callee, commented, user, broken, unit, either}
MCFacts ==
  [c \in MCContents |->
     CASE c \in {callee, commented} -> [Nothing EXCEPT !.defs = {f}]
       [] c = user -> [Nothing EXCEPT !.defs = {g}, !.calls = {<<g, f>>}, !.refs = {<<g, f>>},
                                       !.imports = {<<f, 1>>}]
       [] c = unit -> [Nothing EXCEPT !.defs = {h}, !.calls = {<<h, f>>}, !.includes = {2}]
       [] c = either -> [Nothing EXCEPT !.defs = {f}, !.includes = {1}]
       [] c = broken -> Broken]

MCDeclarations == {header, unit, callee}
MCPrototypes ==
  [c \in MCDeclarations |->
     IF c = header THEN [Nothing EXCEPT !.decls = {h}] ELSE MCFacts[c]]
MCHeaderAndUnit == <<{}, {header}, {unit, callee}>>

MCVersions == <<{callee, commented, broken}, {either, unit}, {user, unit}>>

MCThree == 1..3
MCNames == {f, g, h}
MCExternal == {h}
=============================================================================
