---------------------------------- MODULE Sast ----------------------------------
(***************************************************************************)
(* src/heimdall/sast: from the hits of Semgrep and the routes of a source  *)
(* tree to findings.  A tree is what ast.walk makes of it: the handlers    *)
(* with a route, in the order they are met, and the pydantic models.  A    *)
(* file that does not parse contributes nothing.                           *)
(***************************************************************************)
EXTENDS Integers, Sequences, FiniteSetsExt

CONSTANTS Rules, SourceFiles, RoutePaths, ModelNames, Lines

Verbs == {"GET", "POST"}

Place == [file : SourceFiles, first : Lines, last : Lines]
Route == [method : Verbs, path : RoutePaths, at : Place, param_types : SUBSET ModelNames]
ModelClass == [name : ModelNames, at : Place]
Hit == [rule : Rules, file : SourceFiles, line : Lines]
(* readable: the files that parse.                                         *)
Tree == [routes : Seq(Route), models : Seq(ModelClass), hits : SUBSET Hit,
         readable : SUBSET SourceFiles]

ASSUME SastAssumption == Lines \subseteq Nat

within(at, file, line) == at.file = file /\ at.first <= line /\ line <= at.last

(* The nodes met in files that parse: a node is appended when it is met.   *)
Met(nodes, readable) ==
  LET met[n \in 0..Len(nodes)] ==
        IF n = 0 THEN <<>>
        ELSE IF nodes[n].at.file \in readable THEN Append(met[n - 1], nodes[n])
        ELSE met[n - 1]
  IN met
build_index(tree) ==
  [routes |-> Met(tree.routes, tree.readable)[Len(tree.routes)],
   models |-> Met(tree.models, tree.readable)[Len(tree.models)]]

\* the first position of those, in the order of the index
Handlers(index, file, line) ==
  {k \in 1..Len(index.routes) : within(index.routes[k].at, file, line)}
\* mutant: a handler that takes any model at all
Users_Any(index, m) ==
  {k \in 1..Len(index.routes) : index.routes[k].param_types # {}}
Users(index, m) ==
  {k \in 1..Len(index.routes) : index.models[m].name \in index.routes[k].param_types}
Models(index, file, line) ==
  {m \in 1..Len(index.models) : within(index.models[m].at, file, line) /\ Users(index, m) # {}}

RouteOf(index, k) == <<index.routes[k].method, index.routes[k].path>>

(* RouteIndex.resolve: the handler the line is in, or one that takes the   *)
(* model the line is in, which is known by its name alone.                 *)
resolve(index, file, line) ==
  IF Handlers(index, file, line) # {}
  THEN RouteOf(index, Min(Handlers(index, file, line)))
  ELSE IF Models(index, file, line) # {}
  THEN RouteOf(index, Min(Users(index, Min(Models(index, file, line)))))
  ELSE <<"UNKNOWN", "">>

\* _finding_from_result, as its fingerprint
fingerprint(index, hit) ==
  <<hit.rule>> \o resolve(index, hit.file, hit.line)

scan_source(tree) == {fingerprint(build_index(tree), hit) : hit \in tree.hits}

------------------------------------------------------------------------------
(* What a reader of the report takes a route to mean.                      *)
Encloses(tree, k, hit) ==
  /\ tree.routes[k].at.file \in tree.readable
  /\ within(tree.routes[k].at, hit.file, hit.line)
Takes(tree, k, hit) ==
  /\ tree.routes[k].at.file \in tree.readable
  /\ \E m \in 1..Len(tree.models) :
       /\ tree.models[m].at.file \in tree.readable
       /\ within(tree.models[m].at, hit.file, hit.line)
       /\ tree.models[m].name \in tree.routes[k].param_types

(* The routes a hit may be attributed to: those of the handlers around it; *)
(* without one, those of the handlers that take a model around it.         *)
RoutesFor(tree, hit) ==
  LET Around == {k \in 1..Len(tree.routes) : Encloses(tree, k, hit)}
      Taking == {k \in 1..Len(tree.routes) : Takes(tree, k, hit)}
  IN {<<tree.routes[k].method, tree.routes[k].path>> :
        k \in IF Around # {} THEN Around ELSE Taking}
================================================================================
