------------------------------ MODULE MCCallGraph ------------------------------
(* Two repositories with the same two paths.  Path "lib" defines one or two   *)
(* functions that may call each other, or a name that it imports from a path  *)
(* which resolves to itself; path "app" calls into "lib" or a name that       *)
(* nobody resolves.                                                           *)
EXTENDS CallGraph

MCVersions ==
  [lib |-> {[defs |-> {"load"}, calls |-> {}],
            [defs |-> {"load", "save"}, calls |-> {<<"save", <<"load", "lib">>>>}],
            [defs |-> {"save"}, calls |-> {<<"save", <<"load", "lib">>>>}]},
   app |-> {[defs |-> {"main"}, calls |-> {<<"main", <<"save", "lib">>>>, <<"main", <<"load", "lib">>>>}],
            [defs |-> {"main"}, calls |-> {<<"main", <<"load", "unknown">>>>}]}]
=============================================================================
