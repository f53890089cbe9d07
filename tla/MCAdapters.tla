------------------------------- MODULE MCAdapters -------------------------------
(* An instance of Adapters for TLC: two GraphQL services, one of which may     *)
(* have no endpoint, be removed and be registered again, and one that a peer   *)
(* announces and withdraws.                                                    *)
EXTENDS Adapters
CONSTANTS e1, e2
MCName    == {"books", "films"}
MCGraphQL == {"books", "films"}
Far == {[name |-> "films", url |-> e2]}
MCRequests ==
  {Create("books", e1), Create("books", Missing), Delete("books"),
   Create("films", e1), Update(Far, {}), Update({}, Far)}
===============================================================================
