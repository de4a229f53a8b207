------------------------------- MODULE MCPaging -------------------------------
(***************************************************************************)
(* Small instances of Paging: what each table holds and what is asked of it. *)
(***************************************************************************)
EXTENDS Paging

CONSTANTS b1, b2, w1

MCCreatedAt == <<1, 3, 2, 3>>

Of(b) == [business |-> b]
MCInserted ==
  [orders       |-> {Of(b) @@ [status |-> "pending"] : b \in {b1, b2}},
   transactions |-> {Of(b1) @@ [provider |-> p, direction |-> "credit"] : p \in {"own", "global"}},
   attempts     |-> {Of(b1) @@ [result |-> r, trx |-> "t1"] : r \in {"success", "not_found"}},
   messages     |-> {Of(b1) @@ [status |-> "pending"]},
   devices      |-> {Of(b) : b \in {b1, b2}},
   businesses   |-> {[status |-> "active", name |-> "shop"]},
   providers    |-> {Of(b) @@ [active |-> "yes", direction |-> "credit", mode |-> "template"] :
                       b \in {b1, NULL}}]

MCQueries ==
  [orders       |-> {Of(b1)},
   transactions |-> {Of(b1) @@ [provider |-> "own", direction |-> "credit"]},
   attempts     |-> {[result |-> "success"]},
   messages     |-> {Of(b1) @@ [status |-> "pending"]},
   devices      |-> {Of(b1)},
   businesses   |-> {[name |-> "shop"]},
   providers    |-> {<<>>, Of(b1)}]
==============================================================================
