---------- MODULE MCBackOffice ----------
(* A small back office: two requests of each component at a time. *)
EXTENDS BackOffice, TLC

CONSTANTS r1, r2, x1, x2, x3, d1, d2

GroupForms == {{"ORDERS"}, {"ORDERS", "OTHERS"}}
OldLists == {{"log_view"}}

\* Two tickets, whose clocks differ, and two orders not settled, whose deadlines do.
Work == ("t1" :> "TICKET") @@ ("t2" :> "TICKET") @@ ("k1" :> "KYC") @@ ("s1" :> "STUCK") @@
        ("u1" :> "UNSETTLED") @@ ("u2" :> "UNSETTLED")
LateAfter == ("t1" :> 0) @@ ("t2" :> 1) @@ ("k1" :> 1) @@ ("s1" :> 1) @@ ("u1" :> 1) @@ ("u2" :> 0)
ShownAfter == [TICKET |-> 0, KYC |-> 0, STUCK |-> 1, UNSETTLED |-> 0]
WaitingAtFirst == {{"t1"}, {"k1", "s1"}, {"u1", "u2"}}
Held == ("shop" :> "merchant") @@ ("boss" :> "admin") @@ ("ana" :> "customer")
Dialled == ("shop" :> 1) @@ ("boss" :> 2) @@ ("ana" :> 1)

SignedIn == (d1 :> "u") @@ (d2 :> "v")

\* Rows of every collection, and the terms an operator types: an order number, a uid, an
\* address, a branch's id, a telephone number that several accounts have, and a name that many
\* rows bear.
Known(type, ids, name, at, of) == [type |-> type, ids |-> ids, name |-> name, at |-> at, of |-> of]
Dials(at) == Known("CUSTOMER", {<<"phone", "p">>}, "ana" :> "FUZZY", at, {})
Searchable ==
  ("u1" :> Known("CUSTOMER", {<<"phone", "p">>, <<"uid", "u">>}, "ana" :> "EXACT", 1, {})) @@
  ("u2" :> Known("PROVIDER", {<<"email", "e">>},
                 ("ana" :> "PREFIX") @@ ("e" :> "FUZZY") @@ ("u" :> "FUZZY"), 2, {})) @@
  ("u3" :> Known("STAFF", {<<"email", "f">>},
                 ("e" :> "FUZZY") @@ ("u" :> "FUZZY") @@ ("LB-1" :> "FUZZY") @@ ("ana" :> "FUZZY"), 3, {})) @@
  ("b1" :> Known("BRANCH", {<<"object", "b">>},
                 ("LB-1" :> "EXACT") @@ ("ana" :> "FUZZY") @@ ("u" :> "EXACT"), 4, {})) @@
  ("o1" :> Known("ORDER", {<<"order", "1">>, <<"uid", "u">>, <<"object", "b">>}, "ana" :> "EXACT", 5, {"u1"})) @@
  ("o2" :> Known("ORDER", {<<"order", "2">>, <<"uid", "u">>}, "ana" :> "EXACT", 6, {"u1", "u2"})) @@
  ("k1" :> Known("TICKET", {<<"ticket", "9">>, <<"uid", "u">>, <<"email", "e">>},
                 ("LB-1" :> "EXACT") @@ ("ana" :> "FUZZY"), 7, {})) @@
  ("u4" :> Dials(8)) @@ ("u5" :> Dials(9)) @@ ("u6" :> Dials(10))
Terms ==
  ("order" :> [ids |-> {<<"order", "1">>}, name |-> "LB-1"]) @@
  ("uid" :> [ids |-> {<<"uid", "u">>}, name |-> "u"]) @@
  ("branch" :> [ids |-> {<<"object", "b">>}, name |-> "b"]) @@
  ("mail" :> [ids |-> {<<"email", "e">>}, name |-> "e"]) @@
  ("call" :> [ids |-> {<<"phone", "p">>}, name |-> "p"]) @@
  ("ana" :> [ids |-> {}, name |-> "ana"])
StoredAtFirst ==
  {{"u1", "u2", "u3", "b1", "o1", "k1"}, {"u1", "u2", "o1", "o2", "k1"}, {"u1", "b1", "o1"},
   {"u1", "u4", "u5", "u6", "o1"}}

Interchangeable == Permutations({r1, r2}) \cup Permutations({x1, x2})
========================================
