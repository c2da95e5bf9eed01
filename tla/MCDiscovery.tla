---------------------------- MODULE MCDiscovery ----------------------------
(* Small instances of Discovery for TLC. *)
EXTENDS Discovery

\* One segment begins with another: order and orders.
Begins == {<<"order", "orders">>}

Order  == <<"co", "trade", "order">>
Orders == <<"co", "trade", "orders", "eu">>
Plain  == <<"legacy">>

dimsOf(service) ==
  [i \in Dims |-> IF i < Depth THEN <<service[i]>> ELSE SubSeq(service, Depth, Len(service))]

http(host) == [name |-> "", protocol |-> "http", host |-> host, port |-> 80, weight |-> 0]
metrics(host) == [name |-> "metrics", protocol |-> "http", host |-> host, port |-> 81, weight |-> 1]

instance(service, dims, id, zone, labels, endpoints) ==
  [namespace |-> "prod", service |-> service, dims |-> dims, id |-> id, zone |-> zone,
   labels |-> labels, endpoints |-> endpoints, ttl |-> 0]

\* The same instance with one label or another, given by service or by
\* dimensions; one whose last dimension has a dot; one without dimensions and
\* with a slash in its id.
SomeInputs == {
  instance(Order, NoDims, <<"a">>, "z1", "color" :> "gray", <<http("h1")>>),
  instance(Empty, dimsOf(Order), <<"a">>, "z1", ("color" :> "blue") @@ ("" :> "x"), <<http("h1"), metrics("h1")>>),
  instance(Orders, dimsOf(Orders), <<"b">>, "z2", [l \in {} |-> ""], <<metrics("any")>>),
  instance(Plain, NoDims, <<"c", "1">>, "z1", "color" :> "gray", <<http("h3"), metrics("h3")>>),
  \* refused: two endpoints of one name; a dimension missing; a contradiction
  instance(Order, NoDims, <<"a">>, "z1", "color" :> "red", <<http("h1"), http("h1")>>),
  instance(Empty, [dimsOf(Order) EXCEPT ![2] = Empty], <<"a">>, "", "color" :> "red", <<http("h1")>>),
  instance(Order, dimsOf(Orders), <<"a">>, "", "color" :> "red", <<http("h1")>>)}

SomeKeys == << Key("prod", Order, <<"a">>), Key("prod", Orders, <<"b">>), Key("prod", Plain, <<"c", "1">>) >>

ask(form, name, endpoint, conds, limit) ==
  [namespace |-> "prod", form |-> form, name |-> name, zone |-> "", endpoint |-> endpoint,
   conds |-> conds, limit |-> limit]
cond(key, op, values) == [key |-> key, op |-> op, values |-> values]

SomeWatched == {
  ask("service", Order, "", <<cond("color", "equals", <<"gray">>)>>, 0),
  ask("prefix", Order, "metrics", << >>, 0)}

\* The prefix in SomeWatched also finds co.trade.orders.eu, which it does not
\* mean.  No prefix here is the beginning of a longer segment.
SomeQueries == {
  ask("service", Order, "", <<cond("color", "equals", <<"gray">>)>>, 0),
  ask("prefix", <<"co", "trade", "orders">>, "metrics", << >>, 0),
  ask("any", Empty, "", <<cond("color", "not_equals", <<"gray">>)>>, 0),
  ask("dims", Order, "http", <<cond("color", "in", <<"gray", "blue">>), cond("tier", "not_exists", << >>)>>, 0),
  ask("dims", <<"co", "trade">>, "", <<cond("color", "not_in", <<"gray", "red">>)>>, 1),
  ask("service", Plain, "http", <<cond("color", "exists", << >>)>>, 0)}
=============================================================================
