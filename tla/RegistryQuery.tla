--------------------------- MODULE RegistryQuery ---------------------------
(***************************************************************************)
(* The pure part of the registry: service identities, instance keys,       *)
(* queries and label selectors (internal/registry/model.go, selector.go    *)
(* and replication.go).                                                    *)
(*                                                                         *)
(* Abstractions.  A text is what strings.Split makes of it at its dots: a  *)
(* sequence of segments, << >> for the empty text, so that joining is      *)
(* concatenation.  A selector is the sequence of its words, keywords and   *)
(* punctuation marks; words do not begin with "in" or "notin".  White      *)
(* space, which the code trims before every comparison, is left out, and   *)
(* so are metadata and endpoint paths, which nothing looks at.             *)
(***************************************************************************)
EXTENDS Integers, Sequences, SequencesExt, Functions

CONSTANTS
  Depth,           \* the dimensions of an identity: organization .. role, 5 in the code
  SegPrefix,       \* the pairs of segments of which one begins with the other
  DefaultTTL,      \* DefaultLeaseTTLSeconds
  DefaultWeight,   \* DefaultEndpointWeight
  MaxPort          \* 65535

ASSUME RegistryQueryAssumption ==
  /\ Depth \in Nat \ {0} /\ DefaultTTL \in Nat \ {0}
  /\ DefaultWeight \in Nat \ {0} /\ MaxPort \in Nat \ {0}

Empty   == << >>
Dims    == 1 .. Depth
NoDims  == [i \in Dims |-> Empty]
Refused == [ok |-> FALSE]

-----------------------------------------------------------------------------
(* Service identities. *)

hasAnyServiceDimension(dims)  == \E i \in Dims : dims[i] # Empty
hasAllServiceDimensions(dims) == \A i \in Dims : dims[i] # Empty
hasGapInServiceDimensions(dims) ==
  \E i, j \in Dims : i < j /\ dims[i] = Empty /\ dims[j] # Empty

\* strings.Join of the dimensions.
ComposeServiceName(dims) == FlattenSeq(dims)

\* serviceHierarchyDimensions, joined: the dimensions before the first empty
\* one.
hierarchyPrefix(dims) ==
  FlattenSeq(SelectSeq([i \in Dims |-> IF \A j \in 1 .. i : dims[j] # Empty THEN dims[i] ELSE Empty],
                       LAMBDA d : d # Empty))

\* ParseServiceName: exactly Depth segments, none empty.
ParseServiceName(service) ==
  IF Len(service) = Depth /\ \A i \in Dims : service[i] # ""
    THEN [i \in Dims |-> <<service[i]>>] ELSE NoDims

\* A dimension that is not given is taken from the service name.
completed(service, dims) ==
  [i \in Dims |-> IF dims[i] = Empty THEN ParseServiceName(service)[i] ELSE dims[i]]

\* Faulty variant of NormalizeStructuredServiceIdentity: a service name that
\* contradicts the dimensions is let through.
NormalizeUnchecked(service, given) ==
  LET dims == completed(service, given)
  IN  IF ~hasAnyServiceDimension(dims) /\ service = Empty THEN Refused
      ELSE [ok |-> TRUE, dims |-> dims,
            service |-> IF service = Empty THEN ComposeServiceName(dims) ELSE service]

\* A service of any shape may stand alone; otherwise all dimensions are
\* needed, and service and dimensions must agree.
NormalizeStructuredServiceIdentity(service, given) ==
  LET dims      == completed(service, given)
      canonical == ComposeServiceName(dims)
  IN  IF ~hasAnyServiceDimension(dims)
        THEN IF service = Empty THEN Refused ELSE [ok |-> TRUE, service |-> service, dims |-> dims]
        ELSE IF hasAllServiceDimensions(dims) /\ service \in {Empty, canonical}
               THEN [ok |-> TRUE, service |-> canonical, dims |-> dims]
               ELSE Refused

-----------------------------------------------------------------------------
(* Keys: the namespace, the service and the instance id between slashes.  An
   id that itself holds a slash takes more than one place. *)

NamespacePrefix(namespace)        == <<namespace>>
ServicePrefix(namespace, service) == <<namespace, service>>
Key(namespace, service, id)       == <<namespace, service>> \o id

\* ParseKey takes a key apart if it has exactly three places.
ParseKey(key) ==
  IF Len(key) = 3 THEN [ok |-> TRUE, namespace |-> key[1], service |-> key[2], id |-> key[3]]
                  ELSE Refused

-----------------------------------------------------------------------------
(* Instances. *)

EffectiveLeaseTTLSeconds(ttl) == IF ttl > 0 THEN ttl ELSE DefaultTTL

\* IsAlive; what never had a heartbeat does not expire.
IsAlive(value, at) ==
  value.beat = 0 \/ at <= value.beat + EffectiveLeaseTTLSeconds(value.ttl)

\* CloneStringMap drops the empty key.
CloneStringMap(map) == Restrict(map, DOMAIN map \ {""})

validEndpoint(e) ==
  e.protocol # "" /\ e.host # "" /\ e.port \in 1 .. MaxPort /\ e.weight >= 0

normalEndpoint(e) ==
  [e EXCEPT !.name = IF @ = "" THEN e.protocol ELSE @,
            !.weight = IF @ = 0 THEN DefaultWeight ELSE @]

\* NormalizeRegisterInput and the handler's check of the identity, then
\* NewValue.
NewValue(in, now) ==
  LET identity  == NormalizeStructuredServiceIdentity(in.service, in.dims)
      endpoints == [i \in DOMAIN in.endpoints |-> normalEndpoint(in.endpoints[i])]
  IN  IF /\ identity.ok /\ in.namespace # "" /\ in.id # Empty
         /\ in.ttl >= 0
         /\ in.endpoints # << >>
         /\ \A i \in DOMAIN endpoints : validEndpoint(endpoints[i])
         /\ \A i, j \in DOMAIN endpoints : endpoints[i].name = endpoints[j].name => i = j
        THEN [ok |-> TRUE, namespace |-> in.namespace, service |-> identity.service,
              dims |-> identity.dims, id |-> in.id, zone |-> in.zone,
              labels |-> CloneStringMap(in.labels), endpoints |-> endpoints,
              ttl |-> EffectiveLeaseTTLSeconds(in.ttl), beat |-> now]
        ELSE Refused

\* NewReplicatedValue and ToValue: the source's value as it stands.
ToValue(value) ==
  [value EXCEPT !.labels = CloneStringMap(@), !.ttl = EffectiveLeaseTTLSeconds(@)]

FilterEndpoints(endpoints, expected) ==
  SelectSeq(endpoints, LAMBDA e : expected = "" \/ e.name = expected \/ e.protocol = expected)

-----------------------------------------------------------------------------
(* Label selectors: sequences of words and marks. *)

\* The parts of text between its marks at the positions in cuts.
pieces(text, cuts) ==
  LET ends == SetToSortSeq(cuts \cup {0, Len(text) + 1}, <)
  IN  [i \in 1 .. Len(ends) - 1 |-> SubSeq(text, ends[i] + 1, ends[i + 1] - 1)]

\* splitSelectorExpressions: at the commas outside parentheses.
splitSelectorExpressions(raw) ==
  LET count(mark, i) == Len(SelectSeq(SubSeq(raw, 1, i), LAMBDA t : t = mark))
      depth(i) == count("(", i) - count(")", i)
      parts == pieces(raw, {i \in DOMAIN raw : raw[i] = "," /\ depth(i) = 0})
  IN  IF \/ \E i \in DOMAIN raw : depth(i) < 0
         \/ depth(Len(raw)) # 0
         \/ \E i \in DOMAIN parts : parts[i] = Empty
        THEN Refused ELSE [ok |-> TRUE, parts |-> parts]

\* strings.Index, 0 if mark does not occur.
index(text, mark) ==
  LET at == {i \in 1 .. Len(text) - Len(mark) + 1 : SubSeq(text, i, i + Len(mark) - 1) = mark}
  IN  IF at = {} THEN 0 ELSE Min(at)

requirement(key, op, values) == [ok |-> TRUE, key |-> key, op |-> op, values |-> values]

\* parseSetSelectorValues: the values between commas, none empty.
parseSetSelectorValues(raw) == ToSet(pieces(raw, {i \in DOMAIN raw : raw[i] = ","}))

\* parseSetSelectorExpression, with op at position i.
parseSetSelectorExpression(e, i, op) ==
  LET text   == SubSeq(e, i + 1, Len(e))
      values == parseSetSelectorValues(SubSeq(text, 2, Len(text) - 1))
  IN  IF /\ text # Empty /\ Head(text) = "(" /\ Last(text) = ")"
         /\ Empty \notin values
        THEN requirement(SubSeq(e, 1, i - 1), op, values) ELSE Refused

\* parseBinarySelectorExpression, with the mark of the operator at position i.
parseBinarySelectorExpression(e, i, mark, op) ==
  LET key   == SubSeq(e, 1, i - 1)
      value == SubSeq(e, i + Len(mark), Len(e))
  IN  IF key # Empty /\ value # Empty THEN requirement(key, op, {value}) ELSE Refused

\* The operators in the order parseSelectorExpression looks for them.
operators ==
  << [mark |-> <<"notin">>,  op |-> "not_in"],
     [mark |-> <<"in">>,     op |-> "in"],
     [mark |-> <<"!", "=">>, op |-> "not_equals"],
     [mark |-> <<"=", "=">>, op |-> "equals"],
     [mark |-> <<"=">>,      op |-> "equals"] >>

\* parseSelectorExpression: the first operator that occurs decides, a set
\* operator only behind something (its token begins with a blank); without an
\* operator the expression is a key.
parseSelectorExpression(e) ==
  LET isSet(o) == o.op \in {"in", "not_in"}
      found == {n \in DOMAIN operators :
                  index(e, operators[n].mark) > IF isSet(operators[n]) THEN 1 ELSE 0}
      first == operators[Min(found)]
      at    == index(e, first.mark)
  IN  IF found # {}
        THEN IF isSet(first) THEN parseSetSelectorExpression(e, at, first.op)
             ELSE parseBinarySelectorExpression(e, at, first.mark, first.op)
      ELSE IF Head(e) # "!" THEN requirement(e, "exists", {})
      ELSE IF Tail(e) = Empty THEN Refused
      ELSE requirement(Tail(e), "not_exists", {})

\* parseLabelSelectors for one item: its expressions, all of them good.
parseLabelSelectors(item) ==
  LET split  == splitSelectorExpressions(item)
      parsed == {parseSelectorExpression(split.parts[i]) : i \in DOMAIN split.parts}
  IN  IF item = Empty THEN [ok |-> TRUE, reqs |-> {}]
      ELSE IF split.ok /\ \A r \in parsed : r.ok THEN [ok |-> TRUE, reqs |-> parsed]
      ELSE Refused

\* parseLegacyLabelFilters for one item: key=value, at the first equals sign.
parseLegacyLabelFilters(item) ==
  LET parsed == parseBinarySelectorExpression(item, index(item, <<"=">>), <<"=">>, "equals")
  IN  IF item = Empty THEN [ok |-> TRUE, reqs |-> {}]
      ELSE IF index(item, <<"=">>) > 0 /\ parsed.ok THEN [ok |-> TRUE, reqs |-> {parsed}]
      ELSE Refused

\* All expressions of all parameters, to be met together.
ParseLabelSelectorFilters(selectors, labels) ==
  LET parsed == {parseLabelSelectors(selectors[i]) : i \in DOMAIN selectors}
                  \cup {parseLegacyLabelFilters(labels[i]) : i \in DOMAIN labels}
  IN  IF \A p \in parsed : p.ok THEN [ok |-> TRUE, reqs |-> UNION {p.reqs : p \in parsed}]
                                ELSE Refused

\* Faulty variant of matchesLabelRequirement: != asks for the label.
matchesLabelRequirementStrict(labels, r) ==
  LET exists == Len(r.key) = 1 /\ r.key[1] \in DOMAIN labels
      value  == <<labels[r.key[1]]>>
  IN  CASE r.op \in {"exists", "not_equals", "not_in"} -> exists /\ value \notin r.values
        [] r.op = "not_exists" -> ~exists
        [] r.op \in {"equals", "in"} -> exists /\ value \in r.values

matchesLabelRequirement(labels, r) ==
  LET exists == Len(r.key) = 1 /\ r.key[1] \in DOMAIN labels
      value  == <<labels[r.key[1]]>>
  IN  CASE r.op = "exists" -> exists
        [] r.op = "not_exists" -> ~exists
        [] r.op \in {"equals", "in"} -> exists /\ value \in r.values
        [] r.op \in {"not_equals", "not_in"} -> ~exists \/ value \notin r.values

MatchesLabelSelector(labels, selector) == \A r \in selector : matchesLabelRequirement(labels, r)

-----------------------------------------------------------------------------
(* Queries. *)

\* normalizeQueryServiceIdentity: all dimensions name the service, the leading
\* ones a prefix.
normalizeQueryServiceIdentity(q, given) ==
  LET dims == completed(q.service, given)
      canonical == ComposeServiceName(dims)
  IN  IF ~hasAnyServiceDimension(dims) THEN q
      ELSE IF hasGapInServiceDimensions(dims) THEN Refused
      ELSE IF hasAllServiceDimensions(dims)
             THEN IF q.service \in {Empty, canonical}
                    THEN [q EXCEPT !.service = canonical, !.services = @ \cup {canonical}]
                    ELSE Refused
      ELSE [q EXCEPT !.prefixes = @ \cup {hierarchyPrefix(dims)}]

\* normalizeStringSlice and appendUniqueString: what is given, each value once.
normalizeStringSlice(values) == ToSet(values) \ {Empty}

\* ParseQuery.  Service is the first service parameter, or the only one that
\* is not empty.
ParseQuery(p) ==
  LET services == normalizeStringSlice(p.services)
      selector == ParseLabelSelectorFilters(p.selectors, p.labels)
      query == normalizeQueryServiceIdentity(
        [ok |-> TRUE, namespace |-> p.namespace,
         service |-> IF Cardinality(services) = 1 THEN CHOOSE s \in services : TRUE
                     ELSE IF p.services = << >> THEN Empty ELSE Head(p.services),
         services |-> services, prefixes |-> normalizeStringSlice(p.prefixes),
         zone |-> p.zone, endpoint |-> p.endpoint, limit |-> p.limit,
         selector |-> {}], p.dims)
  IN  IF p.namespace = "" \/ ~query.ok \/ p.limit < 0 \/ ~selector.ok
        THEN Refused ELSE [query EXCEPT !.selector = selector.reqs]

\* strings.HasPrefix on texts: the last segment of the prefix may be cut short.
HasPrefix(text, prefix) ==
  LET n == Len(prefix)
  IN  /\ n <= Len(text)
      /\ \A i \in 1 .. n - 1 : text[i] = prefix[i]
      /\ prefix[n] \in {"", text[n]} \/ <<prefix[n], text[n]>> \in SegPrefix

\* Each kind of condition that is given must be met.
MatchServiceQuery(service, q) ==
  /\ q.service \in {Empty, service}
  /\ q.services = {} \/ service \in q.services
  /\ q.prefixes = {} \/ \E prefix \in q.prefixes : HasPrefix(service, prefix)

MatchQuery(value, q) ==
  /\ q.namespace \in {"", value.namespace}
  /\ MatchServiceQuery(value.service, q)
  /\ q.zone \in {"", value.zone}
  /\ MatchesLabelSelector(value.labels, q.selector)
  /\ q.endpoint = "" \/ FilterEndpoints(value.endpoints, q.endpoint) # << >>

\* prefixRange: the keys that begin with the prefix.
prefixRange(prefix, keys) == SelectSeq(keys, LAMBDA k : IsPrefix(prefix, k))

\* The range to scan: one service if the query pins it down.
scanPrefix(q) ==
  IF q.service # Empty /\ Cardinality(q.services) <= 1 /\ q.prefixes = {}
    THEN ServicePrefix(q.namespace, q.service) ELSE NamespacePrefix(q.namespace)
=============================================================================
