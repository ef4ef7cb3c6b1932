-------------------------- MODULE NetworkInventory --------------------------
(***************************************************************************)
(* The private observation of the kernel's network state                   *)
(* (internal/networkinventory).  Collect dumps six kernel tables over one  *)
(* netlink socket, one after another, then dumps them all again, and       *)
(* answers only when both passes normalise to the same snapshot; Recheck   *)
(* observes once more and compares with an earlier answer.  The kernel     *)
(* changes its tables at any moment.  A message carries only what the      *)
(* snapshot tells apart: which entry it is, what it refers to, and whether *)
(* it has an attribute the parsers do not understand.                      *)
(***************************************************************************)
EXTENDS Naturals, Sequences, FiniteSets, SequencesExt

CONSTANTS
    MaxRules,   \* MaxRules of the code: rules of both families together
    MaxEntries, \* MaxInterfaces, MaxAddresses, MaxRoutes, MaxNextHopObjects
    MaxEvents,  \* bound: changes of the kernel's tables in a behaviour
    Shuffled,   \* bound: the tables whose dump order varies
    Odd         \* entries (of routes and objects) with an unknown attribute

VARIABLES
    kernel,     \* the kernel's tables
    past,       \* history: every value of `kernel', in order
    phase,      \* what Collect is doing
    pass,       \* which of the two reads is running
    at,         \* the table being dumped, an index of Tables
    dump,       \* the running dump: messages to come, entries taken, disturbed
    got,        \* the tables this pass has taken so far
    first,      \* the normalised snapshot of the first pass
    prior,      \* the observation an earlier Collect returned
    from,       \* history: Len(past) when this Collect began
    lost        \* history: a message was refused, lost or late in this Collect

vars == <<kernel, past, phase, pass, at, dump, got, first, prior, from, lost>>

Tables == <<"links", "addresses", "routes", "rules4", "rules6", "objects">>

Blank == [links |-> <<>>, addresses |-> <<>>, routes |-> <<>>,
          rules4 |-> <<>>, rules6 |-> <<>>, objects |-> <<>>]

None == [links |-> {}, addresses |-> {}, routes |-> {}, rules |-> <<>>,
         objects |-> {}]

NoDump == [left |-> <<>>, disturbed |-> FALSE]

-----------------------------------------------------------------------------
(* The kernel.  Interface 1 is always there; interface 2 comes and goes and *)
(* takes its addresses, next hops and routes with it, and a rule that names *)
(* it is then marked detached.  Object 1 is a next hop through interface 2, *)
(* object 2 a group that has it as its member.                              *)

Link(i, up) == [id |-> i, up |-> up]
Address(i) == [id |-> i, on |-> i]
Direct == [id |-> 1, out |-> 2, object |-> 0]
Shared == [id |-> 2, out |-> 0, object |-> 2]
Leaf == [id |-> 1, out |-> 2, members |-> <<>>]
Group == [id |-> 2, out |-> 0, members |-> <<1>>]
Rule(f, p, on, off) == [family |-> f, prio |-> p, on |-> on, detached |-> off]

Linked(k) == \E l \in k.links : l.id = 2

\* A link is removed: what hangs on it goes with it, rules become detached.
Unplugged(k) ==
    [k EXCEPT !.links = {l \in @ : l.id # 2},
              !.addresses = {a \in @ : a.on # 2},
              !.routes = {}, !.objects = {},
              !.rules4 = [i \in DOMAIN @ |->
                             [@[i] EXCEPT !.detached = @ \/ k.rules4[i].on = 2]]]

Plugged(k) ==
    [k EXCEPT !.links = @ \cup {Link(2, TRUE)},
              !.rules4 = [i \in DOMAIN @ |-> [@[i] EXCEPT !.detached = FALSE]]]

\* Everything one configuration command, or a carrier change, may do.
Changes(k) ==
    {k2 \in
        {IF Linked(k) THEN Unplugged(k) ELSE Plugged(k),
         [k EXCEPT !.links = {Link(l.id, l.id = 1 \/ ~l.up) : l \in @}],
         [k EXCEPT !.addresses = @ \cup {Address(2)}],
         [k EXCEPT !.addresses = @ \ {Address(2)}],
         [k EXCEPT !.routes = @ \cup {Direct}],
         [k EXCEPT !.routes = @ \ {Direct}],
         [k EXCEPT !.objects = {Leaf}, !.routes = @ \ {Shared}],
         [k EXCEPT !.objects = {Leaf, Group}],
         [k EXCEPT !.routes = IF Group \in k.objects THEN @ \cup {Shared} ELSE @],
         [k EXCEPT !.rules4 = Reverse(@)],
         [k EXCEPT !.rules6 = Append(@, Rule(6, 1, 0, FALSE))]} :
        /\ k2 # k
        /\ ~Linked(k2) => k2.addresses \subseteq {Address(1)}
                          /\ k2.routes = {} /\ k2.objects = {}}

Change ==
    /\ Len(past) <= MaxEvents
    /\ \E k \in Changes(kernel) :
         /\ kernel' = k
         /\ past' = Append(past, k)
         /\ dump' = [dump EXCEPT !.disturbed =
                        @ \/ (phase = "dump" /\ k[Tables[at]] # kernel[Tables[at]])]
    /\ UNCHANGED <<phase, pass, at, got, first, prior, from, lost>>

\* The order of a dump (external): rules in the order of the policy, the rest in any.
Orders(t) ==
    IF t \in {"rules4", "rules6"} THEN {kernel[t]}
    ELSE IF t \in Shuffled THEN SetToSeqs(kernel[t])
    ELSE {SetToSeq(kernel[t])}

-----------------------------------------------------------------------------
(* What the parsers make of a message.  `age' is the part of a message that *)
(* moves by itself: usage, expiry and time stamps.                          *)

parseLink(m, age) == m

parseAddress(m, age) == m

parseRouteAged(m, age) ==
    [id |-> m.id, out |-> m.out, object |-> m.object, age |-> age,
     unresolved |-> m.object # 0 \/ <<"routes", m.id>> \in Odd]

parseRoute(m, age) ==
    [id |-> m.id, out |-> m.out, object |-> m.object, age |-> 0,
     unresolved |-> m.object # 0 \/ <<"routes", m.id>> \in Odd]

parseRule(m, age) ==
    [family |-> m.family, prio |-> m.prio, on |-> m.on,
     detached |-> m.detached, unresolved |-> m.detached]

parseNextHopObject(m, age) ==
    [id |-> m.id, out |-> m.out, members |-> m.members, age |-> 0,
     unresolved |-> <<"objects", m.id>> \in Odd]

Parsed(t, m, age) ==
    CASE t = "links" -> parseLink(m, age)
      [] t = "addresses" -> parseAddress(m, age)
      [] t = "routes" -> parseRoute(m, age)
      [] t \in {"rules4", "rules6"} -> parseRule(m, age)
      [] t = "objects" -> parseNextHopObject(m, age)

-----------------------------------------------------------------------------
(* normalize.                                                               *)

hasInterface(s, i) == \E l \in s.links : l.id = i

\* The object's members are there, are no groups, and are not it.
objectHolds(o, s) ==
    /\ o.out # 0 => hasInterface(s, o.out)
    /\ \A i \in DOMAIN o.members :
         /\ \E n \in s.objects : n.id = o.members[i] /\ n.members = <<>>
         /\ o.members[i] # o.id

normalizeObjectsOnePass(s) == s.objects

\* A group is unresolved when one of its members is, whatever the dump order.
normalizeObjects(s) ==
    {[o EXCEPT !.unresolved =
        @ \/ \E n \in s.objects : n.unresolved /\ \E i \in DOMAIN o.members :
                                                     o.members[i] = n.id] :
        o \in s.objects}

\* Entries are distinct and whatever they refer to is in the snapshot too.
Whole(s, counts) ==
    /\ s.links # {} /\ Len(s.rules) <= MaxRules
    /\ counts = [links |-> Cardinality({l.id : l \in s.links}),
                 addresses |-> Cardinality({a.id : a \in s.addresses}),
                 routes |-> Cardinality({r.id : r \in s.routes}),
                 objects |-> Cardinality({o.id : o \in s.objects})]
    /\ \A a \in s.addresses : hasInterface(s, a.on)
    /\ \A o \in s.objects : objectHolds(o, s)
    /\ \A r \in s.routes :
         /\ r.object # 0 => \E o \in s.objects : o.id = r.object
         /\ r.out # 0 => hasInterface(s, r.out)
    /\ \A i \in DOMAIN s.rules :
         /\ i > 1 /\ s.rules[i-1].family = s.rules[i].family
               => s.rules[i-1].prio <= s.rules[i].prio
         /\ s.rules[i].on # 0 /\ ~hasInterface(s, s.rules[i].on)
               => s.rules[i].detached

Unsorted(g) ==
    [links |-> ToSet(g.links), addresses |-> ToSet(g.addresses),
     routes |-> ToSet(g.routes), rules |-> g.rules4 \o g.rules6,
     objects |-> ToSet(g.objects)]

normalize(g) == [Unsorted(g) EXCEPT !.objects = normalizeObjects(Unsorted(g))]

Acceptable(g) ==
    Whole(Unsorted(g), [links |-> Len(g.links), addresses |-> Len(g.addresses),
                        routes |-> Len(g.routes), objects |-> Len(g.objects)])

equalButRules(a, b) == [a EXCEPT !.rules = <<>>] = [b EXCEPT !.rules = <<>>]

equal(a, b) == a = b

-----------------------------------------------------------------------------
\* Collect begins; with an earlier answer in hand it is the Collect of Recheck.
Collect ==
    /\ phase \notin {"query", "dump"}
    /\ phase' = "query" /\ pass' = 1 /\ at' = 1
    /\ got' = Blank /\ dump' = NoDump /\ lost' = FALSE /\ first' = None
    /\ from' = Len(past)
    /\ UNCHANGED <<kernel, past, prior>>

\* query sends the request of the next table; the kernel starts the dump.
query ==
    /\ phase = "query"
    /\ phase' = "dump"
    /\ \E order \in Orders(Tables[at]) :
         dump' = [left |-> order, disturbed |-> FALSE]
    /\ UNCHANGED <<kernel, past, pass, at, got, first, prior, from, lost>>

Limit(t) == IF t \in {"rules4", "rules6"} THEN MaxRules ELSE MaxEntries

\* One message of the dump.  A kernel whose table changed under the dump sets
\* a flag that no message of a dump is allowed to carry.
consume ==
    /\ phase = "dump" /\ dump.left # <<>>
    /\ IF dump.disturbed \/ Len(got[Tables[at]]) >= Limit(Tables[at])
       THEN phase' = "unavailable" /\ UNCHANGED <<got, dump>>
       ELSE /\ \E age \in {0, 1} :
                 LET t == Tables[at] IN
                 got' = [got EXCEPT ![t] =
                            Append(@, Parsed(t, Head(dump.left), age))]
            /\ dump' = [dump EXCEPT !.left = Tail(@)]
            /\ UNCHANGED phase
    /\ UNCHANGED <<kernel, past, pass, at, first, prior, from, lost>>

\* read: the rules of both families together are limited too.
TooMany == at = 5 /\ Len(got.rules4) + Len(got.rules6) > MaxRules

\* The closing message; after the last table, normalise and go on to the next
\* pass, or compare the passes and answer (Recheck: compare with `prior').
Done ==
    /\ phase = "dump" /\ dump.left = <<>>
    /\ dump' = NoDump
    /\ CASE dump.disturbed \/ TooMany ->
              phase' = "unavailable" /\ UNCHANGED <<pass, at, got, first, prior>>
         [] ~dump.disturbed /\ ~TooMany /\ at < Len(Tables) ->
              /\ phase' = "query" /\ at' = at + 1
              /\ UNCHANGED <<pass, got, first, prior>>
         [] ~dump.disturbed /\ at = Len(Tables) /\ ~Acceptable(got) ->
              phase' = "unavailable" /\ UNCHANGED <<pass, at, got, first, prior>>
         [] ~dump.disturbed /\ at = Len(Tables) /\ Acceptable(got) /\ pass = 1 ->
              /\ first' = normalize(got) /\ got' = Blank
              /\ phase' = "query" /\ pass' = 2 /\ at' = 1
              /\ UNCHANGED prior
         [] OTHER ->
              /\ phase' = IF ~equal(first, normalize(got)) THEN "unavailable"
                          ELSE IF prior = None THEN "observed"
                          ELSE IF equal(first, prior) THEN "unchanged"
                          ELSE "changed"
              /\ prior' = IF phase' = "observed" THEN first ELSE prior
              /\ got' = Blank /\ at' = 1
              /\ UNCHANGED <<pass, first>>
    /\ UNCHANGED <<kernel, past, from, lost>>

\* A message is malformed, of another sender, missing or late: available and
\* the checks of query and consume end the collection.
Lost ==
    /\ phase \in {"query", "dump"}
    /\ phase' = "unavailable" /\ lost' = TRUE
    /\ UNCHANGED <<kernel, past, pass, at, dump, got, first, prior, from>>

Start(k) ==
    /\ kernel = k /\ past = <<k>>
    /\ phase = "idle" /\ pass = 1 /\ at = 1 /\ dump = NoDump
    /\ got = Blank /\ first = None /\ prior = None /\ from = 1 /\ lost = FALSE

Full == [links |-> {Link(1, TRUE), Link(2, TRUE)},
         addresses |-> {Address(1), Address(2)},
         routes |-> {Direct, Shared},
         rules4 |-> <<Rule(4, 1, 2, FALSE), Rule(4, 1, 0, FALSE)>>,
         rules6 |-> <<>>,
         objects |-> {Leaf, Group}]

Init == Start(Full) \/ Start([Full EXCEPT !.routes = {Direct}]) \/ Start(Unplugged(Full))

Next == Change \/ Collect \/ query \/ consume \/ Done \/ Lost

Spec == Init /\ [][Next]_vars

-----------------------------------------------------------------------------
Answered == phase \in {"observed", "changed", "unchanged"}

\* What normalize makes of a whole table of the kernel, stated on its own.
Reading(k) ==
    LET odd(o) == <<"objects", o.id>> \in Odd IN
    [links |-> k.links, addresses |-> k.addresses,
     routes |-> {parseRoute(r, 0) : r \in k.routes},
     rules |-> [i \in 1 .. Len(k.rules4) + Len(k.rules6) |->
                  parseRule((k.rules4 \o k.rules6)[i], 0)],
     objects |-> {[parseNextHopObject(o, 0) EXCEPT !.unresolved =
                     odd(o) \/ \E n \in k.objects :
                                 odd(n) /\ n.id \in ToSet(o.members)] :
                    o \in k.objects}]

\* No table left a value and came back to it while this Collect ran: two equal
\* dumps cannot tell that apart from a table that stood still.
NoneCameBack ==
    \A t \in ToSet(Tables) : \A i, j, k \in from .. Len(past) :
        i < j /\ j < k /\ past[i][t] = past[k][t] => past[j][t] = past[i][t]

\* An answer of Collect or Recheck describes one moment of the collection: the
\* six tables, dumped at twelve different moments, were all as answered at one.
ObservedTogether ==
    Answered /\ NoneCameBack =>
        \E i \in from .. Len(past) : first = Reading(past[i])

\* Collect refuses only when something happened: with tables that stand still,
\* no message lost and no more rules than the limit, the order of the dumps,
\* usage counters, detached rules and unknown attributes do not make it refuse;
\* and Recheck answers "changed" only when a table did change since.
RefusedForCause ==
    /\ phase = "unavailable" =>
         \/ lost \/ Len(past) > from
         \/ Len(kernel.rules4) + Len(kernel.rules6) > MaxRules
    /\ phase = "changed" => Len(past) > 1
=============================================================================
