---------------------------- MODULE NetworkPolicy ----------------------------
(***************************************************************************)
(* The desired network policy (internal/networkpolicy): which documents    *)
(* Validate accepts, and the private comparison of an accepted policy with *)
(* an observed address table (networkinventory/address_preflight.go).      *)
(* Addresses are numbers of Width bits: 0 .. Size-1 stand for IPv4, the    *)
(* same numbers from V6 on for routable IPv6, LinkLocal for fe80::1 and    *)
(* Loopback for ::1.  Hostname, labels and text forms are left out.        *)
(***************************************************************************)
EXTENDS Naturals, Sequences, FiniteSets, SequencesExt

CONSTANTS
    Width,      \* bits of an address (32 and 128 in the code)
    Families4,  \* IPv4 settings offered to a port
    Families6,  \* IPv6 settings offered to a port
    RouteLists, \* static route lists offered
    Resolvers   \* DNS settings offered

VARIABLES policy, verdict, counts

vars == <<policy, verdict, counts>>

Size == 2 ^ Width
V6 == 128
LinkLocal == 200
Loopback == 300
NoGateway == 999
Ports == {1, 2}

Is4(a) == a < Size
Masked(p) == p.addr \div 2 ^ (Width - p.bits)
Holds(p, a) == Is4(p.addr) = Is4(a) /\ Masked(p) = Masked([addr |-> a, bits |-> p.bits])
Overlaps(p, q) == IF p.bits <= q.bits THEN Holds(p, q.addr) ELSE Holds(q, p.addr)

unicast(a, linkLocal) == a # Loopback /\ (a # LinkLocal \/ linkLocal)

\* Not the first and not the last address of a network that has hosts.
ipv4Host(p) ==
    \/ p.bits >= Width - 1
    \/ p.addr % 2 ^ (Width - p.bits) \notin {0, 2 ^ (Width - p.bits) - 1}

validateFamily(f, v4) ==
    /\ CASE f.mode = "disabled" -> f.addrs = <<>> /\ ~f.def /\ f.gw = NoGateway /\ f.metric = 0
         [] f.mode = "dhcp" -> v4
         [] f.mode = "auto" -> ~v4
         [] f.mode = "static" -> f.addrs # <<>>
    /\ f.mode # "disabled" =>
         /\ f.def <=> f.metric # 0
         /\ f.gw # NoGateway => f.mode = "static" /\ f.def
         /\ f.mode = "static" /\ f.def => f.gw # NoGateway
         /\ f.mode # "static" => f.addrs = <<>>
    /\ \A i \in DOMAIN f.addrs :
         LET p == f.addrs[i] IN
         /\ p.bits # 0 /\ Is4(p.addr) = v4 /\ unicast(p.addr, FALSE)
         /\ v4 => ipv4Host(p)
         /\ \A j \in 1 .. i - 1 : f.addrs[j].addr # p.addr

Family(p, port, v4) == IF v4 THEN p.ports[port].v4 ELSE p.ports[port].v6

PortPrefixes(p, port, v4) == ToSet(Family(p, port, v4).addrs)

AllPrefixes(p) ==
    UNION {PortPrefixes(p, port, v4) : port \in Ports, v4 \in BOOLEAN}

gateway(p, a, v4, port) ==
    /\ a # NoGateway /\ Is4(a) = v4 /\ unicast(a, ~v4)
    /\ \A q \in AllPrefixes(p) : q.addr # a
    /\ \/ ~v4 /\ a = LinkLocal
       \/ \E q \in PortPrefixes(p, port, v4) :
            Holds(q, a) /\ (v4 => ipv4Host([addr |-> a, bits |-> q.bits]))

\* The networks of the two ports are apart, in each family.
PortsApart(p) ==
    \A v4 \in BOOLEAN : \A a \in PortPrefixes(p, 1, v4), b \in PortPrefixes(p, 2, v4) :
        ~Overlaps(a, b)

validRoute(p, i) ==
    LET r == p.routes[i]
        v4 == Is4(r.dest.addr)
    IN  /\ r.dest.bits # 0 /\ r.dest.addr % 2 ^ (Width - r.dest.bits) = 0
        /\ unicast(r.dest.addr, FALSE) /\ r.metric # 0
        /\ Family(p, r.port, v4).mode = "static"
        /\ gateway(p, r.gw, v4, r.port)
        /\ \A j \in 1 .. i - 1 :
             p.routes[j].dest # r.dest \/ p.routes[j].metric # r.metric

validateDNS(p) ==
    /\ CASE p.dns.mode = "manual" -> p.dns.source = 0 /\ p.dns.servers # <<>>
         [] p.dns.mode = "automatic" ->
              /\ p.dns.source \in Ports /\ p.dns.servers = <<>>
              /\ \/ p.ports[p.dns.source].v4.mode = "dhcp"
                 \/ p.ports[p.dns.source].v6.mode = "auto"
    /\ \A i \in DOMAIN p.dns.servers :
         /\ unicast(p.dns.servers[i], FALSE) \/ p.dns.servers[i] = Loopback
         /\ \A j \in 1 .. i - 1 : p.dns.servers[j] # p.dns.servers[i]

ValidateEachPort(p) ==
    /\ \A port \in Ports : validateFamily(p.ports[port].v4, TRUE) /\ validateFamily(p.ports[port].v6, FALSE)
    /\ \E port \in Ports, v4 \in BOOLEAN : Family(p, port, v4).mode # "disabled"
    /\ \A i \in DOMAIN p.routes : validRoute(p, i)
    /\ validateDNS(p)

Validate(p) ==
    /\ \A port \in Ports :
         /\ validateFamily(p.ports[port].v4, TRUE)
         /\ validateFamily(p.ports[port].v6, FALSE)
    /\ \A v4 \in BOOLEAN :
         Family(p, 1, v4).def /\ Family(p, 2, v4).def
             => Family(p, 1, v4).metric # Family(p, 2, v4).metric
    /\ \E port \in Ports, v4 \in BOOLEAN : Family(p, port, v4).mode # "disabled"
    /\ PortsApart(p)
    /\ \A port \in Ports, v4 \in BOOLEAN :
         Family(p, port, v4).gw # NoGateway
             => gateway(p, Family(p, port, v4).gw, v4, port)
    /\ \A i \in DOMAIN p.routes : validRoute(p, i)
    /\ validateDNS(p)

-----------------------------------------------------------------------------
(* assessLocalAddresses: the policy against the addresses of the interfaces *)
(* bound to its two ports.  An address is [port, prefix].                   *)

Statics(p) ==
    {<<port, q>> \in Ports \X AllPrefixes(p) :
        q \in PortPrefixes(p, port, TRUE) \cup PortPrefixes(p, port, FALSE)}

\* The gateways of enabled families and of routes, each port's once.
Gateways(p) ==
    {<<port, g>> \in Ports \X (0 .. LinkLocal) :
        \/ \E v4 \in BOOLEAN : Family(p, port, v4).gw = g
        \/ \E i \in DOMAIN p.routes : p.routes[i].port = port /\ p.routes[i].gw = g}

assessLocalAddresses(p, table) ==
    [static |-> Cardinality(Statics(p)),
     exact |-> Cardinality({s \in Statics(p) : s \in table}),
     missing |-> Cardinality({s \in Statics(p) : s \notin table}),
     addressElsewhere |-> Cardinality({s \in Statics(p) :
         \E e \in table : e[1] # s[1] /\ e[2].addr = s[2].addr}),
     overlapElsewhere |-> Cardinality({s \in Statics(p) :
         \E e \in table : e[1] # s[1] /\ Overlaps(s[2], e[2])}),
     localGateways |-> Cardinality({g \in Gateways(p) :
         \E e \in table : e[2].addr = g[2] /\ (g[2] # LinkLocal \/ e[1] = g[1])})]

NoCounts == [static |-> 0, exact |-> 0, missing |-> 0, addressElsewhere |-> 0,
             overlapElsewhere |-> 0, localGateways |-> 0]

Decode ==
    /\ verdict = "offered"
    /\ verdict' = IF Validate(policy) THEN "valid" ELSE "refused"
    /\ UNCHANGED <<policy, counts>>

\* The policy against a kernel that has exactly the policy's addresses.
AssessApplied ==
    /\ verdict = "valid"
    /\ verdict' = "assessed"
    /\ counts' = assessLocalAddresses(policy, Statics(policy))
    /\ UNCHANGED policy

Init ==
    /\ \E a, b \in Families4, c, d \in Families6, routes \in RouteLists, dns \in Resolvers :
         policy = [ports |-> <<[v4 |-> a, v6 |-> c], [v4 |-> b, v6 |-> d]>>,
                   routes |-> routes, dns |-> dns]
    /\ verdict = "offered" /\ counts = NoCounts

Next == Decode \/ AssessApplied

Spec == Init /\ [][Next]_vars

-----------------------------------------------------------------------------
\* Every gateway of an accepted policy is reached through one port only: no
\* network of the other port holds it, and no address of the device is it.
\* Two default routes of a family never tie.
GatewaysUnambiguous ==
    verdict = "valid" =>
        /\ \A g \in Gateways(policy) :
             /\ \A q \in AllPrefixes(policy) : q.addr # g[2]
             /\ Is4(g[2]) => \A q \in PortPrefixes(policy, 3 - g[1], TRUE) :
                               ~Holds(q, g[2])
        /\ \A v4 \in BOOLEAN : \E port \in Ports :
             \/ ~Family(policy, port, v4).def
             \/ Family(policy, port, v4).metric
                  # Family(policy, 3 - port, v4).metric

\* A policy that Validate accepts, once applied, is clean in the eyes of the
\* preflight: every static address exact, none in use or overlapped elsewhere,
\* no gateway local.
AppliedIsClean ==
    verdict = "assessed" =>
        counts = [NoCounts EXCEPT !.static = counts.static, !.exact = counts.static]
=============================================================================
