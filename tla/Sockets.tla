------------------------------ MODULE Sockets ------------------------------
(***************************************************************************)
(* The sockets of the participants on one host (rtps/transport.rs) and the *)
(* order in which RtpsUdpParticipant::new_with_config binds them           *)
(* (rtps/dds_participant.rs).  A host is a function from participants to   *)
(* records; every bind is a step, so that participants that start at the   *)
(* same time compete for the ports.                                        *)
(***************************************************************************)
EXTENDS Announce

CONSTANT UnicastPortRetries     \* UNICAST_PORT_RETRIES, 16 in the code

ASSUME RetriesAssumption == UnicastPortRetries \in Nat \ {0}

MAX_DOMAIN_ID == 232
validate_domain(domain) == domain \in 0..MAX_DOMAIN_ID

\* RtpsUdpParticipantConfig, and a participant that is being created with it.
Config(ipv6, no_multicast, peers) ==
    [ipv6 |-> ipv6, no_multicast |-> no_multicast, peer_locators |-> peers]

NewParticipant(domain, config) ==
    [domain |-> domain, config |-> config, at |-> "check", meta |-> None, data |-> None,
     groups |-> {}]

Running(p) == p.at = "running"

\* A socket has a family, and multicast sockets share their port.
UnicastPorts(host, ipv6) ==
    UNION {ToSet(host[p].meta \o host[p].data) : p \in {q \in DOMAIN host : host[q].config.ipv6 = ipv6}}
GroupPorts(host, ipv6) ==
    UNION {{g.port : g \in host[p].groups} : p \in {q \in DOMAIN host : host[q].config.ipv6 = ipv6}}

\* bind_unicast_v4 and bind_unicast_v6: the first free port of the range, in which
\* port numbers saturate.
bind_unicast_retry(host, ipv6, port) ==
    LET candidate(i) == IF port + i < U16 THEN port + i ELSE U16 - 1
        free == {i \in 0..(UnicastPortRetries - 1) :
                   candidate(i) \notin UnicastPorts(host, ipv6) \cup GroupPorts(host, ipv6)}
    IN  IF free = {} THEN None ELSE <<candidate(CHOOSE i \in free : \A j \in free : i <= j)>>

\* bind_multicast_v4 and bind_multicast_v6 fail for want of an interface, too.
bind_multicast(host, ipv6, port, interface) ==
    interface /\ port # None /\ port[1] \notin UnicastPorts(host, ipv6)

Failed(p) == [p EXCEPT !.at = "failed", !.meta = None, !.data = None, !.groups = {}]

Bound(p, field, port, next) ==
    IF port = None THEN Failed(p) ELSE [p EXCEPT ![field] = port, !.at = next]

\* The next step of new_with_config for participant id.  The socket for user data
\* may be missing, any other one makes the call fail.
new_with_config(host, id, interface) ==
    LET p == host[id]
        v6 == p.config.ipv6
        joined(group, port) ==
            [p EXCEPT !.groups = @ \cup {[group |-> group, port |-> port[1]]}]
    IN  CASE p.at = "check" ->
               IF \/ ~validate_domain(p.domain) \/ meta_unicast_port(p.domain, 0) = None
                  \/ data_unicast_port(p.domain, 0) = None
               THEN Failed(p) ELSE [p EXCEPT !.at = "meta"]
          [] p.at = "meta" ->
               Bound(p, "meta", bind_unicast_retry(host, v6, meta_unicast_port(p.domain, 0)[1]), "data")
          [] p.at = "data" ->
               Bound(p, "data", bind_unicast_retry(host, v6, data_unicast_port(p.domain, 0)[1]),
                     IF p.config.no_multicast THEN "running" ELSE "spdp group")
          [] p.at = "spdp group" ->
               IF bind_multicast(host, v6, meta_multicast_port(p.domain), interface)
               THEN [joined("spdp", meta_multicast_port(p.domain)) EXCEPT !.at = "data group"]
               ELSE Failed(p)
          [] p.at = "data group" ->
               [IF bind_multicast(host, v6, user_multicast_port(p.domain), interface)
                THEN joined("data", user_multicast_port(p.domain)) ELSE p EXCEPT !.at = "running"]

\* Mutant: the participant announces the ports it asked for.
SpdpOfBase(p, prefix) ==
    [SpdpConfig(p.domain, prefix, meta_unicast_port(p.domain, 0)[1], data_unicast_port(p.domain, 0)[1])
     EXCEPT !.ipv6 = p.config.ipv6, !.no_multicast = p.config.no_multicast,
            !.peer_locators = p.config.peer_locators]

\* The SpdpConfig of a participant, with local_port of its sockets.
SpdpOf(p, prefix) ==
    [SpdpConfig(p.domain, prefix, p.meta[1], p.data[1])
     EXCEPT !.ipv6 = p.config.ipv6, !.no_multicast = p.config.no_multicast,
            !.peer_locators = p.config.peer_locators]

\* Where its SPDP receive loops listen: the group and, by spawn_datagram_fanout,
\* the metatraffic port at the address of the host.
Listens(p, address) ==
    {spdp_multicast_dst(p.config.ipv6, g.port) : g \in {h \in p.groups : h.group = "spdp"}}
    \cup {[family |-> IF p.config.ipv6 THEN 6 ELSE 4, addr |-> address, port |-> p.meta[1]]}
=============================================================================
