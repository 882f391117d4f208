--------------------------- MODULE DestinationRules ---------------------------
(***************************************************************************)
(* The destination rules of squid-infoproxy (matcher.rs): the members of   *)
(* an allow-list, the request line Squid sends, and whether a rule permits *)
(* a request.  A host name is its sequence of labels, the last one first,  *)
(* after the normalisation of host_matches; an address range is the set of *)
(* the addresses it contains.                                              *)
(***************************************************************************)
EXTENDS Integers, Sequences

CONSTANTS
    Unset,      \* None of Option<u16>, and an empty or "-" field
    PortSpace,  \* 2^16: the numbers a u16 holds are 0 .. PortSpace - 1
    LabelEnds   \* pairs <<l, s>>: the text of label l ends with the text s

PortNumbers == 0 .. PortSpace - 1

\* `trim().parse::<u16>().ok()`: a number a u16 cannot hold counts as no number
PortOf(text) == IF text \in PortNumbers THEN text ELSE Unset

\* The text of host ends with the text of suffix, which may start inside a label
TextEnds(host, suffix) ==
    LET n == Len(suffix)
    IN  /\ n <= Len(host)
        /\ \A i \in 1 .. n - 1 : host[i] = suffix[i]
        /\ <<host[n], suffix[n]>> \in LabelEnds

\* The domain itself or a subdomain of it
InDomain(host, base) ==
    /\ Len(base) <= Len(host)
    /\ \A i \in 1 .. Len(base) : host[i] = base[i]

\* "*suffix" is [star |-> TRUE]; "*.base", ".base" and "base" mean the same
host_matches(dns, host) ==
    /\ host # <<>> /\ dns.labels # <<>>
    /\ IF dns.star THEN TextEnds(host, dns.labels) ELSE InDomain(host, dns.labels)

\* decide's Request from the fields of the line; dst and rd are a name
\* [addr, labels] or Unset, addr being the address its text denotes, if any
RequestOf(line) ==
    LET host == IF line.rd # Unset THEN line.rd ELSE line.dst
    IN  [ips    |-> {n.addr : n \in {line.dst, host} \ {Unset}} \ {Unset},
         host   |-> IF host = Unset THEN <<>> ELSE host.labels,
         port   |-> PortOf(line.port),
         method |-> line.method]

port_allows(rule, req) ==
    LET lo == PortOf(rule.port_from)
        hi == IF PortOf(rule.port_to) = Unset THEN lo ELSE PortOf(rule.port_to)
    IN  lo # Unset => req.port # Unset /\ lo <= req.port /\ req.port <= hi

\* rule.protocol: the words its lower-case text contains, {} if it is blank
proto_allows(rule, req) ==
    rule.protocol # {} => "any" \in rule.protocol \/ req.method \in rule.protocol

\* An unparsable or empty cidr contains no address
rule_allows(rule, req, strict_proto) ==
    /\ \/ req.ips \cap rule.cidr # {}
       \/ host_matches(rule.dns, req.host)
    /\ port_allows(rule, req)
    /\ strict_proto => proto_allows(rule, req)

=============================================================================
