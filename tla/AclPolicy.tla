------------------------------ MODULE AclPolicy -------------------------------
(***************************************************************************)
(* Per-user access control: the validation of a pushed ACL                 *)
(* (internal/model/acl_validate.go), its compilation (internal/acl),       *)
(* the check of a connection in the sing-box tracker (conntracker.go) and  *)
(* the outbound that dials what the check left (acl_direct.go).            *)
(*                                                                         *)
(* The policy set is swapped in one step while connections are judged and  *)
(* dialled.  A rule's names stand for its domains and suffixes, a CIDR for *)
(* the set of its addresses.                                               *)
(***************************************************************************)
EXTENDS Integers, FiniteSets, SequencesExt

CONSTANTS
    IPs, Names, Protocols,   \* addresses, domain names and transports
    Members,     \* identities that may connect
    Flows,       \* connections at a time
    Forbidden,   \* loopback, link-local and unspecified addresses
    Public,      \* addresses on the public internet
    MaxPort,     \* the largest port, 2^16 - 1 in the code
    DNSPort,     \* 53 in the code
    ACLConfigs,  \* the configurations the panel pushes
    Rosters,     \* the user lists: the ACL groups of each user
    Dests,       \* what clients ask for
    Nil          \* nil

PortRanges == [lo : 0..MaxPort, hi : 0..MaxPort]

Rules  == [action : {"allow", "deny"}, priority : Int, cidrs : SUBSET SUBSET IPs, names : SUBSET Names,
           resolved : BOOLEAN, ports : Seq(PortRanges), protos : SUBSET Protocols]

Groups == [id : Int, priority : Int, def : {"", "allow", "deny"}, rules : Seq(Rules)]

Configurations == [mode : {"off", "enforce", "dryrun"}, def : {"allow", "deny"}, dns : BOOLEAN, groups : Seq(Groups)]

Policies == [rules : Seq(Rules), def : {"allow", "deny"}, dry : BOOLEAN]

ASSUME AclConstants ==
    /\ MaxPort \in Nat /\ DNSPort \in 1..MaxPort
    /\ ACLConfigs \subseteq Configurations
    /\ Nil \notin IPs /\ Nil \notin Names /\ Nil \notin ACLConfigs /\ Nil \notin Policies
    /\ Dests \subseteq [name : Names \union {Nil}, ip : IPs \union {Nil}, ips : Seq(IPs),
                        port : 0..MaxPort, proto : Protocols]
    /\ \A d \in Dests : d.ip = Nil <=> d.name # Nil

VARIABLES
    snap,        \* Store.snap
    applied,     \* history: the configuration and users it was compiled from
    flow         \* the connections

aclvars == <<snap, applied, flow>>

NoPolicy == [rules |-> <<>>, def |-> "allow", dry |-> FALSE]
Off      == [mode |-> "off", by |-> [u \in {} |-> NoPolicy], fallback |-> Nil]
NoFlow   == [at |-> "free", user |-> Nil, dest |-> Nil, dial |-> <<>>, addr |-> Nil, under |-> Nil]

AclInit ==
    /\ snap = Off
    /\ applied = [config |-> Nil, roster |-> [u \in {} |-> <<>>]]
    /\ flow = [f \in Flows |-> NoFlow]

\* The elements of S in the order Before, as sort.Slice leaves them.
Arranged(S, Before(_, _)) ==
    CHOOSE s \in [1..Cardinality(S) -> S] : \A i, j \in 1..Cardinality(S) : i < j => Before(s[i], s[j])

-----------------------------------------------------------------------------
(***************************************************************************)
(* ValidateACLConfig                                                       *)
(***************************************************************************)
HasDest(r) == r.cidrs # {} \/ r.names # {}

ValidRule(r) ==
    /\ HasDest(r) \/ r.ports # <<>> \/ r.protos # {}
    /\ r.resolved => r.cidrs # {}
    /\ r.action = "allow" => \A cidr \in r.cidrs : ~(cidr \subseteq Forbidden)
    /\ \A k \in DOMAIN r.ports : r.ports[k].lo \in 1..MaxPort /\ r.ports[k].hi \in r.ports[k].lo..MaxPort

ValidConfig(cfg) ==
    /\ \A i, j \in DOMAIN cfg.groups : i # j => cfg.groups[i].id # cfg.groups[j].id
    /\ \A i \in DOMAIN cfg.groups : \A k \in DOMAIN cfg.groups[i].rules : ValidRule(cfg.groups[i].rules[k])

-----------------------------------------------------------------------------
(***************************************************************************)
(* Ports: sorted, merged where they touch, searched by their upper ends.   *)
(***************************************************************************)
RangeBefore(r, s) == r.lo < s.lo \/ (r.lo = s.lo /\ r.hi < s.hi)

\* Mutant of Joins: ranges are merged when they only come near.
JoinsNear(last, r) == r.lo <= last.hi + 2

\* The sum is one of 16-bit numbers.
Joins(last, r) == r.lo <= (last.hi + 1) % (MaxPort + 1)

Merge(merged, r) ==
    IF merged # <<>> /\ Joins(Last(merged), r)
    THEN [merged EXCEPT ![Len(merged)].hi = IF r.hi > @ THEN r.hi ELSE @]
    ELSE Append(merged, r)

CompilePorts(ports) == FoldLeft(Merge, <<>>, Arranged(ToSet(ports), RangeBefore))

\* sort.Search is a binary search for the first range that ends at or past the
\* port: the smallest index, in the half it is led to.
Search(ranges, port) ==
    LET half[part \in (0..Len(ranges)) \X (0..Len(ranges))] ==
            LET lo  == part[1]
                hi  == part[2]
                mid == (lo + hi) \div 2
            IN  IF lo >= hi THEN lo
                ELSE IF ranges[mid + 1].hi >= port THEN half[<<lo, mid>>] ELSE half[<<mid + 1, hi>>]
    IN  half[<<0, Len(ranges)>>] + 1

MatchPort(ranges, port) ==
    LET i == Search(ranges, port) IN i <= Len(ranges) /\ ranges[i].lo <= port

-----------------------------------------------------------------------------
(***************************************************************************)
(* Compilation.                                                            *)
(***************************************************************************)
CompileRule(r) == [r EXCEPT !.ports = CompilePorts(@)]

\* The places of a sequence by priority, a stable order.
ByPriority(s) ==
    Arranged(DOMAIN s, LAMBDA i, j : s[i].priority < s[j].priority \/ (s[i].priority = s[j].priority /\ i < j))

CompileGroup(g) ==
    [g EXCEPT !.rules = [k \in DOMAIN g.rules |-> CompileRule(g.rules[ByPriority(g.rules)[k]])]]

\* Unknown groups are dropped, and a group named twice counts once.
KnownGroups(ids, cfg) == {i \in DOMAIN cfg.groups : cfg.groups[i].id \in ToSet(ids)}

GroupsInOrder(ids, cfg) ==
    LET g == cfg.groups
    IN  Arranged(KnownGroups(ids, cfg), LAMBDA i, j : \/ g[i].priority < g[j].priority
                                                      \/ g[i].priority = g[j].priority /\ g[i].id < g[j].id)

DNSRule == [action |-> "allow", priority |-> 0, cidrs |-> {}, names |-> {}, resolved |-> FALSE,
            ports |-> <<[lo |-> DNSPort, hi |-> DNSPort]>>, protos |-> {}]

\* The groups by priority and ID; the first that has a default overrides the
\* node's; under a deny default the name service comes before everything.
BuildPolicy(ids, cfg) ==
    LET ordered  == [k \in 1..Cardinality(KnownGroups(ids, cfg)) |-> CompileGroup(cfg.groups[GroupsInOrder(ids, cfg)[k]])]
        speaking == SelectInSeq(ordered, LAMBDA g : g.def # "")
        def      == IF speaking = 0 THEN cfg.def ELSE ordered[speaking].def
        dns      == IF def = "deny" /\ cfg.dns THEN <<DNSRule>> ELSE <<>>
    IN  [rules |-> FoldLeft(LAMBDA s, g : s \o g.rules, dns, ordered), def |-> def, dry |-> cfg.mode = "dryrun"]

\* An identity nobody knows gets what a user without groups gets.
Compiled(cfg, roster) ==
    [mode |-> cfg.mode, by |-> [u \in DOMAIN roster |-> BuildPolicy(roster[u], cfg)],
     fallback |-> IF cfg.def = "deny" THEN BuildPolicy(<<>>, cfg) ELSE Nil]

\* Store.Update
Update(cfg, roster) ==
    /\ IF cfg.mode # "off" /\ ~ValidConfig(cfg)
          THEN UNCHANGED <<snap, applied>>
          ELSE /\ snap' = IF cfg.mode = "off" THEN Off ELSE Compiled(cfg, roster)
               /\ applied' = [config |-> cfg, roster |-> roster]
    /\ UNCHANGED flow

-----------------------------------------------------------------------------
(***************************************************************************)
(* Matching.  A destination is an address, or a name with the addresses it *)
(* was resolved to, if it was.                                             *)
(***************************************************************************)
InCIDRs(r, ip) == \E cidr \in r.cidrs : ip \in cidr

\* What a rule says of a name and one of its addresses (Nil if there is none),
\* or of an address alone (the name Nil).
MatchDest(r, name, ip) ==
    IF name # Nil THEN name \in r.names \/ (r.resolved /\ ip # Nil /\ InCIDRs(r, ip))
                  ELSE ip # Nil /\ InCIDRs(r, ip)

Matches(r, d, name, ip) ==
    /\ r.protos # {} => d.proto \in r.protos
    /\ r.ports # <<>> => MatchPort(r.ports, d.port)
    /\ HasDest(r) => MatchDest(r, name, ip)

FirstMatch(p, d, name, ip) == SelectInSeq(p.rules, LAMBDA r : Matches(r, d, name, ip))

Match(p, d, name, ip) ==
    LET i == FirstMatch(p, d, name, ip) IN IF i = 0 THEN p.def ELSE p.rules[i].action

\* The rules get a pass with the name and one with the address alone.
JudgeAddr(p, d, ip) ==
    LET i == FirstMatch(p, d, d.name, ip) IN IF i = 0 THEN Match(p, d, Nil, ip) ELSE p.rules[i].action

\* preferInternal, of the addresses in some places of a list: internal ones first, in
\* each class as they come.
PreferInternal(ips, places) ==
    LET order == Arranged(places, LAMBDA i, j : \/ ips[i] \notin Public /\ ips[j] \in Public
                                                \/ (ips[i] \in Public <=> ips[j] \in Public) /\ i < j)
    IN  [k \in DOMAIN order |-> ips[order[k]]]

\* Mutant of Narrowed: one allowed address vouches for the others.
NarrowedNot(p, d) == PreferInternal(d.ips, DOMAIN d.ips)

\* Decision.DialOnly, of a name with addresses of which some are allowed.
Narrowed(p, d) == PreferInternal(d.ips, {k \in DOMAIN d.ips : JudgeAddr(p, d, d.ips[k]) = "allow"})

\* Decide.  dial is <<>> for as resolved.
Decide(p, d) ==
    IF d.name = Nil \/ d.ips = <<>>
    THEN [action |-> Match(p, d, d.name, d.ip), dial |-> <<>>]
    ELSE IF \A k \in DOMAIN d.ips : JudgeAddr(p, d, d.ips[k]) = "deny"
    THEN [action |-> "deny", dial |-> <<>>]
    ELSE [action |-> "allow", dial |-> IF Narrowed(p, d) = d.ips THEN <<>> ELSE Narrowed(p, d)]

Lookup(u) == IF u \in DOMAIN snap.by THEN snap.by[u] ELSE snap.fallback

Restricted(p) == p # Nil /\ (p.def = "deny" \/ p.rules # <<>>)

-----------------------------------------------------------------------------
(***************************************************************************)
(* A connection: aclRejects, then NewConnectionEx.                         *)
(***************************************************************************)
Judge(f, u, d) ==
    /\ flow[f].at = "free"
    /\ LET p == Lookup(u)
           decision == IF Restricted(p) THEN Decide(p, d) ELSE [action |-> "allow", dial |-> <<>>]
           waved == p # Nil /\ p.dry
       IN  flow' = [flow EXCEPT ![f] =
              [at    |-> IF decision.action = "deny" /\ ~waved THEN "refused" ELSE "passed",
               user  |-> u, dest |-> d, addr |-> Nil, under |-> applied,
               dial  |-> IF decision.action = "deny" \/ waved THEN <<>> ELSE decision.dial]]
    /\ UNCHANGED <<snap, applied>>

Candidates(f) ==
    IF flow[f].dest.name = Nil THEN <<flow[f].dest.ip>>
    ELSE IF flow[f].dial # <<>> THEN flow[f].dial ELSE flow[f].dest.ips

\* sing-box goes through the addresses in order until one answers.  A name
\* without addresses it resolves itself.
Dial(f) ==
    /\ flow[f].at = "passed" /\ Candidates(f) # <<>>
    /\ \E a \in ToSet(Candidates(f)) : flow' = [flow EXCEPT ![f].at = "dialed", ![f].addr = a]
    /\ UNCHANGED <<snap, applied>>

Finish(f) ==
    /\ flow[f].at # "free"
    /\ flow' = [flow EXCEPT ![f] = NoFlow]
    /\ UNCHANGED <<snap, applied>>

AclNext ==
    \/ \E cfg \in ACLConfigs, roster \in Rosters : Update(cfg, roster)
    \/ \E f \in Flows : (\E u \in Members, d \in Dests : Judge(f, u, d)) \/ Dial(f) \/ Finish(f)

AclSpec == AclInit /\ [][AclNext]_aclvars

-----------------------------------------------------------------------------
(***************************************************************************)
(* What the configuration says, told without compiling it: of the rules    *)
(* that match, the one decides that comes first by its group's priority    *)
(* and ID, its own priority and its place.                                 *)
(***************************************************************************)
Covered(ports, port) == \E k \in DOMAIN ports : port \in ports[k].lo .. ports[k].hi

\* Lists in which a range reaches the largest port and another one lies in it.
Wraps(ports) ==
    \E r, s \in ToSet(ports) : r.hi = MaxPort /\ s.hi < MaxPort /\ RangeBefore(r, s)

WrittenRules(cfg, G) == UNION {{i} \X DOMAIN cfg.groups[i].rules : i \in G}
Rule(cfg, ik)        == cfg.groups[ik[1]].rules[ik[2]]

Key(cfg, ik) ==
    LET g == cfg.groups[ik[1]] IN <<g.priority, g.id, g.rules[ik[2]].priority, ik[2]>>

KeyBefore(x, y) == \E n \in 1..4 : x[n] < y[n] /\ \A m \in 1..(n - 1) : x[m] = y[m]

WrittenMatch(r, d, name, ip) ==
    /\ r.protos = {} \/ d.proto \in r.protos
    /\ r.ports = <<>> \/ Covered(r.ports, d.port)
    /\ HasDest(r) => MatchDest(r, name, ip)

WrittenDefault(cfg, G) ==
    LET speaking == {i \in G : cfg.groups[i].def # ""}
        first    == {i \in speaking : \A j \in speaking \ {i} :
                        KeyBefore(<<cfg.groups[i].priority, cfg.groups[i].id, 0, 0>>,
                                  <<cfg.groups[j].priority, cfg.groups[j].id, 0, 0>>)}
    IN  IF first = {} THEN cfg.def ELSE cfg.groups[CHOOSE i \in first : TRUE].def

\* "" if no rule matches.
WrittenRule(cfg, G, d, name, ip) ==
    LET matching == {ik \in WrittenRules(cfg, G) : WrittenMatch(Rule(cfg, ik), d, name, ip)}
    IN  IF WrittenDefault(cfg, G) = "deny" /\ cfg.dns /\ d.port = DNSPort THEN "allow"
        ELSE IF matching = {} THEN ""
        ELSE Rule(cfg, CHOOSE ik \in matching :
                 \A jk \in matching \ {ik} : KeyBefore(Key(cfg, ik), Key(cfg, jk))).action

Written(cfg, roster, u, d, ip) ==
    LET G      == IF u \in DOMAIN roster THEN KnownGroups(roster[u], cfg) ELSE {}
        named  == WrittenRule(cfg, G, d, d.name, ip)
        direct == WrittenRule(cfg, G, d, Nil, ip)
    IN  IF named # "" THEN named
        ELSE IF ip # Nil /\ direct # "" THEN direct
        ELSE WrittenDefault(cfg, G)

-----------------------------------------------------------------------------
(***************************************************************************)
(* Properties.                                                             *)
(***************************************************************************)
NoWraps(cfg) ==
    \A i \in DOMAIN cfg.groups : \A k \in DOMAIN cfg.groups[i].rules : ~Wraps(cfg.groups[i].rules[k].ports)

Enforced(under) == under.config # Nil /\ under.config.mode = "enforce"

Addresses(d) == IF d.name = Nil THEN {d.ip} ELSE IF d.ips = <<>> THEN {Nil} ELSE ToSet(d.ips)

\* Whatever policies are swapped meanwhile, an enforced policy is what was
\* written when the connection was judged: it is refused only if every address
\* of it is denied, no denied address is ever dialled, and internal addresses
\* go first.  Without enforcement nothing is refused or narrowed.
\* Configurations whose port ranges wrap are excepted.
VerdictsAsWritten ==
    \A f \in Flows : flow[f].at # "free" =>
        IF ~Enforced(flow[f].under)
        THEN flow[f].at # "refused" /\ flow[f].dial = <<>>
        ELSE NoWraps(flow[f].under.config) =>
            LET d == flow[f].dest
                allowed == {ip \in Addresses(d) :
                    Written(flow[f].under.config, flow[f].under.roster, flow[f].user, d, ip) = "allow"}
            IN  /\ flow[f].at = "refused" <=> allowed = {}
                /\ flow[f].at = "dialed" => flow[f].addr \in allowed
                /\ \A i, j \in DOMAIN flow[f].dial :
                       i < j => ~(flow[f].dial[i] \in Public /\ flow[f].dial[j] \notin Public)

\* A compiled port list never matches more than it lists; it matches less only
\* if the sum of the largest port and one wraps.
PortsAsListed ==
    applied.config # Nil /\ applied.config.mode # "off" =>
        \A i \in DOMAIN applied.config.groups : \A k \in DOMAIN applied.config.groups[i].rules :
            LET ports == applied.config.groups[i].rules[k].ports
            IN  \A port \in 1..MaxPort :
                    /\ MatchPort(CompilePorts(ports), port) => Covered(ports, port)
                    /\ Covered(ports, port) /\ ~Wraps(ports) => MatchPort(CompilePorts(ports), port)

\* The policy in force is the written one.
PolicyAsWritten == VerdictsAsWritten /\ PortsAsListed
=============================================================================
