--------------------------- MODULE MCConnections ----------------------------
(***************************************************************************)
(* The model-checked instance of the data planes: the sing-box tracker     *)
(* ("tracker"), the tracker with the limiters ("plane"), the xray          *)
(* dispatcher ("xray") and the access control ("acl"); and of the engine   *)
(* of the local stats, for its refusals ("refused"), dials ("dials") and   *)
(* generations ("gens").  They have no variable in common but for the      *)
(* plane's, so each behaviour is one of one of them and the others stand   *)
(* still.                                                                  *)
(***************************************************************************)
EXTENDS DataPlane, XrayDispatcher, AclPolicy, LocalStats

CONSTANT One

ASSUME OneConstant == One \in Conns

VARIABLE part

vars == <<part, plane, xdispatcher, aclvars, stats>>

\* Bound: in the plane there is one connection.
OnlyOne == \A c \in Conns \ {One} : conn'[c] = Free

\* Bounds of the stats: refusals or dials, of one user who is not crowded in the latter.
MCIdOf       == [n \in {1} |-> 7]
MCMaxCount   == [refused |-> 2, tried |-> 1, failed |-> 1]
OnlyRefusals == \A n \in StatNodes : counters'[n] # Unseen => counters'[n].tried = 0
OnlyDials    ==
    /\ \A n \in StatNodes : counters'[n] # Unseen => counters'[n].refused = 0
    /\ crowded' = 0 /\ ~recounted'

Init ==
    /\ part \in {"tracker", "plane", "xray", "acl", "refused", "dials", "gens"}
    /\ PlaneInit /\ XInit /\ AclInit /\ StatsInit
    /\ part # "plane" => ~policy

TrackerPart == part = "tracker" /\ TrackerNext /\ UNCHANGED <<part, speed, xdispatcher, aclvars, stats>>
PlanePart   == part = "plane" /\ PlaneNext /\ OnlyOne /\ UNCHANGED <<part, xdispatcher, aclvars, stats>>
XrayPart    == part = "xray" /\ XNext /\ UNCHANGED <<part, plane, aclvars, stats>>
AclPart     == part = "acl" /\ AclNext /\ UNCHANGED <<part, plane, xdispatcher, stats>>
StatsPart   ==
    /\ \/ part = "refused" /\ SampleNext /\ OnlyRefusals /\ UNCHANGED generations
       \/ part = "dials" /\ SampleNext /\ OnlyDials /\ UNCHANGED generations
       \/ part = "gens" /\ GenNext /\ UNCHANGED samples
    /\ UNCHANGED <<part, plane, xdispatcher, aclvars>>

Next == TrackerPart \/ PlanePart \/ XrayPart \/ AclPart \/ StatsPart

Spec == Init /\ [][Next]_vars

-----------------------------------------------------------------------------
(***************************************************************************)
(* The access control's instance: 10 is an internal address, 20 a public   *)
(* one, 127 the node itself.                                               *)
(***************************************************************************)
R(lo, hi) == [lo |-> lo, hi |-> hi]

AnyRule == [action |-> "deny", priority |-> 0, cidrs |-> {}, names |-> {}, resolved |-> FALSE,
            ports |-> <<>>, protos |-> {}]

Inside  == [AnyRule EXCEPT !.action = "allow", !.cidrs = {{10}}, !.ports = <<R(5, 6), R(1, 2), R(3, 3)>>]
Outside == [AnyRule EXCEPT !.cidrs = {{20}, {127}}, !.resolved = TRUE, !.priority = 1]
ByName  == [AnyRule EXCEPT !.action = "allow", !.names = {"n1"}, !.protos = {"tcp"}, !.priority = 2]
Broad   == [AnyRule EXCEPT !.action = "allow", !.cidrs = {{10, 20, 127}}, !.ports = <<R(6, 7), R(1, 1), R(4, 5)>>]
Top     == [AnyRule EXCEPT !.ports = <<R(1, 7), R(3, 3)>>]
Itself  == [AnyRule EXCEPT !.action = "allow", !.cidrs = {{127}}]

G(id, priority, def, rules) == [id |-> id, priority |-> priority, def |-> def, rules |-> rules]
C(mode, def, dns, groups)   == [mode |-> mode, def |-> def, dns |-> dns, groups |-> groups]

Closed == <<G(1, 1, "", <<ByName, Inside>>), G(2, 0, "", <<Outside>>)>>

MCConfigs == {
    C("off", "deny", TRUE, Closed), C("enforce", "deny", TRUE, Closed), C("dryrun", "deny", TRUE, Closed),
    C("enforce", "deny", FALSE, <<G(2, 1, "allow", <<Outside, Inside>>), G(1, 1, "", <<Broad>>)>>),
    C("enforce", "allow", TRUE, <<G(1, 0, "", <<Top>>), G(2, 0, "deny", <<ByName>>)>>),
    C("enforce", "allow", TRUE, <<G(1, 0, "", <<Itself>>), G(2, 0, "deny", <<ByName>>)>>)}

MCRosters == {[u \in {"m1", "m2"} |-> IF u = "m1" THEN <<2, 1, 2>> ELSE <<>>],
              [u \in {"m1", "m2"} |-> IF u = "m1" THEN <<1, 3>> ELSE <<2>>]}

ToAddr(ip, port)   == [name |-> Nil, ip |-> ip, ips |-> <<>>, port |-> port, proto |-> "tcp"]
ToName(n, is, port, proto) == [name |-> n, ip |-> Nil, ips |-> is, port |-> port, proto |-> proto]

MCDests == {
    ToAddr(10, 3), ToAddr(20, 5), ToAddr(127, 4), ToAddr(10, 4),
    ToName("n1", <<20, 10>>, 2, "tcp"), ToName("n1", <<>>, 7, "tcp"),
    ToName("n2", <<20, 127, 10>>, 6, "udp"), ToName("n2", <<10, 20>>, 5, "udp")}
=============================================================================
