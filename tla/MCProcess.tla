------------------------------ MODULE MCProcess -------------------------------
(***************************************************************************)
(* The model-checked instance of the control parts around the services:    *)
(* the limiters with their penalties ("speed"), a node of the machine      *)
(* orchestrator ("machine"), the main loop with its config watcher         *)
(* ("loop") and what it makes of a file ("layout"), a node's certificate   *)
(* ("cert"), the users of the embedded xray ("xray") and the inbound of    *)
(* the sing-box kernel ("box").  They have no variable in common, so each  *)
(* behaviour is one of one of them.  The others stand still, in a state in *)
(* which nothing is bound to happen: without a policy, after the end.      *)
(***************************************************************************)
EXTENDS SpeedLimits, Orchestrator, ReloadLoop, NodeCert, XrayKernel, BoxLifecycle, ConfigLayout

VARIABLE part

vars == <<part, speed, machine, process, certificate, xkernel, boxes, layout>>

MCPortOf  == [c \in {"a1", "b1", "c2", "bad", "odd"} |-> IF c = "c2" THEN 2 ELSE 1]

-----------------------------------------------------------------------------
(***************************************************************************)
(* The files: one or two instances of these, and one from before there     *)
(* were instances.  Two URLs are spellings of one panel's.                 *)
(***************************************************************************)
Bare  == [id |-> Missing, url |-> "p", machine |-> 0, node |-> 0, nodes |-> <<>>, standalone |-> FALSE,
          health |-> 0, dir |-> Missing, certs |-> Missing, mode |-> "", auto |-> FALSE, files |-> FALSE, content |-> FALSE]
Item(n, kernel, cert) == [node |-> n, kernel |-> kernel, cert |-> cert]

Single   == [Bare EXCEPT !.node = 1, !.files = TRUE]
Respelt  == [Bare EXCEPT !.url = "p/", !.node = 1]
List     == [Bare EXCEPT !.url = "p/", !.content = TRUE,
                       !.nodes = <<Item(1, Missing, Missing), Item(2, <<>>, <<>>), Item(3, Missing, <<<<"dir", "pki">>>>)>>]
Machine  == [Bare EXCEPT !.machine = 1, !.mode = "dns"]
GivenId  == [Bare EXCEPT !.id = "x", !.node = 1, !.health = 1, !.certs = <<<<"dir", "pki">>>>]
GivenDir == [Bare EXCEPT !.url = "q", !.node = 2, !.dir = <<<<"dir", "data">>>>, !.health = 1]
Local    == [Bare EXCEPT !.url = "", !.standalone = TRUE, !.certs = <<<<"dir", "pki">>>>]
Anyone   == {Single, Respelt, List, Machine, GivenId, GivenDir, Local}
Domain   == [Bare EXCEPT !.url = "", !.auto = TRUE]
Content  == [Bare EXCEPT !.url = "", !.content = TRUE]

File(top, is) == [top |-> top, instances |-> is]
OneNode       == File(Single, <<>>)

MCFiles   == {OneNode} \union {File(t, <<e>>) : t \in {Domain, Content}, e \in Anyone}
                      \union {File(Domain, <<d, e>>) : d \in {Single, List, GivenId, Local}, e \in Anyone}
                      \union {File(Content, <<List, e>>) : e \in Anyone}
MCPanelOf == [u \in {"", "p", "p/", "q"} |-> IF u = "p/" THEN "p" ELSE u]
MCEnvironments == {[node |-> Missing, auto |-> FALSE], [node |-> 2, auto |-> TRUE]}

-----------------------------------------------------------------------------
Init ==
    /\ part \in {"speed", "machine", "loop", "cert", "xray", "box", "layout"}
    /\ IF part = "layout" THEN LayoutInit
       ELSE environment = Missing /\ started = Missing /\ preceding = Missing
    /\ SpeedInit /\ CertInit /\ XrayInit /\ BoxInit
    /\ MachineAt(part # "machine")
    /\ LoopAt(IF part = "loop" THEN "gap" ELSE "exited")
    /\ part # "speed" => ~policy
    /\ part # "cert" => disk = 0
    /\ part # "box" => wished = [config |-> "a1", users |-> CHOOSE us \in NodeLists : TRUE]

SpeedPart   == part = "speed" /\ SpeedNext /\ UNCHANGED <<part, machine, process, certificate, xkernel, boxes, layout>>
MachinePart == part = "machine" /\ MachineNext /\ UNCHANGED <<part, speed, process, certificate, xkernel, boxes, layout>>
LoopPart    == part = "loop" /\ LoopNext /\ UNCHANGED <<part, speed, machine, certificate, xkernel, boxes, layout>>
CertPart    == part = "cert" /\ CertNext /\ UNCHANGED <<part, speed, machine, process, xkernel, boxes, layout>>
XrayPart    == part = "xray" /\ XrayNext /\ UNCHANGED <<part, speed, machine, process, certificate, boxes, layout>>
BoxPart     == part = "box" /\ BoxNext /\ UNCHANGED <<part, speed, machine, process, certificate, xkernel, layout>>
LayoutPart  == part = "layout" /\ LayoutNext /\ UNCHANGED <<part, speed, machine, process, certificate, xkernel, boxes>>

Next == SpeedPart \/ MachinePart \/ LoopPart \/ CertPart \/ XrayPart \/ BoxPart \/ LayoutPart

Spec ==
    /\ Init /\ [][Next]_vars
    /\ SpeedFairness /\ MachineFairness /\ LoopFairness
=============================================================================
