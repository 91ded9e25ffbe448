----------------------------- MODULE ConfigLayout -----------------------------
(***************************************************************************)
(* How a configuration file becomes the nodes a process runs               *)
(* (internal/config/config.go): instances take defaults from the top of    *)
(* the file and settings from the environment, get an ID and directories,  *)
(* are validated one by one, and then together before they are started     *)
(* (cmd/xboard-node/main.go).  ReloadLoop has the loop around this.        *)
(*                                                                         *)
(* Of an instance's settings there are those that say which nodes it runs, *)
(* where their data is, and how they get a certificate.  A directory is    *)
(* the sequence of its parts; the hash in an ID is taken for injective.  A *)
(* certificate is given with its key, as files or as content.              *)
(***************************************************************************)
EXTENDS Naturals, Sequences, FiniteSets

CONSTANTS
    Files,         \* the files: [top, instances]
    Environments,  \* what the environment says: [node, auto]
    PanelOf,       \* the panel of each spelling of a URL, "" without one
    DiscoveredIds, \* the nodes that a machine may be given
    Missing        \* a setting that is not there

Fields == {"id", "url", "machine", "node", "nodes", "standalone", "health", "dir", "certs", "mode", "auto", "files", "content"}

\* The instances that a file gives: all of it is one if it lists none.
Given(f) == IF f.instances = <<>> THEN {f.top} ELSE {f.instances[k] : k \in DOMAIN f.instances}

ASSUME LayoutConstants ==
    /\ PanelOf[""] = "" /\ DiscoveredIds \subseteq Nat \ {0}
    /\ \A f \in Files :
          /\ f.instances \in Seq(Given(f))
          /\ \A e \in Given(f) \union {f.top} :
                /\ DOMAIN e = Fields
                /\ {e.machine, e.node, e.health} \subseteq Nat
                /\ {e.standalone, e.auto, e.files, e.content} \subseteq BOOLEAN
    /\ \A v \in Environments : v.auto \in BOOLEAN

VARIABLES
    environment,
    started,     \* the file whose nodes run, Missing after the end of the process
    preceding    \* history: the file started before it

layout == <<environment, started, preceding>>

Base  == <<<<"dir", "base">>>>
CertsPart == <<"dir", "certs">>

-----------------------------------------------------------------------------
(***************************************************************************)
(* LoadRoot.                                                               *)
(***************************************************************************)
\* inheritFrom, for the certificate: each setting by itself, so that the content of the top
\* comes next to the files of an instance.  Nothing that says who an instance is or where
\* its data is comes from the top.
Inherited(e, top) ==
    LET mode    == IF e.mode = "" THEN top.mode ELSE e.mode
        files   == e.files \/ top.files
        content == e.content \/ top.content
    IN  [e EXCEPT !.mode = mode, !.files = files, !.content = content,
                  !.auto = @ \/ (top.auto /\ mode = "" /\ ~files /\ ~content)]

\* applyEnvOverrides: for every instance alike.
Overridden(e) ==
    [e EXCEPT !.node = IF environment.node = Missing THEN @ ELSE environment.node,
              !.auto = @ \/ environment.auto]

ListedIn(e) == {e.nodes[k].node : k \in DOMAIN e.nodes}

\* How often each node is listed: the IDs are sorted before they are hashed.
Tally(e) ==
    IF e.nodes = <<>> THEN [n \in {e.node} |-> 1]
    ELSE [n \in ListedIn(e) |-> Cardinality({k \in DOMAIN e.nodes : e.nodes[k].node = n})]

\* Mutant of AutoInstanceID: the URL counts as it is spelt.
AutoInstanceIDSpelt(e) ==
    IF e.standalone THEN <<"standalone">>
    ELSE IF e.machine > 0 THEN <<"machine", e.url, e.machine>>
    ELSE <<"node", e.url, Tally(e)>>

AutoInstanceID(e) ==
    IF e.standalone THEN <<"standalone">>
    ELSE IF e.machine > 0 THEN <<"machine", PanelOf[e.url], e.machine>>
    ELSE <<"node", PanelOf[e.url], Tally(e)>>

Named(e) == [e EXCEPT !.id = IF @ = Missing THEN AutoInstanceID(e) ELSE <<"given", @>>]

\* setDefaultsFrom: the only instance of a file has no directory of its own.
Placed(e, alone) ==
    LET dir == IF e.dir # Missing THEN e.dir
               ELSE IF alone THEN Base ELSE Append(Base, <<"id", e.id>>)
    IN  [e EXCEPT !.dir = dir, !.certs = IF @ = Missing THEN Append(dir, CertsPart) ELSE @]

\* A file without instances is one instance, whose ID is not the one it may give.
InstancesOf(f) ==
    IF f.instances = <<>>
    THEN LET e == Overridden(f.top)
         IN  <<[Placed(e, TRUE) EXCEPT !.id = AutoInstanceID(e)]>>
    ELSE [k \in DOMAIN f.instances |->
             Placed(Named(Overridden(Inherited(f.instances[k], f.top))), Len(f.instances) = 1)]

\* validate
Valid(e) ==
    /\ e.standalone => e.nodes = <<>>
    /\ ~e.standalone => e.url # ""
    /\ ~e.standalone /\ e.machine > 0 => e.nodes = <<>>
    /\ ~e.standalone /\ e.machine = 0 /\ e.nodes = <<>> => e.node > 0
    /\ ~e.standalone /\ e.machine = 0 => 0 \notin ListedIn(e)

\* validateRoot
Loads(f) ==
    /\ \A k \in DOMAIN InstancesOf(f) : Valid(InstancesOf(f)[k])
    /\ \A j, k \in DOMAIN InstancesOf(f) : j # k => InstancesOf(f)[j].id # InstancesOf(f)[k].id

-----------------------------------------------------------------------------
(***************************************************************************)
(* The nodes of an instance.                                               *)
(***************************************************************************)
Node(e, n, dir, certs) == [owner |-> e.id, url |-> e.url, node |-> n, dir |-> dir, certs |-> certs]

\* One node of a list.  It may have kernel settings and certificate settings of its own,
\* which replace the instance's, and either may leave the directory out, which <<>> says.
ExpandEntry(e, n) ==
    LET dir == IF n.kernel = Missing THEN Append(e.dir, <<"node", n.node>>)
               ELSE IF n.kernel = <<>> THEN e.dir
               ELSE n.kernel
        certs == IF n.cert = Missing THEN e.certs
                 ELSE IF n.cert = <<>> THEN Append(dir, CertsPart)
                 ELSE n.cert
    IN  Node(e, n.node, dir, certs)

ExpandNodes(e) ==
    IF e.nodes = <<>> THEN {Node(e, e.node, e.dir, e.certs)}
    ELSE {ExpandEntry(e, e.nodes[k]) : k \in DOMAIN e.nodes}

ExpandMachineNode(e, n) ==
    LET dir == Append(e.dir, <<"node", n>>) IN Node(e, n, dir, Append(dir, CertsPart))

NodesOf(e) ==
    IF e.machine > 0 THEN {ExpandMachineNode(e, n) : n \in DiscoveredIds} ELSE ExpandNodes(e)

\* ValidateStartupLayout: health ports and directories of instances, and nodes with the
\* panel's URL as it is spelt.
StartsAll(f) ==
    LET is == InstancesOf(f)
        inNodeMode == {k \in DOMAIN is : is[k].machine = 0}
    IN
    /\ \A j, k \in DOMAIN is : j # k =>
          /\ is[j].health = is[k].health => is[j].health = 0
          /\ is[j].dir # is[k].dir
    /\ \A k \in inNodeMode : \A m, n \in DOMAIN is[k].nodes :
          m # n => is[k].nodes[m].node # is[k].nodes[n].node
    /\ \A j, k \in inNodeMode : j # k =>
          \A a \in ExpandNodes(is[j]), b \in ExpandNodes(is[k]) : <<a.url, a.node>> # <<b.url, b.node>>

-----------------------------------------------------------------------------
LayoutInit ==
    /\ environment \in Environments
    /\ \E f \in Files : Loads(f) /\ StartsAll(f) /\ started = f
    /\ preceding = Missing

\* The watcher keeps what cannot be loaded away; what loads and cannot be started ends
\* the process.
ReloadFile(f) ==
    /\ started # Missing /\ f # started /\ Loads(f)
    /\ IF StartsAll(f) THEN started' = f /\ preceding' = started
       ELSE started' = Missing /\ preceding' = Missing
    /\ UNCHANGED environment

LayoutNext == \E f \in Files : ReloadFile(f)

LayoutSpec == LayoutInit /\ [][LayoutNext]_layout

-----------------------------------------------------------------------------
(***************************************************************************)
(* Properties.                                                             *)
(***************************************************************************)
Running == InstancesOf(started)

\* resolveMode
Strategy(e) ==
    IF e.mode # "" THEN e.mode
    ELSE IF e.auto THEN "http"
    ELSE IF e.content THEN "content"
    ELSE IF e.files THEN "file"
    ELSE "none"

\* An instance that says which nodes of the panel it runs.
NodeMode(e) == ~e.standalone /\ e.machine = 0

\* Neither a list of nodes nor an ID from the file.
Plain(e) == e.nodes = <<>> /\ e.id[1] # "given"

\* Two instances that say which nodes they run have one of a panel in common only if they
\* spell the panel's URL in two ways, and one of them has a list or an ID of its own: the
\* IDs, which do not tell spellings apart, keep the others from it.
RunOnce ==
    \A j, k \in DOMAIN Running : j # k /\ NodeMode(Running[j]) /\ NodeMode(Running[k]) =>
        \A a \in NodesOf(Running[j]), b \in NodesOf(Running[k]) :
            PanelOf[a.url] = PanelOf[b.url] /\ a.node = b.node =>
                a.url # b.url /\ ~(Plain(Running[j]) /\ Plain(Running[k]))

\* What the file says of where an instance, the nodes it lists and its certificates are.
InFile(e, f)    == \E g \in Given(f) : g.dir = e.dir
NodeInFile(e)   == \E n \in DOMAIN e.nodes : e.nodes[n].kernel \notin {Missing, <<>>}
CertsInFile(e)  == \/ \E g \in Given(started) : g.certs = e.certs
                   \/ \E n \in DOMAIN e.nodes : e.nodes[n].cert \notin {Missing, <<>>}
PlacedByFile(e) == InFile(e, started) \/ NodeInFile(e)

\* Nodes share no directory unless the file gives one of them, or a kernel setting of a
\* node in a list leaves it out; and no directory of certificates, but for the nodes of one
\* list, unless the file gives that of an instance or of a node.
DataApart ==
    \A j, k \in DOMAIN Running : \A a \in NodesOf(Running[j]), b \in NodesOf(Running[k]) :
        a # b /\ ~PlacedByFile(Running[j]) /\ ~PlacedByFile(Running[k]) =>
            /\ a.dir = b.dir => j = k /\ \E n \in DOMAIN Running[k].nodes : Running[k].nodes[n].kernel # Missing
            /\ a.certs = b.certs => \/ j = k /\ Running[k].nodes # <<>>
                                   \/ CertsInFile(Running[j]) \/ CertsInFile(Running[k])

\* A change of the file moves no instance's data, whatever becomes of its place in the
\* file: unless there was one instance only, or is.
DataStays ==
    preceding # Missing /\ started # Missing =>
        LET before == InstancesOf(preceding) IN
        (Len(before) > 1 <=> Len(Running) > 1) =>
            \A j \in DOMAIN before, k \in DOMAIN Running :
                before[j].id = Running[k].id =>
                    before[j].dir = Running[k].dir \/ InFile(Running[k], started) \/ InFile(before[j], preceding)

\* An instance that says how it gets its certificate gets it so, as long as the top of the
\* file does not name a mode nor the environment a domain; files must not meet content at
\* the top, which goes before them.
CertAsChosen ==
    \A k \in DOMAIN started.instances :
        LET e == started.instances[k] IN
        (e.mode # "" \/ e.content \/ (e.files /\ ~started.top.content)) /\ started.top.mode = "" /\ ~environment.auto =>
            Strategy(Running[k]) = Strategy(e)

LayoutSound == started # Missing => RunOnce /\ DataApart /\ DataStays /\ CertAsChosen
=============================================================================
