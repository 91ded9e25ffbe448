------------------------------- MODULE NodeCert -------------------------------
(***************************************************************************)
(* The certificate of a node: the manager (internal/cert/cert.go), the     *)
(* callbacks of the ACME client that renew it, and the service that hands  *)
(* it to the kernel (internal/service/service.go).  Material is a number;  *)
(* 0 is none.  What certmagic and the kernel do inside is left out: an     *)
(* order or a start succeeds or fails.                                     *)
(***************************************************************************)
EXTENDS Naturals

CONSTANTS
    Acmes,      \* ACME configurations, told apart by their fingerprint
    Renewers,   \* callbacks of ACME clients at a time
    MaxCerts,   \* bound of the model on material issued
    Off         \* no ACME client; a kernel that is down; an answer without a config

ASSUME CertConstants ==
    /\ MaxCerts \in Nat \ {0} /\ Off \notin Nat
    /\ Off \notin Acmes /\ Acmes \intersect {"none", "file", "self", "content", "kept"} = {}

VARIABLES
    acme,       \* fingerprint of the ACME client that runs
    mat,        \* m.mat
    disk,       \* cert.pem and key.pem in cert_dir
    issued,     \* how much material there has been
    renewed,    \* m.renewed
    event,      \* the callbacks
    pull,       \* the pull worker
    busy,       \* the service has a config to bring to the kernel
    served,     \* what the kernel serves
    forgotten   \* history: a poll that knew of a renewal failed, or both the reload and the
                \* start that should have brought new material

certificate == <<acme, mat, disk, issued, renewed, event, pull, busy, served, forgotten>>

\* file and content have their material; kept is content without any.
Modes == {"none", "file", "self", "content", "kept"} \union Acmes
Certs == 0..MaxCerts

CertTypeOK ==
    /\ acme \in Acmes \union {Off}
    /\ mat \in Certs /\ disk \in Certs /\ issued \in Certs
    /\ renewed \in BOOLEAN /\ busy \in BOOLEAN /\ forgotten \in BOOLEAN
    /\ event \in [Renewers -> {"idle", "begun", "stored"}]
    /\ pull \in [at : {"idle", "polling", "answered"}, cert : BOOLEAN, config : Modes \union {Off}]
    /\ served \in Certs \union {Off}

NoPull == [at |-> "idle", cert |-> FALSE, config |-> Off]

\* cert_dir may hold what an earlier run left.
CertInit ==
    /\ acme = Off /\ mat = 0 /\ disk \in {0, 1} /\ issued = 1
    /\ renewed = FALSE /\ event = [r \in Renewers |-> "idle"]
    /\ pull = NoPull /\ busy = FALSE /\ served = Off /\ forgotten = FALSE

-----------------------------------------------------------------------------
\* storePEM: material that was there before, or new one.
StorePEM ==
    \E new \in 1..(issued + 1) :
        /\ new <= MaxCerts
        /\ mat' = new /\ disk' = new
        /\ issued' = IF new > issued THEN new ELSE issued

Stores == UNCHANGED <<disk, issued>>

\* Start, after what Reconfigure left.  Whatever fails leaves the material that was left.
Start(mode, left) ==
    \/ /\ mode = "none"
       /\ mat' = left /\ Stores
    \/ /\ mode \in {"self", "kept"} /\ disk # 0
       /\ mat' = disk /\ Stores
    \/ /\ mode \in {"self", "file", "content"}
       /\ mode = "self" => disk = 0
       /\ StorePEM
    \/ /\ mode \in {"file", "content", "kept"}
       /\ mode = "kept" => disk = 0
       /\ mat' = left /\ Stores

\* An order that fails leaves no client, and so does one whose upkeep cannot start.
StartACME(mode, left) ==
    \/ StorePEM /\ acme' \in {mode, Off}
    \/ mat' = left /\ acme' = Off /\ Stores

\* Another mode, or an ACME configuration that differs, tears the client down first.
Reconfigure(mode) ==
    LET left == IF acme \notin {Off, mode} THEN 0 ELSE mat IN
    IF mode \in Acmes
    THEN IF acme = mode THEN UNCHANGED <<acme, mat, disk, issued>>
         ELSE StartACME(mode, left)
    ELSE acme' = Off /\ Start(mode, left)

-----------------------------------------------------------------------------
(***************************************************************************)
(* The callback of a renewal.  A client that is torn down may have one     *)
(* under way.  The material is stored before the flag is set.              *)
(***************************************************************************)
Obtained(r) ==
    /\ event[r] = "idle" /\ acme # Off
    /\ event' = [event EXCEPT ![r] = "begun"]
    /\ UNCHANGED <<acme, mat, disk, issued, renewed, pull, busy, served, forgotten>>

LoadRenewed(r) ==
    /\ event[r] = "begun"
    /\ \/ StorePEM /\ event' = [event EXCEPT ![r] = "stored"]
       \/ event' = [event EXCEPT ![r] = "idle"] /\ UNCHANGED <<mat, disk, issued>>
    /\ UNCHANGED <<acme, renewed, pull, busy, served, forgotten>>

Flag(r) ==
    /\ event[r] = "stored"
    /\ renewed' = TRUE
    /\ event' = [event EXCEPT ![r] = "idle"]
    /\ UNCHANGED <<acme, mat, disk, issued, pull, busy, served, forgotten>>

-----------------------------------------------------------------------------
(***************************************************************************)
(* The service.                                                            *)
(***************************************************************************)
\* Mutant of PullViaAPI: the flag is taken before the worker is known to be free.
PullTakesFirst ==
    /\ ~busy
    /\ renewed' = FALSE
    /\ pull' = IF pull.at = "idle" THEN [NoPull EXCEPT !.at = "polling", !.cert = renewed] ELSE pull
    /\ UNCHANGED <<acme, mat, disk, issued, event, busy, served, forgotten>>

\* The flag is taken when the worker starts.
PullViaAPI ==
    /\ ~busy /\ pull.at = "idle"
    /\ pull' = [NoPull EXCEPT !.at = "polling", !.cert = renewed]
    /\ renewed' = FALSE
    /\ UNCHANGED <<acme, mat, disk, issued, event, busy, served, forgotten>>

PollFails ==
    /\ pull.at = "polling"
    /\ pull' = NoPull
    /\ forgotten' = (forgotten \/ pull.cert)
    /\ UNCHANGED <<acme, mat, disk, issued, renewed, event, busy, served>>

PollAnswers ==
    /\ pull.at = "polling"
    /\ \E config \in Modes \union {Off} :
          pull' = [pull EXCEPT !.at = "answered", !.config = config]
    /\ UNCHANGED <<acme, mat, disk, issued, renewed, event, busy, served, forgotten>>

\* applyPullResult up to applyChanges.  A configuration that is not valid is dropped,
\* the renewal is not.
ApplyPullResult ==
    /\ ~busy /\ pull.at = "answered"
    /\ pull' = NoPull
    /\ \/ /\ pull.config # Off
          /\ Reconfigure(pull.config)
          /\ busy' = TRUE
       \/ /\ busy' = pull.cert
          /\ UNCHANGED <<acme, mat, disk, issued>>
    /\ UNCHANGED <<renewed, event, served, forgotten>>

\* sync.config up to applyChanges.
ApplyWSConfig(mode) ==
    /\ ~busy
    /\ Reconfigure(mode)
    /\ busy' = TRUE
    /\ UNCHANGED <<renewed, event, pull, served, forgotten>>

\* applyChanges: Reload, else Start, with the material there is by now; without users, or
\* when its inbound is gone, the kernel serves nothing.  When the start fails too, the
\* instance there was goes on with what it has, and nobody is told.
ApplyChanges ==
    /\ busy /\ busy' = FALSE
    /\ \/ served' = mat /\ forgotten' = FALSE
       \/ served' = Off /\ UNCHANGED forgotten
       \/ served # Off /\ UNCHANGED served /\ forgotten' = (served # mat)
    /\ UNCHANGED <<acme, mat, disk, issued, renewed, event, pull>>

\* startKernel in the handlers of users, for a kernel that is down or has refused a list;
\* one that fails changes nothing.
KernelStarts ==
    /\ ~busy
    /\ served' = mat /\ forgotten' = FALSE
    /\ UNCHANGED <<acme, mat, disk, issued, renewed, event, pull, busy>>

\* The end of the last user, or of the inbound.
KernelStops ==
    /\ ~busy /\ served # Off
    /\ served' = Off
    /\ UNCHANGED <<acme, mat, disk, issued, renewed, event, pull, busy, forgotten>>

CertNext ==
    \/ \E r \in Renewers : Obtained(r) \/ LoadRenewed(r) \/ Flag(r)
    \/ PullViaAPI \/ PollFails \/ PollAnswers \/ ApplyPullResult
    \/ \E mode \in Modes : ApplyWSConfig(mode)
    \/ ApplyChanges \/ KernelStarts \/ KernelStops

CertSpec == CertInit /\ [][CertNext]_certificate

-----------------------------------------------------------------------------
\* The kernel serves the manager's material, or something that will bring it the new one
\* is still under way, or the poll that knew of the renewal failed, or the kernel refused
\* the new one in a reload and a start and still has the old: no order of renewals,
\* configurations and pulls loses the change in another way.
RenewalNoticed ==
    \/ served \in {mat, Off} \/ busy \/ renewed \/ pull.cert \/ forgotten
    \/ \E r \in Renewers : event[r] = "stored"
=============================================================================
