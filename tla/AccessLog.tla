------------------------------ MODULE AccessLog -------------------------------
(***************************************************************************)
(* Access records: connections leave one when they are closed              *)
(* (internal/kernel/singbox/conntracker.go), a report tick ships what is   *)
(* buffered, and the panel's answer says whether to log at all             *)
(* (internal/service/service.go, pushAccessLogAsync).  Every push has a    *)
(* goroutine of its own and nothing keeps two from overlapping; a start of *)
(* the kernel puts another tracker in the place of the last one.           *)
(*                                                                         *)
(* The kicks an answer may hold are in DataPlane; a self-update, which     *)
(* ends the process, is left out.                                          *)
(***************************************************************************)
EXTENDS Naturals, FiniteSets

CONSTANTS
    Uploads,    \* pushes under way at a time
    BufMax,     \* accessBufMax
    MaxRecords, \* bounds of the model: records that connections leave,
    MaxStarts,  \* starts of the kernel,
    MaxFaults,  \* pushes that fail or are answered with something unreadable,
    MaxTurns    \* and changes of the panel's mind

ASSUME AccessConstants ==
    /\ BufMax \in Nat /\ MaxRecords \in Nat /\ MaxStarts \in Nat /\ MaxFaults \in Nat /\ MaxTurns \in Nat
    /\ IsFiniteSet(Uploads)

VARIABLES
    desired,     \* whether the panel wants this node to log
    remembered,  \* SingBox.accessLogEnabled
    live,        \* SingBox.connTracker, 0 before the first start
    logging,     \* accessEnabled of each tracker
    arming,      \* how far Start is with its tracker
    buffer,      \* accessBuf of each tracker
    upload,      \* the pushes
    taken,       \* how often the panel was given a record
    produced,    \* history: how many records connections left
    dropped,     \* history: those a full buffer refused
    failed,      \* history: those of pushes that did not reach the panel
    faults, turns

access == <<desired, remembered, live, logging, arming, buffer, upload, taken,
            produced, dropped, failed, faults, turns>>

Trackers == 1..MaxStarts
Records  == 1..MaxRecords

NoUpload == [at |-> "idle", batch |-> {}, says |-> FALSE, target |-> 0]
NotArming == [at |-> "idle", says |-> FALSE]

AccessTypeOK ==
    /\ desired \in BOOLEAN /\ remembered \in BOOLEAN
    /\ live \in 0..MaxStarts /\ logging \in [Trackers -> BOOLEAN]
    /\ arming \in [at : {"idle", "made", "read", "ended"}, says : BOOLEAN]
    /\ buffer \in [Trackers -> SUBSET Records]
    /\ upload \in [Uploads -> [at : {"idle", "sent", "answered", "remembered", "aimed"},
                               batch : SUBSET Records, says : BOOLEAN, target : 0..MaxStarts]]
    /\ taken \in [Records -> Nat]
    /\ produced \in 0..MaxRecords /\ dropped \subseteq Records /\ failed \subseteq Records
    /\ faults \in 0..MaxFaults /\ turns \in 0..MaxTurns

\* The configuration file says whether a node logs at first.  A node that has "ended"
\* starts no kernel and pushes nothing.
AccessAt(at) ==
    /\ desired \in BOOLEAN /\ remembered \in BOOLEAN
    /\ live = 0 /\ logging = [t \in Trackers |-> FALSE] /\ arming = [NotArming EXCEPT !.at = at]
    /\ buffer = [t \in Trackers |-> {}]
    /\ upload = [p \in Uploads |-> NoUpload]
    /\ taken = [r \in Records |-> 0]
    /\ produced = 0 /\ dropped = {} /\ failed = {} /\ faults = 0 /\ turns = 0

AccessInit == AccessAt("idle")

Turn ==
    /\ turns < MaxTurns /\ turns' = turns + 1
    /\ desired' = ~desired
    /\ UNCHANGED <<remembered, live, logging, arming, buffer, upload, taken, produced, dropped, failed, faults>>

-----------------------------------------------------------------------------
(***************************************************************************)
(* SingBox.Start: a fresh tracker does not log until it is told to.        *)
(***************************************************************************)
NewTracker ==
    /\ arming.at = "idle" /\ live < MaxStarts
    /\ live' = live + 1
    /\ arming' = [NotArming EXCEPT !.at = "made"]
    /\ UNCHANGED <<desired, remembered, logging, buffer, upload, taken, produced, dropped, failed, faults, turns>>

ReadSetting ==
    /\ arming.at = "made"
    /\ arming' = [at |-> "read", says |-> remembered]
    /\ UNCHANGED <<desired, remembered, live, logging, buffer, upload, taken, produced, dropped, failed, faults, turns>>

Arm ==
    /\ arming.at = "read"
    /\ logging' = [logging EXCEPT ![live] = arming.says]
    /\ arming' = NotArming
    /\ UNCHANGED <<desired, remembered, live, buffer, upload, taken, produced, dropped, failed, faults, turns>>

-----------------------------------------------------------------------------
(***************************************************************************)
(* A connection of any tracker closes, or is denied by its policy, which   *)
(* is recorded whether the tracker logs or not.                            *)
(***************************************************************************)
Record(t, r) ==
    IF Cardinality(buffer[t]) < BufMax
    THEN buffer' = [buffer EXCEPT ![t] = @ \union {r}] /\ UNCHANGED dropped
    ELSE dropped' = dropped \union {r} /\ UNCHANGED buffer

Emit(t, denied) ==
    /\ t <= live /\ produced < MaxRecords
    /\ logging[t] \/ denied
    /\ produced' = produced + 1
    /\ Record(t, produced + 1)
    /\ UNCHANGED <<desired, remembered, live, logging, arming, upload, taken, failed, faults, turns>>

-----------------------------------------------------------------------------
(***************************************************************************)
(* pushAccessLogAsync.                                                     *)
(***************************************************************************)
Buffered == IF live = 0 THEN {} ELSE buffer[live]

\* Mutant of Ship: nothing is sent when there is nothing to report.
ShipIfAny(p) ==
    /\ arming.at = "idle" /\ upload[p].at = "idle" /\ Buffered # {}
    /\ buffer' = [buffer EXCEPT ![live] = {}]
    /\ upload' = [upload EXCEPT ![p] = [NoUpload EXCEPT !.at = "sent", !.batch = Buffered]]
    /\ UNCHANGED <<desired, remembered, live, logging, arming, taken, produced, dropped, failed, faults, turns>>

\* The records may be none: then the push asks for the setting only.
Ship(p) ==
    /\ arming.at = "idle" /\ upload[p].at = "idle"
    /\ buffer' = IF live = 0 THEN buffer ELSE [buffer EXCEPT ![live] = {}]
    /\ upload' = [upload EXCEPT ![p] = [NoUpload EXCEPT !.at = "sent", !.batch = Buffered]]
    /\ UNCHANGED <<desired, remembered, live, logging, arming, taken, produced, dropped, failed, faults, turns>>

\* The panel has the records, and answers with what it wants then.
Answer(p) ==
    /\ upload[p].at = "sent"
    /\ taken' = [r \in Records |-> IF r \in upload[p].batch THEN taken[r] + 1 ELSE taken[r]]
    /\ upload' = [upload EXCEPT ![p] = [NoUpload EXCEPT !.at = "answered", !.says = desired]]
    /\ UNCHANGED <<desired, remembered, live, logging, arming, buffer, produced, dropped, failed, faults, turns>>

\* Mutant of ShipFails: the records of a failed push are kept for the next one.
ShipRestores(p) ==
    /\ faults < MaxFaults /\ faults' = faults + 1
    /\ upload[p].at \in {"sent", "answered"}
    /\ upload' = [upload EXCEPT ![p] = NoUpload]
    /\ buffer' = IF live = 0 THEN buffer
                 ELSE [buffer EXCEPT ![live] = @ \union {r \in Records : taken[r] > 0}]
    /\ UNCHANGED <<desired, remembered, live, logging, arming, taken, produced, dropped, failed, turns>>

\* The request fails, before the panel has the records or after; they are gone either
\* way.  An answer that cannot be read, or does not say, changes nothing.
ShipFails(p) ==
    /\ faults < MaxFaults /\ faults' = faults + 1
    /\ upload[p].at \in {"sent", "answered"}
    /\ failed' = IF upload[p].at = "sent" THEN failed \union upload[p].batch ELSE failed
    /\ upload' = [upload EXCEPT ![p] = NoUpload]
    /\ UNCHANGED <<desired, remembered, live, logging, arming, buffer, taken, produced, dropped, turns>>

\* SetAccessLogEnabled takes no lock: the setting, then the tracker there is by then.
Remember(p) ==
    /\ upload[p].at = "answered"
    /\ remembered' = upload[p].says
    /\ upload' = [upload EXCEPT ![p].at = "remembered"]
    /\ UNCHANGED <<desired, live, logging, arming, buffer, taken, produced, dropped, failed, faults, turns>>

Aim(p) ==
    /\ upload[p].at = "remembered"
    /\ upload' = [upload EXCEPT ![p] = IF live = 0 THEN NoUpload
                                       ELSE [@ EXCEPT !.at = "aimed", !.target = live]]
    /\ UNCHANGED <<desired, remembered, live, logging, arming, buffer, taken, produced, dropped, failed, faults, turns>>

Apply(p) ==
    /\ upload[p].at = "aimed"
    /\ logging' = [logging EXCEPT ![upload[p].target] = upload[p].says]
    /\ upload' = [upload EXCEPT ![p] = NoUpload]
    /\ UNCHANGED <<desired, remembered, live, arming, buffer, taken, produced, dropped, failed, faults, turns>>

Goes(p) == Answer(p) \/ Remember(p) \/ Aim(p) \/ Apply(p)

AccessNext ==
    \/ Turn \/ NewTracker \/ ReadSetting \/ Arm
    \/ \E t \in Trackers, denied \in BOOLEAN : Emit(t, denied)
    \/ \E p \in Uploads : Ship(p) \/ ShipFails(p) \/ Goes(p)

\* Start and the goroutines go on, and the select loop takes the report tick again and
\* again: it picks at random among what is ready.
AccessFairness ==
    /\ WF_access(ReadSetting) /\ WF_access(Arm)
    /\ SF_access(\E p \in Uploads : Ship(p))
    /\ \A p \in Uploads : WF_access(Goes(p))

AccessSpec == AccessInit /\ [][AccessNext]_access /\ AccessFairness

-----------------------------------------------------------------------------
(***************************************************************************)
(* Properties.                                                             *)
(***************************************************************************)
Places(r) ==
    Cardinality({t \in Trackers : r \in buffer[t]})
      + Cardinality({p \in Uploads : upload[p].at = "sent" /\ r \in upload[p].batch})
      + taken[r]

\* Whatever overlaps, a record is in one buffer, in one push or with the panel once:
\* none is sent twice, and what is missing was refused by a full buffer or went with a
\* push that failed.
AccessOnce ==
    \A r \in Records :
        Places(r) = IF r <= produced /\ r \notin dropped \union failed THEN 1 ELSE 0

\* The panel's switch is followed in the end (it changes its mind MaxTurns times), also
\* by a node that has nothing to report, and in whatever order answers and starts of the
\* kernel cross.
SwitchFollowed == <>[](arming.at # "ended" /\ live # 0 => logging[live] = desired)
=============================================================================
