----------------------------- MODULE AuraClients -----------------------------
(***************************************************************************)
(* The aura daemon with a client of its control plane (StateSync) or the   *)
(* listener of its data plane (VoiceFeed).  The planes share the daemon    *)
(* and its restarts and nothing else, so a behaviour follows one of them.  *)
(***************************************************************************)
EXTENDS VoiceFeed

VARIABLE plane      \* "state" or "segments"

auraVars == <<plane, shared, syncVars, feedVars>>

AuraInit ==
    /\ plane \in {"state", "segments"}
    /\ up = TRUE /\ boot = 0 /\ faults = 0
    /\ SyncInit /\ FeedInit

Fault == faults < FaultBound /\ faults' = faults + 1

Sync ==
    /\ plane = "state"
    /\ \/ SyncStep /\ UNCHANGED shared
       \/ SyncFault /\ Fault /\ UNCHANGED <<up, boot>>
    /\ UNCHANGED <<plane, feedVars>>

Feed ==
    /\ plane = "segments"
    /\ \/ FeedStep /\ UNCHANGED shared
       \/ (Unlisten \/ Probe(FALSE)) /\ Fault /\ UNCHANGED <<up, boot>>
    /\ UNCHANGED <<plane, syncVars>>

\* The daemon dies, with all it has not written down, and is started again.
Die ==
    /\ up /\ Fault /\ up' = FALSE /\ boot' = boot + 1
    /\ SyncRestart /\ FeedRestart
    /\ UNCHANGED plane

Start == ~up /\ up' = TRUE /\ UNCHANGED <<plane, boot, faults, syncVars, feedVars>>

AuraNext == Sync \/ Feed \/ Die \/ Start

\* Threads and tasks run, ticks come, clients reconnect.  Nobody need speak or
\* change a setting.
Fairness ==
    /\ WF_auraVars(Start)
    /\ \A h \in Handlers : WF_auraVars(plane = "state" /\ (StoreFlip(h) \/ Bump(h)) /\ UNCHANGED <<plane, shared, feedVars>>)
    /\ \A c \in Clients : WF_auraVars(plane = "state" /\ ClientStep(c) /\ UNCHANGED <<plane, shared, feedVars>>)
    /\ WF_auraVars(plane = "segments" /\ Stage2 /\ UNCHANGED <<plane, shared, syncVars>>)
    /\ WF_auraVars(plane = "segments" /\ Listen /\ UNCHANGED <<plane, shared, syncVars>>)

AuraSpec == AuraInit /\ [][AuraNext]_auraVars /\ Fairness

-----------------------------------------------------------------------------
\* A change is always reported: a client whose last fetch did not fail, and that
\* was up to date when it last connected, ends up with the daemon's settings.
SyncedUnlessBehind ==
    plane = "state" => \A c \in Clients : <>[](view[c] = Snapshot \/ c \in behind)
=============================================================================
