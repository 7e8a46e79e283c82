------------------------------ MODULE StateSync ------------------------------
(***************************************************************************)
(* The control plane between the aura daemon (audio-aura main.rs) and its  *)
(* clients (aura-agent client.rs): settings live in the daemon, a version  *)
(* is bumped after each change, every stream of /api/stream pings its      *)
(* client when a tick finds the version advanced, and the client then      *)
(* fetches the whole snapshot.  Streams break (the HTTP client itself cuts *)
(* them after 30 s), fetches fail and the daemon restarts.                 *)
(*                                                                         *)
(* A snapshot is abstracted to the run of the daemon it is of and the      *)
(* number of changes it contains.                                          *)
(***************************************************************************)
EXTENDS Integers, Sequences, FiniteSets

CONSTANTS
    Clients,        \* subscribers of /api/stream
    Handlers,       \* requests that change a setting
    ChangeBound,    \* bound: changes in a run of the daemon
    FaultBound      \* bound: broken streams, failed fetches and restarts

ASSUME SyncAssumption == ChangeBound \in Nat /\ FaultBound \in Nat

VARIABLES
    up,         \* does the daemon run
    boot,       \* which run of the daemon
    faults,     \* faults so far
    active,     \* DaemonState.active: aura's connection to scout is wanted
    changes,    \* changes stored in this run
    version,    \* DaemonState.version
    handler,    \* request -> "idle", the value it is about to store, or "stored"
    stream,     \* client -> [open, seen: last_seen, pings: on the wire]
    fetch,      \* client -> No, Asked for /api/state, or the snapshot on its way
    view,       \* client -> [boot, n]: the last snapshot it was given
    behind      \* history: clients that missed a change, by a failed fetch or while away

daemonVars == <<active, changes, version, handler>>
clientVars == <<stream, fetch, view, behind>>
syncVars == <<daemonVars, clientVars>>
shared == <<up, boot, faults>>

Hung == [open |-> FALSE, seen |-> 0, pings |-> 0]
No == [boot |-> -1, n |-> 0]
Asked == [boot |-> -2, n |-> 0]
Snapshot == [boot |-> boot, n |-> changes]

SyncInit ==
    /\ active = TRUE /\ changes = 0 /\ version = 0
    /\ handler = [h \in Handlers |-> "idle"]
    /\ stream = [c \in Clients |-> Hung] /\ fetch = [c \in Clients |-> No]
    /\ view = [c \in Clients |-> [boot |-> 0, n |-> 0]]
    /\ behind = {}

-----------------------------------------------------------------------------
(* The daemon's handlers.                                                  *)

\* control_scout without an argument reads the flag ...
ReadFlip(h) ==
    /\ up /\ handler[h] = "idle" /\ changes + Cardinality(Handlers) <= ChangeBound
    /\ handler' = [handler EXCEPT ![h] = IF active THEN "off" ELSE "on"]
    /\ UNCHANGED <<active, changes, version, clientVars>>

\* ... and stores its opposite.
StoreFlip(h) ==
    /\ handler[h] \in {"on", "off"}
    /\ active' = (handler[h] = "on") /\ changes' = changes + 1
    /\ handler' = [handler EXCEPT ![h] = "stored"]
    /\ UNCHANGED <<version, clientVars>>

\* correction_handler stores a correction, the Stage3 rule adds a hotword.
StoreSetting(h) ==
    /\ up /\ handler[h] = "idle" /\ changes + Cardinality(Handlers) <= ChangeBound
    /\ changes' = changes + 1
    /\ handler' = [handler EXCEPT ![h] = "stored"]
    /\ UNCHANGED <<active, version, clientVars>>

\* bump, in all of them the last step.
Bump(h) ==
    /\ handler[h] = "stored"
    /\ version' = version + 1
    /\ handler' = [handler EXCEPT ![h] = "idle"]
    /\ UNCHANGED <<active, changes, clientVars>>

\* stream_asr, at a tick of the stream's interval.
Tick(c) ==
    /\ stream[c].open /\ version > stream[c].seen
    /\ stream' = [stream EXCEPT ![c].seen = version, ![c].pings = @ + 1]
    /\ UNCHANGED <<daemonVars, fetch, view, behind>>

-----------------------------------------------------------------------------
(* The client.                                                             *)

\* sse_data connects; stream_asr starts at the current version, and subscribe
\* ignores the greeting: what changed while it was away is not fetched.
Connect(c) ==
    /\ up /\ ~stream[c].open /\ stream[c].pings = 0
    /\ stream' = [stream EXCEPT ![c] = [open |-> TRUE, seen |-> version, pings |-> 0]]
    /\ behind' = IF view[c] = [boot |-> boot, n |-> changes] THEN behind ELSE behind \cup {c}
    /\ UNCHANGED <<daemonVars, fetch, view>>

TakePingOverlapping(c) ==
    /\ stream[c].pings > 0
    /\ stream' = [stream EXCEPT ![c].pings = @ - 1]
    /\ fetch' = [fetch EXCEPT ![c] = IF @ = No THEN Asked ELSE @]
    /\ UNCHANGED <<daemonVars, view, behind>>

\* subscribe takes a ping and asks for the snapshot; it reads no further
\* before the answer.
TakePing(c) ==
    /\ stream[c].pings > 0 /\ fetch[c] = No
    /\ stream' = [stream EXCEPT ![c].pings = @ - 1]
    /\ fetch' = [fetch EXCEPT ![c] = Asked]
    /\ UNCHANGED <<daemonVars, view, behind>>

\* state_handler answers with snapshot().
AnswerState(c) ==
    /\ up /\ fetch[c] = Asked
    /\ fetch' = [fetch EXCEPT ![c] = Snapshot]
    /\ UNCHANGED <<daemonVars, stream, view, behind>>

\* subscribe yields the snapshot.
Fetched(c) ==
    /\ fetch[c] \notin {No, Asked}
    /\ view' = [view EXCEPT ![c] = fetch[c]]
    /\ fetch' = [fetch EXCEPT ![c] = No] 
    /\ behind' = IF fetch[c] = Snapshot THEN behind \ {c} ELSE behind
    /\ UNCHANGED <<daemonVars, stream>>

\* state() fails, which subscribe passes over.
FetchFails(c) ==
    /\ fetch[c] # No
    /\ fetch' = [fetch EXCEPT ![c] = No] /\ behind' = behind \cup {c}
    /\ UNCHANGED <<daemonVars, stream, view>>

\* The stream ends: pings that did not arrive are lost.
Break(c) ==
    /\ stream[c].open
    /\ \E left \in 0..stream[c].pings :
          stream' = [stream EXCEPT ![c] = [Hung EXCEPT !.pings = left]]
    /\ UNCHANGED <<daemonVars, fetch, view, behind>>

\* The daemon ends; its settings go back to the configured ones.
SyncRestart ==
    /\ active' = TRUE /\ changes' = 0 /\ version' = 0
    /\ handler' = [h \in Handlers |-> "idle"]
    /\ stream' = [c \in Clients |-> [Hung EXCEPT !.pings = stream[c].pings]]
    /\ fetch' = [c \in Clients |-> IF fetch[c] = Asked THEN No ELSE fetch[c]]
    /\ behind' = behind \cup {c \in Clients : fetch[c] = Asked}
    /\ UNCHANGED view

-----------------------------------------------------------------------------
Handle(h) == ReadFlip(h) \/ StoreFlip(h) \/ StoreSetting(h) \/ Bump(h)
ClientStep(c) == Tick(c) \/ Connect(c) \/ TakePing(c) \/ AnswerState(c) \/ Fetched(c)
SyncFault == \E c \in Clients : FetchFails(c) \/ Break(c)

SyncStep == (\E h \in Handlers : Handle(h)) \/ (\E c \in Clients : ClientStep(c))
=============================================================================
