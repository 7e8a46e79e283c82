---------------------------- MODULE ScoutSession ----------------------------
(* The visual scout: a server with one session per connection                *)
(* (packages/scout/src/server.ts, session.ts) and the client SDK             *)
(* (packages/scout-client).  A connection carries frames in order until it   *)
(* is cut; each end learns that later, after some of what was under way.     *)
EXTENDS Terminal, SequencesExt, FiniteSets

CONSTANTS
    Conns,     \* connections, each with a client of its own
    Ids        \* correlation ids in use at a time; 0 is for the handshake

ASSUME SessionAssumption == Ids \subseteq Nat \ {0}

VARIABLES
    link,      \* link[c]: "new", "open" or "cut"
    up, down,  \* up[c], down[c]: the frames on their way to the server and back
    \* the client
    ready,     \* ready[c]: its promise: "wait", "ok" or "bad"
    torn,      \* torn[c]: teardown() has run
    waiting,   \* waiting[c]: requests that await ready, in order
    pending,   \* pending[c]: ids of requests without a reply
    settled,   \* settled[c][id]: how the call with this id ended: "no", "bad", or
               \* by a "RESULT" or a "BLOB", with its body; "dropped": nobody
               \* awaits it any more
    \* the server
    shut,      \* shut[c]: the socket's close event was handled
    minting,   \* minting[c]: backendFactory is making the terminal
    session,   \* session[c]: it is registered
    terminal,  \* terminal[c]: its terminal, once made
    serving    \* serving[c]: requests the session is working on, all at once

netVars == <<link, up, down>>
clientVars == <<ready, torn, waiting, pending, settled>>
serverVars == <<shut, minting, session, terminal, serving>>
scoutVars == <<netVars, clientVars, serverVars>>

Frame(type, id, body) == [type |-> type, id |-> id, body |-> body]
Empty == <<>>
Unsettled == [how |-> "no", body |-> Empty]
IdsOf(frames) == {frames[i].id : i \in DOMAIN frames}

ScoutInit ==
    /\ link = [c \in Conns |-> "new"]
    /\ up = [c \in Conns |-> <<>>] /\ down = [c \in Conns |-> <<>>]
    /\ ready = [c \in Conns |-> "wait"] /\ torn = [c \in Conns |-> FALSE]
    /\ waiting = [c \in Conns |-> <<>>] /\ pending = [c \in Conns |-> {}]
    /\ settled = [c \in Conns |-> [id \in Ids |-> Unsettled]]
    /\ shut = [c \in Conns |-> FALSE] /\ minting = [c \in Conns |-> FALSE]
    /\ session = [c \in Conns |-> FALSE] /\ serving = [c \in Conns |-> {}]
    /\ terminal = [c \in Conns |-> NewTerminal]

-----------------------------------------------------------------------------
(* The socket connects, and the handshake is sent.                           *)
Connect(c) ==
    /\ link[c] = "new" /\ ~torn[c]
    /\ link' = [link EXCEPT ![c] = "open"]
    /\ up' = [up EXCEPT ![c] = <<Frame("HAND_SHAKE", 0, Empty)>>]
    /\ UNCHANGED <<down, clientVars, serverVars>>

(* The server stops: close() destroys every socket, and none is accepted.    *)
ServerStops ==
    /\ \E c \in Conns : link[c] # "cut"
    /\ link' = [c \in Conns |-> "cut"]
    /\ UNCHANGED <<up, down, clientVars, serverVars>>

(* The connection breaks, or cannot be made.                                 *)
Cut(c) ==
    /\ link[c] # "cut"
    /\ link' = [link EXCEPT ![c] = "cut"]
    /\ UNCHANGED <<up, down, clientVars, serverVars>>

Settle(c, ids, how, body) ==
    [settled EXCEPT ![c] = [id \in Ids |-> IF id \in ids /\ @[id].how = "no"
                                           THEN [how |-> how, body |-> body] ELSE @[id]]]

(* What the caller of a call has seen, or will not look at.                  *)
Mark(c, id, how) == [settled EXCEPT ![c][id] = [how |-> how, body |-> Empty]]

(* What is still pending is forgotten instead of rejected.                   *)
TeardownForgets(c) ==
    /\ torn' = [torn EXCEPT ![c] = TRUE]
    /\ ready' = [ready EXCEPT ![c] = IF @ = "wait" THEN "bad" ELSE @]
    /\ settled' = Settle(c, IdsOf(waiting[c]), "bad", Empty)
    /\ waiting' = [waiting EXCEPT ![c] = <<>>]
    /\ pending' = [pending EXCEPT ![c] = {}]

(* teardown(): the handshake and all pending calls fail, once.               *)
Teardown(c) ==
    /\ torn' = [torn EXCEPT ![c] = TRUE]
    /\ ready' = [ready EXCEPT ![c] = IF @ = "wait" THEN "bad" ELSE @]
    /\ settled' = Settle(c, IdsOf(waiting[c]) \cup pending[c], "bad", Empty)
    /\ waiting' = [waiting EXCEPT ![c] = <<>>]
    /\ pending' = [pending EXCEPT ![c] = {}]

(* The client hears that the connection is gone; or it closes it itself.     *)
ClientLosesConnection(c) ==
    /\ link[c] = "cut" /\ ~torn[c]
    /\ Teardown(c)
    /\ UNCHANGED <<netVars, serverVars>>

Close(c) ==
    /\ ~torn[c]
    /\ Teardown(c)
    /\ link' = [link EXCEPT ![c] = "cut"]
    /\ UNCHANGED <<up, down, serverVars>>

(* call(): awaits ready, then sends.  What is written to a dead socket is    *)
(* lost, and nobody settles the call any more.                               *)
Call(c, id, request) ==
    LET frame == Frame("REQUEST", id, request) IN
    /\ settled' = Mark(c, id, IF ready[c] = "bad" THEN "bad" ELSE "no")
    /\ waiting' = [waiting EXCEPT ![c] = IF ready[c] = "wait" THEN Append(@, frame) ELSE @]
    /\ pending' = [pending EXCEPT ![c] = IF ready[c] = "ok" THEN @ \cup {id} ELSE @]
    /\ up' = [up EXCEPT ![c] = IF ready[c] = "ok" /\ ~torn[c] THEN Append(@, frame) ELSE @]
    /\ UNCHANGED <<link, down, ready, torn, serverVars>>

(* onFrame.                                                                  *)
Receive(c) ==
    /\ ~torn[c] /\ down[c] # <<>>
    /\ LET frame   == Head(down[c])
           refusal == frame.type = "ERROR" /\ frame.id = 0
       IN
       \/ /\ frame.type = "HAND_SHAKE_ACK"
          /\ ready' = [ready EXCEPT ![c] = "ok"]
          /\ pending' = [pending EXCEPT ![c] = @ \cup IdsOf(waiting[c])]
          /\ up' = [up EXCEPT ![c] = @ \o waiting[c]]
          /\ waiting' = [waiting EXCEPT ![c] = <<>>]
          /\ UNCHANGED settled
       \/ /\ refusal
          /\ ready' = [ready EXCEPT ![c] = IF @ = "wait" THEN "bad" ELSE @]
          /\ settled' = Settle(c, IdsOf(waiting[c]), "bad", Empty)
          /\ waiting' = [waiting EXCEPT ![c] = <<>>]
          /\ UNCHANGED <<pending, up>>
       \/ /\ frame.type # "HAND_SHAKE_ACK" /\ ~refusal
          /\ settled' = Settle(c, {frame.id} \cap pending[c],
                               IF frame.type = "ERROR" THEN "bad" ELSE frame.type, frame.body)
          /\ pending' = [pending EXCEPT ![c] = @ \ {frame.id}]
          /\ UNCHANGED <<ready, up, waiting>>
    /\ down' = [down EXCEPT ![c] = Tail(@)]
    /\ UNCHANGED <<link, torn, serverVars>>

-----------------------------------------------------------------------------
(* send(): what is for a socket that is gone is dropped.                     *)
Send(c, frame) == down' = [down EXCEPT ![c] = IF shut[c] THEN @ ELSE Append(@, frame)]

(* A frame of the client: the handshake has a terminal made, a request is    *)
(* worked on beside those before it.                                         *)
ServerReads(c) ==
    /\ ~shut[c] /\ up[c] # <<>>
    /\ up' = [up EXCEPT ![c] = Tail(@)]
    /\ IF Head(up[c]).type = "HAND_SHAKE"
       THEN minting' = [minting EXCEPT ![c] = TRUE] /\ UNCHANGED serving
       ELSE serving' = [serving EXCEPT ![c] = @ \cup {Head(up[c])}] /\ UNCHANGED minting
    /\ UNCHANGED <<link, down, clientVars, shut, session, terminal>>

(* A terminal is made: the session is registered, whether or not the         *)
(* connection is still there.                                                *)
Mint(c) ==
    /\ minting[c]
    /\ minting' = [minting EXCEPT ![c] = FALSE]
    /\ session' = [session EXCEPT ![c] = TRUE]
    /\ \E t \in Backends : terminal' = [terminal EXCEPT ![c] = t]
    /\ Send(c, Frame("HAND_SHAKE_ACK", 0, Empty))
    /\ UNCHANGED <<link, up, clientVars, shut, serving>>

(* It cannot be made: the server says so and destroys the socket.            *)
MintFails(c) ==
    /\ minting[c]
    /\ minting' = [minting EXCEPT ![c] = FALSE]
    /\ Send(c, Frame("ERROR", 0, Empty))
    /\ link' = [link EXCEPT ![c] = "cut"]
    /\ UNCHANGED <<up, clientVars, shut, session, terminal, serving>>

(* The terminal does what a request asks for, those under way in any order,  *)
(* and the reply follows; a failure is reported in-band.                     *)
Reply(c) ==
    /\ \E frame \in serving[c] :
          /\ serving' = [serving EXCEPT ![c] = @ \ {frame}]
          /\ LET done == dispatch(terminal[c], frame.body)
             IN  /\ terminal' = [terminal EXCEPT ![c] = done.after]
                 /\ Send(c, Frame(done.type, frame.id, done.body))
    /\ UNCHANGED <<link, up, clientVars, shut, minting, session>>

(* The socket's close event.                                                 *)
ServerCloses(c) ==
    /\ link[c] = "cut" /\ ~shut[c]
    /\ shut' = [shut EXCEPT ![c] = TRUE]
    /\ session' = [session EXCEPT ![c] = FALSE]
    /\ UNCHANGED <<netVars, clientVars, minting, terminal, serving>>

Remote(c) ==
    \/ Connect(c) \/ ClientLosesConnection(c) \/ Receive(c)
    \/ ServerReads(c) \/ Mint(c) \/ MintFails(c) \/ Reply(c) \/ ServerCloses(c)
=============================================================================
