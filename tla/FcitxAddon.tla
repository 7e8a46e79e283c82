---------------------------- MODULE FcitxAddon ----------------------------
(* The fcitx5 addon (apps/swift-ime/release/fcitx/swift-ime.cpp) over the C  *)
(* interface of the engine (frontends/fcitx5.rs): it forwards keys, clicks   *)
(* and changes of field, paints what the engine shows by comparing it with   *)
(* what was shown before, and takes the I/O thread's word that a context     *)
(* must be drawn again over to the main loop with a timer.                   *)
(*                                                                           *)
(* A step of the addon on the main loop is one step here, but for the timer, *)
(* which clears refreshArmed_ before it takes the lock: the I/O thread may   *)
(* run in between, as the main loop may between its insertion and its test.  *)
EXTENDS ImeEngine

VARIABLES
    panel,     \* panel[c]: the input panel of fcitx5
    last,      \* lastViews_: the view that was painted last
    active,    \* activeContexts_
    armed,     \* refreshArmed_: the timer is believed to be set
    timer,     \* the timer, which fires once, is set
    io,        \* the I/O thread: "idle", or "told" when it has yet to test refreshArmed_
    fired,     \* the timer's callback has cleared refreshArmed_ and not taken the lock
    batch      \* contexts the callback has taken to draw

addonVars == <<panel, last, active, armed, timer, io, fired, batch>>
allVars == <<vars, addonVars>>

-----------------------------------------------------------------------------
(* Views (platform.rs): what is to be committed (highlighted in the          *)
(* application), the candidates, and the letters above them.                 *)

NoText == [raw |-> FALSE, text |-> <<>>]

(* The input itself is shown while no prediction is highlighted.             *)
Preedit(m) ==
    LET of == IF m.cand = <<>> THEN Rollback(m.buf) ELSE m.cand[m.hl + 1]
    IN  CASE m.st = "Pinyin" -> [raw |-> FALSE, text |-> Append(m.com, m.buf)]
          [] m.st = "Snippet" /\ of.kind \in {"hint", "rollback"} ->
                [raw |-> TRUE, text |-> <<m.buf>>]
          [] m.st = "Snippet" /\ of.kind \notin {"hint", "rollback"} ->
                [raw |-> FALSE, text |-> <<of.of>>]
          [] OTHER -> NoText

make_view(m) ==
    [preedit |-> Preedit(m), cand |-> m.cand, hl |-> m.hl, page |-> m.page, aux |-> m.buf]

EmptyView == [preedit |-> NoText, cand |-> <<>>, hl |-> 0, page |-> 0, aux |-> <<>>]

(* A view that commits or passes the key on shows nothing.                   *)
ViewOf(r) == IF r.through \/ r.kind # None THEN EmptyView ELSE make_view(r.m)

BlankPanel == [preedit |-> NoText, cand |-> <<>>, at |-> <<0, 0>>, aux |-> <<>>]

(* A panel on which a view was painted from scratch.                         *)
Painted(v) ==
    [preedit |-> v.preedit, cand |-> v.cand, aux |-> v.aux,
     at |-> IF v.cand = <<>> THEN <<0, 0>> ELSE <<v.hl, v.page>>]

(* The highlight is painted only when the texts are.                         *)
TextsDiffer(v, prev) == v.cand # prev.cand

CandidatesDiffer(v, prev) == <<v.cand, v.hl, v.page>> # <<prev.cand, prev.hl, prev.page>>

(* The parts of apply_view, in its order: the preedit that disappears clears *)
(* the panel, then the list, then the line above it, then the preedit.       *)
WithoutPreedit(p, v, prev) ==
    IF v.preedit = NoText /\ prev.preedit # NoText THEN BlankPanel ELSE p

WithCandidates(p, v, prev) ==
    IF ~CandidatesDiffer(v, prev) \/ (v.cand = <<>> /\ prev.cand = <<>>) THEN p
    ELSE [p EXCEPT !.cand = v.cand, !.at = IF v.cand = <<>> THEN <<0, 0>> ELSE <<v.hl, v.page>>]

WithAux(p, v, prev) ==
    IF v.aux # <<>> /\ (v.aux # prev.aux \/ CandidatesDiffer(v, prev))
    THEN [p EXCEPT !.aux = v.aux] ELSE p

WithPreedit(p, v, prev) ==
    IF v.preedit # prev.preedit \/ CandidatesDiffer(v, prev)
    THEN [p EXCEPT !.preedit = v.preedit] ELSE p

apply_view(p, v, prev) ==
    WithPreedit(WithAux(WithCandidates(WithoutPreedit(p, v, prev), v, prev), v, prev), v, prev)

(* A commit clears the panel.                                                *)
Show(c, r) ==
    /\ panel' = [panel EXCEPT ![c] = IF r.kind # None THEN BlankPanel
                                     ELSE apply_view(@, ViewOf(r), last[c])]
    /\ last' = [last EXCEPT ![c] = ViewOf(r)]

Forget(c) ==
    /\ panel' = [panel EXCEPT ![c] = BlankPanel]
    /\ last' = [last EXCEPT ![c] = EmptyView]

-----------------------------------------------------------------------------
AddonInit ==
    /\ Init
    /\ panel = [c \in Contexts |-> BlankPanel]
    /\ last = [c \in Contexts |-> EmptyView]
    /\ active = {}
    /\ armed = FALSE
    /\ timer = FALSE
    /\ io = "idle"
    /\ fired = FALSE
    /\ batch = {}

(* The callback of the timer keeps the main loop busy until it has drawn.    *)
MainIdle == ~fired /\ batch = {}
KeepsTimer == UNCHANGED <<armed, timer, io, fired, batch>>
KeepsEngine == out' = Silent /\ UNCHANGED <<sm, voice, clips, queue, typed, tidy>>

(* activate: the engine makes the context at its first key; the clipboard is *)
(* pushed, when there is something in it.                                    *)
Activate(c) ==
    /\ MainIdle /\ c \notin active
    /\ active' = active \cup {c}
    /\ last' = [last EXCEPT ![c] = EmptyView]
    /\ clips' \in {clips, TRUE}
    /\ out' = Silent
    /\ UNCHANGED <<sm, voice, queue, refresh, typed, tidy>>
    /\ KeepsTimer
    /\ UNCHANGED panel

(* keyEvent: the clipboard is pushed first when what was painted last shows  *)
(* a command, for the key may need it.                                       *)
KeyEvent(c, key) ==
    /\ MainIdle /\ c \in active
    /\ clips' \in IF last[c].preedit.raw THEN {clips, TRUE} ELSE {clips}
    /\ \E r \in KeyResults(c, key, [World EXCEPT !.clips = clips']) :
          Key(c, key, r) /\ Show(c, r)
    /\ KeepsTimer
    /\ UNCHANGED active

(* A click on a candidate the panel shows.                                   *)
Click(c, i) ==
    /\ MainIdle /\ c \in active
    /\ i < Len(panel[c].cand)
    /\ \E r \in select(sm[c], i) : Select(c, r) /\ Show(c, r)
    /\ KeepsTimer
    /\ UNCHANGED active

(* reset: fcitx5 asks for it.                                                *)
Reset(c) ==
    /\ MainIdle /\ c \in active
    /\ ResetContext(c)
    /\ Forget(c)
    /\ KeepsTimer
    /\ UNCHANGED active

(* deactivate: the focus leaves the field.                                   *)
Deactivate(c) ==
    /\ MainIdle /\ c \in active
    /\ LeaveContext(c)
    /\ Forget(c)
    /\ active' = active \ {c}
    /\ KeepsTimer

-----------------------------------------------------------------------------
(* The I/O thread works on one thing at a time.  Then onRefresh: the context *)
(* is put among pendingRefreshes_ (refresh) under the lock.                  *)
Working(job) ==
    /\ io = "idle" /\ io' = "told"
    /\ job
    /\ UNCHANGED <<panel, last, active, armed, timer, fired, batch>>

(* onClipboardRequest asks for the clipboard only while a field is active.   *)
Work ==
    \/ Working(RunRequest)
    \/ Working(RequestClipboard(IF active = {} THEN {clips} ELSE {clips, TRUE}))
    \/ \E v \in {"silent", "text"} : Working(VoiceChanges(v))

(* ... and after it the timer is set, unless it is believed to be.           *)
ArmTimer ==
    /\ io = "told" /\ io' = "idle"
    /\ armed' = TRUE
    /\ timer' = (timer \/ ~armed)
    /\ KeepsEngine /\ UNCHANGED <<refresh, panel, last, active, fired, batch>>

(* The callback that clears refreshArmed_ only when it has taken its batch.  *)
DrainLate ==
    \/ /\ timer /\ MainIdle
       /\ timer' = FALSE /\ fired' = TRUE
       /\ KeepsEngine /\ UNCHANGED <<refresh, panel, last, active, armed, io, batch>>
    \/ /\ fired /\ fired' = FALSE
       /\ batch' = refresh /\ refresh' = {}
       /\ KeepsEngine /\ UNCHANGED <<panel, last, active, armed, timer, io>>
    \/ /\ armed /\ ~timer /\ ~fired
       /\ armed' = FALSE
       /\ KeepsEngine /\ UNCHANGED <<refresh, panel, last, active, timer, io, fired, batch>>

(* The timer's callback: refreshArmed_ is cleared, and then, under the lock, *)
(* what is pending becomes the batch to draw.                                *)
Drain ==
    \/ /\ timer /\ MainIdle
       /\ timer' = FALSE /\ armed' = FALSE /\ fired' = TRUE
       /\ KeepsEngine /\ UNCHANGED <<refresh, panel, last, active, io, batch>>
    \/ /\ fired /\ fired' = FALSE
       /\ batch' = refresh /\ refresh' = {}
       /\ KeepsEngine /\ UNCHANGED <<panel, last, active, armed, timer, io>>

(* ... and draws each.  A context with no live command has no view.          *)
Draw(c) ==
    /\ c \in batch /\ batch' = batch \ {c}
    /\ Tick(c)
    /\ IF Ticks(sm[c]) THEN Show(c, Handled(sm'[c])) ELSE UNCHANGED <<panel, last>>
    /\ UNCHANGED <<active, armed, timer, io, fired>>

AddonNext ==
    \/ \E c \in Contexts : Activate(c)
    \/ \E c \in Contexts, key \in Keys : KeyEvent(c, key)
    \/ \E c \in Contexts, i \in 0..4 : Click(c, i)
    \/ \E c \in Contexts : Reset(c)
    \/ \E c \in Contexts : Deactivate(c)
    \/ Work
    \/ ArmTimer
    \/ Drain
    \/ \E c \in Contexts : Draw(c)

Spec == AddonInit /\ [][AddonNext]_allVars

-----------------------------------------------------------------------------
(* No refresh is lost between the threads: while a context waits to be drawn *)
(* the timer is set, or the I/O thread is about to set it, or the callback   *)
(* is about to take what waits.                                              *)
NoRefreshLost == refresh # {} => timer \/ fired \/ (io = "told" /\ ~armed)

(* What a request's command shows is what it would predict now, or the       *)
(* context waits to be drawn again: no answer of the network is left unseen, *)
(* and none is shown that the member no longer holds.                        *)
FreshOrRefreshing ==
    \A c \in Contexts :
        sm[c].cmd.name = "req" /\ sm[c].cand # <<>> =>
            c \in refresh \cup batch \/ Current(c)

(* The panel follows the composition although only differences are painted:  *)
(* after every step that changes what a composition shows - its letters, a   *)
(* candidate, the highlight, the page - the panel is that view painted from  *)
(* scratch.  (A key that the input method passes on leaves the composition   *)
(* as it is and yet empties the panel.)                                      *)
PanelFollows ==
    [][\A c \in Contexts :
          make_view(sm'[c]) # make_view(sm[c]) => panel'[c] = Painted(make_view(sm'[c]))]_allVars
=============================================================================
