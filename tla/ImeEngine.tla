----------------------------- MODULE ImeEngine -----------------------------
(* The engine of the input method (crates/ime-core/src/engine.rs): one       *)
(* composition per input context, the live commands that read the voice, the *)
(* clipboard and the network, the single I/O thread that works for them      *)
(* (io_thread.rs), and the front end that is told to draw again.  The table  *)
(* of contexts is locked for the whole of every call, so a call is a step;   *)
(* FcitxAddon makes the calls.                                               *)
EXTENDS Composition

CONSTANTS
    Contexts,      \* the input contexts of the front end
    VoiceContext,  \* the context the voice listener refreshes: 0 in the code
    QueueBound,    \* places in the channel of the I/O thread (64)
    MaxPinyin,     \* bound: the letters of one composition
    MaxCommand     \* bound: the characters of one command

ASSUME EngineAssumption == {QueueBound, MaxPinyin, MaxCommand} \subseteq Nat

VARIABLES
    sm,        \* sm[c]: the composition of context c
    voice,     \* the shared voice state: "text", or "silent" (or not connected)
    clips,     \* the clipboard history holds something
    queue,     \* work sent to the I/O thread
    refresh,   \* contexts the front end was told to draw again
    typed,     \* typed[c]: the letters typed in this composition, less those deleted
    tidy,      \* tidy[c]: no picked character was undone in a row or left behind
    out        \* the last text given to the application

vars == <<sm, voice, clips, queue, refresh, typed, tidy, out>>

World == [voice |-> voice, clips |-> clips]
Silent == [kind |-> None, text |-> <<>>, want |-> <<>>, taught |-> {},
           tidy |-> TRUE]

Init ==
    /\ sm = [c \in Contexts |-> Idle]
    /\ voice = "silent"
    /\ clips = FALSE
    /\ queue = <<>>
    /\ refresh = {}
    /\ typed = [c \in Contexts |-> <<>>]
    /\ tidy = [c \in Contexts |-> TRUE]
    /\ out = Silent

(* Work whose member is gone is still done, but for nobody.                  *)
Orphaned(q, c, member) ==
    [i \in DOMAIN q |->
        IF q[i].ctx = c /\ q[i].what = "req" /\ member.name # "req"
        THEN [q[i] EXCEPT !.alive = FALSE] ELSE q[i]]

(* IoThread.send: what does not fit is dropped without a word.               *)
Sent(q, c, work, member) ==
    LET room == QueueBound - Len(q)
        fits == IF Len(work) <= room THEN Len(work) ELSE room
    IN  q \o [i \in 1..fits |->
                 [what |-> work[i], ctx |-> c, alive |-> TRUE,
                  arg |-> IF work[i] = "req" THEN member.arg ELSE <<>>]]

(* What the engine does with a result.                                       *)
Apply(c, r) ==
    /\ sm' = [sm EXCEPT ![c] = r.m]
    /\ queue' = Sent(Orphaned(queue, c, r.m.cmd), c, r.send, r.m.cmd)

Report(c, r) ==
    out' = IF r.kind = None /\ r.taught = {} THEN Silent
           ELSE [kind |-> r.kind, text |-> r.text, want |-> typed[c],
                 taught |-> r.taught, tidy |-> tidy[c]]

(* Ghosts: what the user typed, and where the code is known to lose count of *)
(* the pinyin of picked characters (two undone, or a word ended with some).  *)
Track(c, key, r) ==
    LET was == sm[c]
        undone == was.com # <<>> /\ key = "Backspace"
    IN  /\ typed' = [typed EXCEPT ![c] =
              IF r.m.st # "Pinyin" THEN <<>>
              ELSE IF key \in Letters THEN Append(@, key)
              ELSE IF key = "Backspace" /\ ~undone THEN Front(@)
              ELSE @]
        /\ tidy' = [tidy EXCEPT ![c] =
              IF r.m = Idle THEN TRUE
              ELSE @ /\ ~(undone /\ Len(was.com) > 1)
                     /\ ~(was.com # <<>> /\ r.m.st = "Idle")]

(* What the routing of a key may lead to.                                    *)
KeyResults(c, key, w) ==
    LET m == sm[c]
        bounded == \/ m.st # "Snippet" /\ Len(m.buf) + Len(m.cpy) < MaxPinyin
                   \/ m.st = "Snippet" /\ Len(m.buf) < MaxCommand
                   \/ key \notin Letters \cup {"#", "/"} \cup DOMAIN Digit
    IN  IF bounded THEN route(m, key, w) ELSE {}

(* key_ctx: a key, with the result of its routing.                           *)
Key(c, key, r) ==
    /\ Apply(c, r) /\ Report(c, r) /\ Track(c, key, r)
    /\ UNCHANGED <<voice, refresh>>

(* select_ctx: the pinyin selection, whatever the composition is.            *)
Select(c, r) ==
    /\ Apply(c, r) /\ Report(c, r) /\ Track(c, "click", r)
    /\ UNCHANGED <<voice, clips, refresh>>

(* reset_ctx.                                                                *)
ResetContext(c) ==
    LET r == Handled(reset(sm[c]))
    IN  /\ Apply(c, r) /\ Report(c, r) /\ Track(c, "reset", r)
        /\ UNCHANGED <<voice, clips, refresh>>

(* commit_pending_ctx and then deactivate_ctx: what is pending is given to   *)
(* the application and the context is removed with its member.               *)
LeaveContext(c) ==
    LET r == [Handled(Idle) EXCEPT !.kind = Pending(sm[c]).kind]
    IN  /\ Apply(c, r)
        /\ Report(c, [r EXCEPT !.text = Pending(sm[c]).text])
        /\ Track(c, "leave", r)
        /\ UNCHANGED <<voice, clips, refresh>>

-----------------------------------------------------------------------------
(* magic_tick_ctx: drawing again asks the live member what it predicts now.  *)
Ticks(m) == m.st = "Snippet" /\ m.cmd # NoMember

Tick(c) ==
    LET m == sm[c]
        member == Sees(m.cmd, m.buf, World)
        again == rebuild_magic_view([m EXCEPT !.cmd = member], predict(member, m.buf, World))
    IN  /\ IF Ticks(m)
           THEN /\ sm' = [sm EXCEPT ![c] = again]
                /\ queue' = IF member.asked /\ ~m.cmd.asked
                            THEN Sent(queue, c, <<"clip">>, member) ELSE queue
           ELSE UNCHANGED <<sm, queue>>
        /\ out' = Silent
        /\ UNCHANGED <<voice, clips, refresh, typed, tidy>>

(* A request is answered and nobody is told.                                 *)
RunRequestQuietly ==
    /\ queue # <<>> /\ Head(queue).what = "req"
    /\ LET job == Head(queue) IN
       sm' = IF ~job.alive THEN sm
             ELSE [sm EXCEPT ![job.ctx].cmd = [@ EXCEPT !.status = "done", !.body = job.arg]]
    /\ queue' = Tail(queue)
    /\ out' = Silent
    /\ UNCHANGED <<voice, clips, refresh, typed, tidy>>

(* A request runs on the I/O thread, lands in the member it was fired by,    *)
(* and the context is drawn again.                                           *)
RunRequest ==
    /\ queue # <<>> /\ Head(queue).what = "req"
    /\ \E status \in {"done", "failed"} :
          LET job == Head(queue) IN
          sm' = IF ~job.alive THEN sm
                ELSE [sm EXCEPT ![job.ctx].cmd =
                        [@ EXCEPT !.status = status,
                                  !.body = IF status = "done" THEN job.arg ELSE <<>>]]
    /\ queue' = Tail(queue)
    /\ refresh' = refresh \cup {Head(queue).ctx}
    /\ out' = Silent
    /\ UNCHANGED <<voice, clips, typed, tidy>>

(* The front end is asked for the clipboard and pushes what it has, if any.  *)
RequestClipboard(pushed) ==
    /\ queue # <<>> /\ Head(queue).what = "clip"
    /\ clips' \in pushed
    /\ queue' = Tail(queue)
    /\ refresh' = refresh \cup {Head(queue).ctx}
    /\ out' = Silent
    /\ UNCHANGED <<sm, voice, typed, tidy>>

(* The voice listener folds a fragment, or learns whether the daemon lives.  *)
VoiceChanges(v) ==
    /\ v # voice
    /\ voice' = v
    /\ refresh' = refresh \cup ({VoiceContext} \cap Contexts)
    /\ out' = Silent
    /\ UNCHANGED <<sm, clips, queue, typed, tidy>>

-----------------------------------------------------------------------------
(* The composition holds what its state says.  A composition that ended      *)
(* holds nothing of the next one: no letters, no candidates a digit could    *)
(* commit, no picked characters.  A live command exists exactly while its    *)
(* name is typed: after every edit, completion, cancellation and redraw the  *)
(* instance that predicts, and that a late answer would reach, is the one of *)
(* the command in the buffer.                                                *)
HoldsWhatIsTyped ==
    \A c \in Contexts :
        LET m == sm[c]
            match == match_command(m.buf)
            live == m.st = "Snippet" /\ match.is \in {"live", "snippet"}
        IN  /\ m.st = "Idle" => m.buf = <<>> /\ m.com = <<>> /\ m.cand = <<>>
            /\ m.com # <<>> => m.st = "Pinyin" /\ m.buf # <<>>
            /\ m.cmd.name = IF live THEN match.cmd ELSE None

(* Picking characters one by one loses and doubles nothing: what is picked   *)
(* and what is left to write spell what the user typed, whatever is deleted  *)
(* in between; so does the text committed by picking, by Enter, or by a      *)
(* character that ends the word; and the pinyin the phrase book is taught    *)
(* for a word is the pinyin the word was composed from.  Where two picked    *)
(* characters were undone, or a word ended with some picked, the code loses  *)
(* count (tidy).                                                             *)
Conserved ==
    /\ \A c \in Contexts :
          sm[c].st = "Pinyin" /\ tidy[c] => Spelled(sm[c].com) \o sm[c].buf = typed[c]
    /\ out.tidy =>
          /\ out.kind \in {"pick", "raw", "ended"} => out.text = out.want
          /\ \A pair \in out.taught : pair[1] = pair[2]

(* What a live command shows is what it would predict now.                   *)
Current(c) == Front(sm[c].cand) = predict(sm[c].cmd, sm[c].buf, World)
=============================================================================
