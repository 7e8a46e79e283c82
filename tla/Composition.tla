---------------------------- MODULE Composition ----------------------------
(* The composition state machine of one input context of the input method    *)
(* (crates/ime-core/src/state.rs) with the routing of keys to it             *)
(* (router.rs).  A handler is an operator from the machine's record to a     *)
(* result: the record after it, the text given to the application, what the  *)
(* pinyin model is taught, and the work sent to the I/O thread.              *)
(*                                                                           *)
(* A piece of text is the sequence of letters it stands for: a candidate     *)
(* character is the syllable it was picked for, and committed_text is a      *)
(* sequence of syllables.  Which candidates the families rank for a buffer   *)
(* is left open (Ranked); case, cursor and preedit are layout.               *)
EXTENDS Integers, Sequences, SequencesExt, FiniteSets

CONSTANTS
    Letters,       \* the letters that are typed
    Syllables,     \* the valid syllables of inputx-pinyin: sequences of letters
    Triggers,      \* Triggers[n]: the name typed after # for the command n
    Statics,       \* the commands that expand at once (#date)
    HeadMax,       \* full candidates before the single characters (8 in the code)
    PageSize       \* candidate_page_size

ASSUME PageAssumption == PageSize \in Nat \ {0} /\ HeadMax \in Nat \ {0}
ASSUME SyllableAssumption == \A s \in Syllables : s \in Seq(Letters) /\ s # <<>>

Commands == DOMAIN Triggers

ASSUME TriggerAssumption ==
    IsFiniteSet(Commands) /\ \A n \in Commands : Triggers[n] \in Seq(Letters)

None == "none"

(* The member instance behind a live command: its name, the suffix it has    *)
(* seen, the status of its request with the suffix it was fetched for, and   *)
(* whether it has asked the front end for the clipboard.                     *)
NoMember == [name |-> None, arg |-> <<>>, status |-> "idle", body |-> <<>>,
             asked |-> FALSE]
Fresh(n) == [NoMember EXCEPT !.name = n]

Idle == [st |-> "Idle", buf |-> <<>>, com |-> <<>>, cpy |-> <<>>, cand |-> <<>>,
         fresh |-> FALSE, hl |-> 0, page |-> 0, cmd |-> NoMember, sel |-> FALSE]

(* A reset that forgets the member.                                          *)
ResetKeepsMember(m) == [Idle EXCEPT !.cmd = m.cmd]

(* reset(): everything is cleared; the member is deactivated and dropped.    *)
reset(m) == Idle

(* A result without text.  "kind" says where committed text came from.       *)
Handled(m) == [m |-> m, kind |-> None, text |-> <<>>, taught |-> {},
               family |-> None, send |-> <<>>, through |-> FALSE]
Through(m) == [Handled(m) EXCEPT !.through = TRUE]
Commit(m, kind, text) == [Handled(m) EXCEPT !.kind = kind, !.text = text]

Spelled(syllables) == FlattenSeq(syllables)

(* first_syllable: the longest valid syllable a prefix of the text spells.   *)
FirstSyllable(letters) ==
    LET valid == {i \in 1..Len(letters) : SubSeq(letters, 1, i) \in Syllables}
    IN  IF valid = {} THEN <<>>
        ELSE SubSeq(letters, 1, CHOOSE i \in valid : \A j \in valid : j <= i)

Full(buf, family) == [kind |-> "full", of |-> buf, family |-> family]
Char(syllable) == [kind |-> "char", of |-> syllable, family |-> "pinyin"]

(* What rank_detailed may answer: a few candidates of the families.          *)
Ranked(buf) ==
    {<<>>, <<Full(buf, "pinyin")>>, <<Full(buf, "english"), Full(buf, "pinyin")>>}

(* The candidate list: the first full candidates, then the single characters *)
(* of the first syllable when more than that syllable is typed, then the     *)
(* remaining full candidates.                                                *)
Merged(full, chars) ==
    LET head == SubSeq(full, 1, IF Len(full) < HeadMax THEN Len(full) ELSE HeadMax)
    IN  head \o chars \o SubSeq(full, Len(head) + 1, Len(full))

Shown(m, cands) ==
    IF cands = <<>> THEN [m EXCEPT !.cand = <<>>, !.fresh = FALSE]
    ELSE [m EXCEPT !.cand = cands, !.fresh = TRUE, !.hl = 0, !.page = 0]

query_pinyin(m) ==
    LET first == FirstSyllable(m.buf)
        chars == IF first # <<>> /\ Len(first) < Len(m.buf)
                 THEN {<<>>, <<Char(first)>>} ELSE {<<>>}
    IN  {Shown(m, Merged(full, cs)) : full \in Ranked(m.buf), cs \in chars}

-----------------------------------------------------------------------------
(* Commands (#...): matching what is typed, and what the members predict.    *)

AfterName(buf) == {i \in 2..Len(buf) : buf[i] \in {"/", "#"}}
NameEnd(buf) == IF AfterName(buf) = {} THEN Len(buf)
                ELSE (CHOOSE i \in AfterName(buf) : \A j \in AfterName(buf) : i <= j) - 1
NameOf(buf) == SubSeq(buf, 2, NameEnd(buf))

Hints(buf) ==
    {n \in Commands : LET t == <<"#">> \o Triggers[n] IN IsStrictPrefix(buf, t)}

(* match_command: a snippet, the command whose name is typed, the commands   *)
(* the input may still become, or none.                                      *)
match_command(buf) ==
    IF Len(buf) >= 2 /\ buf[2] = "/" THEN [is |-> "snippet", cmd |-> "snippet"]
    ELSE LET exact == {n \in Commands :
                          /\ Triggers[n] = NameOf(buf)
                          /\ NameEnd(buf) = Len(buf) \/ buf[NameEnd(buf) + 1] = "/"}
         IN  IF Len(buf) >= 2 /\ exact # {}
             THEN LET n == CHOOSE n \in exact : TRUE
                  IN  [is |-> IF n \in Statics THEN "static" ELSE "live", cmd |-> n]
             ELSE IF Len(buf) >= 2 /\ Hints(buf) # {}
             THEN [is |-> "prefix", cmd |-> None]
             ELSE [is |-> "unknown", cmd |-> None]

(* ensure_command: the instance is kept while the same command is typed.     *)
ensure_command(m, n) == IF m.cmd.name = n THEN m.cmd ELSE Fresh(n)

Live(match) == match.is \in {"live", "snippet"}

(* The instance stays behind when its name is edited away.                   *)
MemberLingers(m, match) == IF Live(match) THEN ensure_command(m, match.cmd) ELSE m.cmd

(* The instance for the text in the buffer; clear_active_command otherwise.  *)
MemberFor(m, match) == IF Live(match) THEN ensure_command(m, match.cmd) ELSE NoMember

Text(of) == [kind |-> "text", of |-> of, family |-> None]
Prompt == [kind |-> "prompt", of |-> <<>>, family |-> None]
Hint(n) == [kind |-> "hint", of |-> <<"#">> \o Triggers[n], family |-> None]
Rollback(buf) == [kind |-> "rollback", of |-> buf, family |-> None]

(* predict() of #req: a new suffix drops a result that has arrived.          *)
ReqSees(member, buf) ==
    LET arg == SubSeq(buf, 2 + Len(Triggers["req"]), Len(buf))
    IN  IF member.arg = arg THEN member
        ELSE [member EXCEPT !.arg = arg,
                 !.status = IF @ = "done" THEN "idle" ELSE @]

(* w is what the members read of the world: the voice (the listener is       *)
(* connected and holds text) and the clipboard history.                      *)
Sees(member, buf, w) ==
    CASE member.name = "req" -> ReqSees(member, buf)
      [] member.name = "clip" -> [member EXCEPT !.asked = @ \/ ~w.clips]
      [] OTHER -> member

predict(member, buf, w) ==
    CASE member.name = "req" ->
            IF member.status = "done" THEN <<Text(member.body)>> ELSE <<Prompt>>
      [] member.name = "asr" -> IF w.voice = "text" THEN <<Text(buf)>> ELSE <<Prompt>>
      [] member.name = "clip" -> IF w.clips THEN <<Text(buf)>> ELSE <<Prompt>>
      [] member.name = "snippet" -> IF Len(buf) > 2 THEN <<Text(buf)>> ELSE <<Prompt>>
      [] OTHER -> <<>>

(* rebuild_magic_view: predictions, completions, and last what was typed.    *)
rebuild_magic_view(m, options) ==
    [m EXCEPT !.cand = Append(options, Rollback(m.buf)), !.fresh = TRUE,
              !.hl = 0, !.page = 0]

query_magic(m, w) ==
    LET match == match_command(m.buf)
        old   == MemberFor(m, match)
        new   == Sees(old, m.buf, w)
        options ==
            CASE Live(match) -> predict(new, m.buf, w)
              [] match.is = "static" -> <<Text(m.buf)>>
              [] match.is = "prefix" -> SetToSeq({Hint(n) : n \in Hints(m.buf)})
              [] OTHER -> <<>>
        sel == \/ match.is = "prefix"
               \/ match.is \in {"live", "static"} /\ NameEnd(m.buf) = Len(m.buf)
    IN  [Handled(rebuild_magic_view([m EXCEPT !.cmd = new, !.sel = sel], options))
            EXCEPT !.send = IF new.asked /\ ~old.asked THEN <<"clip">> ELSE <<>>]

(* fire(): the request for the suffix is on its way.                         *)
pick(member) == IF member.name = "req" /\ member.status = "idle"
                THEN [member EXCEPT !.status = "flight"] ELSE member

(* A prompt is committed like any text.                                      *)
SelectAsText(m, i, w) ==
    LET c == m.cand[i + 1] IN
    IF c.kind = "hint" THEN query_magic([m EXCEPT !.buf = c.of], w)
    ELSE Commit(reset(m), IF c.kind = "prompt" THEN "prompt" ELSE "magic", c.of)

select_magic(m, i, w) ==
    LET c == m.cand[i + 1] IN
    CASE c.kind = "prompt" ->
            LET fired == pick(m.cmd)
                asked == query_magic([m EXCEPT !.cmd = fired], w)
            IN  IF fired # m.cmd THEN [asked EXCEPT !.send = Append(@, "req")] ELSE asked
      [] c.kind = "hint" -> query_magic([m EXCEPT !.buf = c.of], w)
      [] OTHER -> Commit(reset(m), "magic", c.of)

-----------------------------------------------------------------------------
(* select(): a full candidate commits the characters picked so far with it;  *)
(* a single character is added to them and its syllable leaves the buffer.   *)
select(m, i) ==
    IF i >= Len(m.cand) THEN {Handled(m)}
    ELSE LET c == m.cand[i + 1]
             pinyin == IF m.com = <<>> THEN m.buf ELSE m.cpy \o m.buf
             text == Append(m.com, c.of)
             first == FirstSyllable(m.buf)
             picked == [m EXCEPT !.com = text,
                                 !.buf = SubSeq(@, Len(first) + 1, Len(@)),
                                 !.cpy = @ \o first, !.fresh = FALSE, !.hl = 0]
         IN  IF c.kind = "char"
             THEN {[Handled(q) EXCEPT !.taught = {<<first, c.of>>}] : q \in query_pinyin(picked)}
             ELSE {[Commit(reset(m),
                           CASE c.kind = "full" -> "pick" [] c.kind = "prompt" -> "prompt"
                             [] OTHER -> "magic", Spelled(text))
                    EXCEPT !.family = c.family,
                           !.taught = IF c.family = "pinyin" \/ m.com # <<>>
                                      THEN {<<pinyin, Spelled(text)>>} ELSE {}]}

(* Backspace in pinyin: an already picked character is undone first.         *)
pinyin_backspace(m) ==
    IF m.com # <<>>
    THEN LET syl == FirstSyllable(m.cpy)
             kept == IF Len(syl) > Len(m.cpy) THEN 0 ELSE Len(m.cpy) - Len(syl)
         IN  {Handled(q) : q \in query_pinyin(
                [m EXCEPT !.com = Front(@), !.cpy = SubSeq(@, 1, kept),
                          !.buf = syl \o @, !.fresh = FALSE])}
    ELSE IF Len(m.buf) = 1 THEN {Handled(reset(m))}
    ELSE {Handled(q) : q \in query_pinyin([m EXCEPT !.buf = Front(@), !.fresh = FALSE])}

(* Enter forgets what was picked.                                            *)
EnterDropsPicked(m) == Commit(reset(m), "raw", m.buf)

pinyin_enter(m) == Commit(reset(m), "raw", Spelled(m.com) \o m.buf)

(* Leaving the composition without reset(): what was picked is taken, the    *)
(* pinyin of what was picked, the highlight and the page stay.               *)
Leave(m) == [m EXCEPT !.st = "Idle", !.buf = <<>>, !.com = <<>>, !.cand = <<>>,
                      !.fresh = FALSE]

pinyin_space(m) ==
    IF ~m.fresh THEN {Commit(Leave(m), "raw", Spelled(m.com) \o m.buf)}
    ELSE select([m EXCEPT !.fresh = FALSE], IF m.hl < Len(m.cand) THEN m.hl ELSE Len(m.cand) - 1)

(* Any other character ends the word: the first candidate and the character. *)
(* When no family ranks anything for the letters, the first candidate is a   *)
(* single character, and the letters behind its syllable are cut off.        *)
pinyin_terminator(m) ==
    LET cut == m.fresh /\ m.cand[1].kind = "char"
    IN  Commit(Leave(m), IF cut THEN "cut" ELSE "ended",
               Spelled(m.com) \o (IF m.fresh THEN m.cand[1].of ELSE m.buf))

handle_pinyin(m, key) ==
    CASE key = "Backspace" -> pinyin_backspace(m)
      [] key = "Enter" -> {pinyin_enter(m)}
      [] key = "Space" -> pinyin_space(m)
      [] key \in Letters ->
            {Handled(q) : q \in query_pinyin([m EXCEPT !.buf = Append(@, key), !.fresh = FALSE])}
      [] OTHER -> {pinyin_terminator(m)}

Digit == [d \in {"1", "2"} |-> IF d = "1" THEN 1 ELSE 2]

(* A digit picks a candidate while the input cannot be continued with it.    *)
handle_snippet(m, key, w) ==
    CASE key = "Backspace" ->
            IF Len(m.buf) = 1 THEN Handled(reset(m))
            ELSE query_magic([m EXCEPT !.buf = Front(@)], w)
      [] key = "Enter" -> Commit(reset(m), "magic", m.buf)
      [] key = "Space" /\ m.cand = <<>> -> Commit(reset(m), "magic", m.buf)
      [] key = "Space" /\ m.cand # <<>> ->
            select_magic(m, IF m.hl < Len(m.cand) THEN m.hl ELSE Len(m.cand) - 1, w)
      [] key \in DOMAIN Digit /\ m.sel /\ Digit[key] <= Len(m.cand) ->
            select_magic(m, Digit[key] - 1, w)
      [] OTHER -> query_magic([m EXCEPT !.buf = Append(@, key)], w)

handle_idle(m, key) ==
    CASE key = "#" -> {Handled([m EXCEPT !.st = "Snippet", !.buf = <<key>>])}
      [] key \in Letters ->
            {Handled(q) : q \in query_pinyin(
                [m EXCEPT !.st = "Pinyin", !.buf = <<key>>, !.fresh = FALSE])}
      [] OTHER -> {Through(m)}

step(m, key, w) ==
    CASE m.st = "Idle" -> handle_idle(m, key)
      [] m.st = "Snippet" -> {handle_snippet(m, key, w)}
      [] m.st = "Pinyin" -> handle_pinyin(m, key)

-----------------------------------------------------------------------------
(* The routing table.  Flags are what it looks up.                           *)
Composing(m) == m.st # "Idle" \/ m.buf # <<>>
PanelOpen(m) == m.cand # <<>>

Clamp(x, lo, hi) == IF x < lo THEN lo ELSE IF x > hi THEN hi ELSE x

move_highlight(m, d) ==
    LET to == Clamp(m.hl + d, 0, Len(m.cand) - 1)
    IN  [m EXCEPT !.hl = to, !.page = to \div PageSize]

change_page(m, d) ==
    LET pages == (Len(m.cand) + PageSize - 1) \div PageSize
        to == Clamp(m.page + d, 0, pages - 1)
    IN  IF pages <= 1 \/ to = m.page THEN m
        ELSE [m EXCEPT !.page = to, !.hl = to * PageSize]

(* The keys: "Ctrl" stands for every key that is always the application's.   *)
OtherKeys == DOMAIN Digit \cup {"#", "/", "Space", "Enter", "Backspace", "Escape",
                                "Up", "Down", "PageUp", "PageDown", "Ctrl"}
Keys == Letters \cup OtherKeys

(* Nor is a letter one of the events that are no keys.                       *)
ASSUME LetterAssumption == Letters \cap (OtherKeys \cup {"click", "reset", "leave"}) = {}

route(m, key, w) ==
    CASE key = "Ctrl" -> {Through(m)}
      [] m.st = "Snippet" /\ key \in DOMAIN Digit -> step(m, key, w)
      [] key \in {"Space", "Enter", "Backspace"} ->
            IF Composing(m) THEN step(m, key, w) ELSE {Through(m)}
      [] key = "Escape" ->
            IF Composing(m) THEN {Handled(reset(m))} ELSE {Through(m)}
      [] m.st # "Snippet" /\ key \in DOMAIN Digit ->
            LET i == m.page * PageSize + Digit[key] - 1
            IN  IF i < Len(m.cand) THEN select(m, i) ELSE {Through(m)}
      [] key \in {"Up", "Down"} ->
            IF PanelOpen(m)
            THEN {Handled(move_highlight(m, IF key = "Up" THEN -1 ELSE 1))}
            ELSE {Through(m)}
      [] key \in {"PageUp", "PageDown"} ->
            IF PanelOpen(m)
            THEN {Handled(change_page(m, IF key = "PageUp" THEN -1 ELSE 1))}
            ELSE {Through(m)}
      [] OTHER -> step(m, key, w)

(* commit_pending_ctx: what leaving the input field gives the application:   *)
(* the first candidate, or else the letters; nothing of what was picked.     *)
Pending(m) ==
    CASE m.cand # <<>> ->
            [kind |-> IF m.cand[1].kind = "prompt" THEN "prompt" ELSE "pending",
             text |-> m.cand[1].of]
      [] m.cand = <<>> /\ m.st = "Pinyin" -> [kind |-> "pending", text |-> m.buf]
      [] OTHER -> [kind |-> None, text |-> <<>>]
=============================================================================
