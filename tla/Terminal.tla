------------------------------ MODULE Terminal ------------------------------
(* The terminal that the visual scout makes for a session by default:        *)
(* MultiScreenPlatform (packages/platform/src/multi-screen.ts), a login and  *)
(* a home screen with fields, buttons and links in one column; what a        *)
(* request does to it (packages/scout/src/session.ts); and the marks that an *)
(* agent puts on its elements (packages/som/src/annotate.ts).                *)
(* Of a text only matters whether it is empty; notices are left out.         *)
EXTENDS Integers, Sequences

NewTerminal == [screen |-> "login", filled |-> {}, focused |-> "none"]

(* Without a native layer, as the scout server makes it, every method of     *)
(* this one fails.                                                           *)
DesktopPlatform == [NewTerminal EXCEPT !.screen = "desktop"]

(* resolveBackend: what the client hints at, or the server's default.        *)
Backends == {NewTerminal, DesktopPlatform}

Element(id, y, height) == [id |-> id, y |-> y, height |-> height]

loginElements == <<Element("username", 315, 52), Element("password", 415, 52),
                   Element("login", 500, 54), Element("forgot", 575, 28)>>
homeElements == <<Element("articles", 320, 40), Element("profile", 380, 40),
                  Element("logout", 700, 54)>>

elements(t) == IF t.screen = "login" THEN loginElements ELSE homeElements

centerOf(e) == e.y + e.height \div 2
contains(e, y) == y \in e.y..e.y + e.height

(* What a screenshot shows.                                                  *)
render(t) ==
    IF t.screen = "login" THEN <<"login", t.filled, t.focused>>
    ELSE <<"home", t.filled \cap {"username"}>>

-----------------------------------------------------------------------------
(* The inputs.                                                               *)
attemptLogin(t) ==
    IF t.filled = {"username", "password"}
    THEN [t EXCEPT !.screen = "home", !.focused = "none"] ELSE t

(* A click has an effect where an element of the screen is.                  *)
performClick(t, y) ==
    LET hit == {elements(t)[i].id : i \in {j \in DOMAIN elements(t) : contains(elements(t)[j], y)}}
    IN  CASE "username" \in hit -> [t EXCEPT !.focused = "username"]
          [] "password" \in hit -> [t EXCEPT !.focused = "password"]
          [] "login" \in hit    -> attemptLogin(t)
          [] "forgot" \in hit   -> [t EXCEPT !.focused = "none"]
          [] "logout" \in hit   -> NewTerminal
          [] OTHER              -> t

performType(t) ==
    IF t.screen # "login" \/ t.focused = "none" THEN t
    ELSE [t EXCEPT !.filled = @ \cup {t.focused}]

performKeypress(t, keys) ==
    IF t.screen = "login" /\ keys = "Return" THEN attemptLogin(t) ELSE t

(* dispatch: the terminal afterwards, and the type and body of the reply.    *)
dispatch(t, request) ==
    CASE t.screen = "desktop"        -> [after |-> t, type |-> "ERROR", body |-> <<>>]
      [] request.method = "capture"  -> [after |-> t, type |-> "BLOB", body |-> render(t)]
      [] request.method = "elements" -> [after |-> t, type |-> "RESULT", body |-> elements(t)]
      [] request.method = "click"    -> [after |-> performClick(t, request.y),
                                         type |-> "RESULT", body |-> <<"ok">>]
      [] request.method = "type"     -> [after |-> performType(t), type |-> "RESULT", body |-> <<"ok">>]
      [] request.method = "scroll"   -> [after |-> t, type |-> "RESULT", body |-> <<"ok">>]
      [] request.method = "keypress" -> [after |-> performKeypress(t, request.keys),
                                         type |-> "RESULT", body |-> <<"ok">>]

-----------------------------------------------------------------------------
(* annotate: the first elements of the list get the marks 1, 2, ...          *)
MaxElements == 50
annotate(list) == SubSeq(list, 1, IF Len(list) < MaxElements THEN Len(list) ELSE MaxElements)

(* The requests a tool call makes, by the marks of this step; a mark that is *)
(* not among them fails before the first.                                    *)
requests(tool, table) ==
    IF tool.name = "keypress" THEN <<[method |-> "keypress", keys |-> tool.keys]>>
    ELSE IF tool.mark \notin DOMAIN table THEN <<>>
    ELSE LET y == centerOf(table[tool.mark])
         IN  CASE tool.name = "click"  -> <<[method |-> "click", y |-> y]>>
               [] tool.name = "type"   -> <<[method |-> "click", y |-> y], [method |-> "type"]>>
               [] tool.name = "scroll" -> <<[method |-> "scroll"]>>
=============================================================================
