------------------------------- MODULE Display -------------------------------
(***************************************************************************)
(* The touch display: pages are fetched from a web server, the tags in     *)
(* their comments ($ type parameters $) become the lines of a list, and    *)
(* the lines become widgets in a tree of the graphics library.             *)
(*                                                                         *)
(* Two tasks load pages: the graphic task when a button or a link is       *)
(* pressed, and the link monitor, which loads the menu at start-up and     *)
(* whenever the link comes back.  The kernel does not preempt, so what     *)
(* runs between two calls of the network interface is one step.            *)
(*                                                                         *)
(* A page is a sequence of tokens: a delimiter, a tag with its parameters, *)
(* any other text.  Widgets are identified by what they belong to: an      *)
(* address that is freed and allocated again while a line is drawn anew is *)
(* the same one, which heap_2 grants.  What a walk or an access through a  *)
(* wrong pointer does afterwards is not modelled: nothing follows a fault. *)
(***************************************************************************)
EXTENDS Naturals, Sequences, SequencesExt, FiniteSetsExt

CONSTANTS
    Pages,                  (* What the server may render of each page, by *)
                            (* its name: sequences of tags.  An input the  *)
                            (* machine does not answer is not among them.  *)
    Tag,                    (* The type of each tag, and the page a link   *)
                            (* leads to: [type, value].                    *)
    DEFAULT_MENU_PAGE, DEFAULT_SET_PAGE,
    DISPLAY_LINES_PER_VIEW,
    HTTPC_BUFFER_LEN,
    MAX_LINES,              (* Lines there is memory for.                  *)
    SEGMENTS,               (* Lengths of TCP segments, besides all that   *)
                            (* is left of a page.                          *)
    MAX_OFFSET,             (* Bounds the presses of the down button.      *)
    MAX_LOADS               (* Bounds the pages each task loads.           *)

Tasks == {"graphic", "lwip"}

\* The types that are rendered as tags.
TagTypes == {"IntegerInputField", "FloatInputField", "TimeInputField", "CheckboxInputField",
             "SubmitInputField", "Hyperlink", "Titel", "Group"}

ASSUME DisplayAssumption ==
    /\ DEFAULT_MENU_PAGE \in DOMAIN Pages /\ DEFAULT_SET_PAGE \in DOMAIN Pages
    /\ \A p \in DOMAIN Pages : \A tags \in Pages[p] : tags \in Seq(DOMAIN Tag)
    /\ \A tags \in Pages[DEFAULT_SET_PAGE] : \A k \in DOMAIN tags :
           Tag[tags[k]].type # "SubmitInputField"
    /\ {"$", "text", "free"} \cap DOMAIN Tag = {}
    /\ \A t \in DOMAIN Tag : Tag[t].type \in TagTypes
    /\ \A t \in DOMAIN Tag : Tag[t].type = "Hyperlink" => Tag[t].value \in DOMAIN Pages
    /\ DISPLAY_LINES_PER_VIEW \in Nat \ {0}
    /\ HTTPC_BUFFER_LEN \in Nat \ {0, 1} /\ SEGMENTS \subseteq Nat \ {0}
    /\ MAX_LINES \in Nat /\ MAX_OFFSET \in Nat /\ MAX_LOADS \in [Tasks -> Nat]

Lines == 1 .. MAX_LINES
Free  == "free"     (* The tag of a line whose memory is free.             *)

None  == <<"none", 0>>
Menu  == <<"menu", 0>>
Save  == <<"save", 0>>
Up    == <<"up", 0>>
Down  == <<"down", 0>>
Title == <<"title", 0>>
Label(l) == <<"label", l>>
Value(l) == <<"value", l>>
Widgets == {Menu, Save, Up, Down, Title} \cup { Label(l) : l \in Lines }
             \cup { Value(l) : l \in Lines }

VARIABLES
    display,      (* xDisplayRoot, its lines and the tree of xParentWidget:*)
                  (*   initialized, menue, save, title,                    *)
                  (*   entities, displayEntities  the list of lines        *)
                  (*   offset                     elementOffset            *)
                  (*   tag, pool                  lines in use, and free   *)
                  (*   drawn                      lines that have widgets  *)
                  (*   row, click                 of the value's widget:   *)
                  (*                              its row, its pfnOnClick  *)
                  (*   chain                      its children, by pChild  *)
                  (*                              and pNext                *)
                  (*   loose                      pNext of other widgets   *)
                  (*   up                         those with a pParent     *)
                  (*   fault                      what the program died of *)
    top,          (* The children of WIDGET_ROOT: the page, the editor.    *)
    paint,        (* A request to paint the page is queued.                *)
    aktElement,   (* The line in the editor, 0 if none was.                *)
    keys,         (* The buttons of the editor.                            *)
    load,         (* Of each task: where vLoadWebPage stands.              *)
    loads,        (* The pages each task began to load.                    *)
    got,          (* History: what was received of the page last drawn:    *)
                  (* its tags, how many tokens, and why it was loaded.     *)
    paged,        (* History: a page button was pressed.                   *)
    overlap       (* History: the link monitor was loading while the       *)
                  (* graphic task was not waiting on a page.               *)

vars == <<display, top, paint, aktElement, keys, load, got, loads, paged, overlap>>

-----------------------------------------------------------------------------
(* The tree of widgets (grlib/widget.c). *)

Linked(d) == ToSet(d.chain)

\* A walk through the children of xParentWidget goes back to it by the pParent
\* of the last child, and leaves the tree when that is NULL.
LeavesTree(d) == d.chain # <<>> /\ Last(d.chain) \notin d.up

Fault(d, what) == IF d.fault = "none" THEN [d EXCEPT !.fault = what] ELSE d

Place(s, w) == CHOOSE k \in DOMAIN s : s[k] = w

Without(s, w) == IF w \in ToSet(s) THEN RemoveAt(s, Place(s, w)) ELSE s

\* pNext of a widget.
Behind(d, w) ==
    IF w \notin Linked(d) THEN d.loose[w]
    ELSE IF w = Last(d.chain) THEN None
    ELSE d.chain[Place(d.chain, w) + 1]

\* Clears pNext and pParent, wherever the widget is linked: the widgets behind
\* it are cut off, still linked to each other.
Reset(d, w) ==
    LET kept == IF w \in Linked(d) THEN SubSeq(d.chain, 1, Place(d.chain, w)) ELSE d.chain
        lost == Linked(d) \ ToSet(kept)
    IN [d EXCEPT !.chain = kept,
                 !.loose = [v \in Widgets |-> IF v \in lost THEN Behind(d, v)
                                              ELSE IF v = w THEN None ELSE @[v]],
                 !.up = @ \ {w}]

\* The widgets that still hang behind a widget outside the tree.
Hanging(d, w) ==
    LET tail[v \in Widgets] ==
            IF d.loose[v] = None THEN <<v>> ELSE <<v>> \o tail[d.loose[v]]
    IN tail[w]

\* What hangs behind a widget comes into the tree with it, and when that is
\* there already the children form a ring.
WidgetAdd(d, w) ==
    LET tail  == Hanging(d, w)
        added == [d EXCEPT !.up = @ \cup {w}]
    IN IF w \in Linked(d) THEN added
       ELSE IF ToSet(tail) \cap Linked(d) # {} THEN Fault(added, "ring")
       ELSE [added EXCEPT !.chain = @ \o tail,
                 !.loose = [v \in Widgets |-> IF v \in ToSet(tail) THEN None ELSE @[v]]]

\* The further walk for the widget that has the pointer starts at the root, where
\* a last child without pParent ends it; all it can do is to take the pointer
\* away, which a press does not need.
WidgetRemove(d, w) ==
    IF w \notin d.up THEN d
    ELSE IF w \in Linked(d) THEN [d EXCEPT !.chain = Without(@, w)]
    ELSE IF LeavesTree(d) THEN Fault(d, "walk")
    ELSE d

-----------------------------------------------------------------------------
(* The lines of a page. *)

Type(d, l) == IF d.tag[l] = Free THEN Free ELSE Tag[d.tag[l]].type

HasValue(type) == type \notin {"Group", Free}

\* vDeleteDisplayLine
DeleteLine(d, l) ==
    LET a == IF l \in d.drawn THEN WidgetRemove(d, Label(l)) ELSE d
        b == IF l \in d.drawn /\ HasValue(Type(d, l))
             THEN WidgetRemove(a, Value(l)) ELSE a
    IN [b EXCEPT !.tag[l] = Free, !.drawn = @ \ {l}, !.pool = <<l>> \o @,
                 !.row[l] = 0, !.click[l] = Free, !.loose[Label(l)] = None, !.loose[Value(l)] = None,
                 !.up = @ \ {Label(l), Value(l)}]

\* The lines of the list, one after the other.
DeleteLines(d) ==
    LET left[k \in 0 .. Len(d.entities)] ==
            IF k = 0 THEN d ELSE DeleteLine(left[k - 1], d.entities[k])
    IN left[Len(d.entities)]

\* Mutant: with the list marked as valid still.
ClearDisplayButFlag(d) ==
    [(IF d.displayEntities THEN DeleteLines(d) ELSE d) EXCEPT !.save = FALSE, !.offset = 0]

\* Mutant: with the save button left for the next page.
ClearDisplayButSave(d) ==
    [(IF d.displayEntities THEN DeleteLines(d) ELSE d)
        EXCEPT !.displayEntities = FALSE, !.offset = 0]

ClearDisplay(d) ==
    [(IF d.displayEntities THEN DeleteLines(d) ELSE d)
        EXCEPT !.displayEntities = FALSE, !.save = FALSE, !.offset = 0]

InsertIntoList(d, l) ==
    [d EXCEPT !.entities = IF d.displayEntities THEN Append(@, l) ELSE <<l>>,
              !.displayEntities = TRUE]

\* The new line is not drawn yet.
CreateNewEntity(d, t) ==
    IF d.pool = <<>> THEN Fault(d, "memory")
    ELSE LET l == Head(d.pool)
         IN InsertIntoList([d EXCEPT !.tag[l] = t, !.pool = Tail(@)], l)

\* The server renders an input with all its parameters or not as a tag at all.
InputOnLoad(d, t) == CreateNewEntity(d, t)

GroupOnLoad(d, t) == CreateNewEntity(d, t)

\* A link to the menu is not a line but the menu button.
HyperlinkOnLoad(d, t) ==
    IF Tag[t].value = DEFAULT_MENU_PAGE THEN [d EXCEPT !.menue = TRUE]
    ELSE CreateNewEntity(d, t)

TitleOnLoad(d, t) == [d EXCEPT !.title = t]

SubmitButtonOnLoad(d) == [d EXCEPT !.save = TRUE]

\* vParseParameter finds the tag by the first word, and calls its onLoad.
ParseParameter(d, buffer) ==
    IF buffer = <<>> \/ Head(buffer) \notin DOMAIN Tag THEN d
    ELSE LET t == Head(buffer)
         IN CASE Tag[t].type = "Titel"            -> TitleOnLoad(d, t)
              [] Tag[t].type = "SubmitInputField" -> SubmitButtonOnLoad(d)
              [] Tag[t].type = "Hyperlink"        -> HyperlinkOnLoad(d, t)
              [] Tag[t].type = "Group"            -> GroupOnLoad(d, t)
              [] OTHER                            -> InputOnLoad(d, t)

\* Mutant: with the buffer filled on behind the last tag.
ParseTokenOn(p, token) ==
    IF token = "$" THEN
        IF p.output
        THEN [p EXCEPT !.output = FALSE, !.d = ParseParameter(@, p.buffer)]
        ELSE [p EXCEPT !.output = TRUE]
    ELSE IF p.output THEN [p EXCEPT !.buffer = Append(@, token)]
    ELSE p

\* One token of what was received: a delimiter begins a tag or ends it.
ParseToken(p, token) ==
    IF Len(p.buffer) >= HTTPC_BUFFER_LEN THEN p
    ELSE IF token = "$" THEN
        IF p.output
        THEN [p EXCEPT !.output = FALSE, !.d = ParseParameter(@, p.buffer)]
        ELSE [p EXCEPT !.output = TRUE, !.buffer = <<>>]
    ELSE IF p.output THEN [p EXCEPT !.buffer = Append(@, token)]
    ELSE p

\* What task t makes of n tokens of a text, from behind the first ones.
Parse(t, text, first, n) ==
    LET parsed[k \in 0 .. n] ==
            IF k = 0
            THEN [d |-> display, output |-> load[t].output, buffer |-> load[t].buffer]
            ELSE ParseToken(parsed[k - 1], text[first + k])
    IN parsed[n]

-----------------------------------------------------------------------------
(* Drawing. *)

LabelWidget(d, l) == [Reset(d, Label(l)) EXCEPT !.drawn = @ \cup {l}]

NewValueWidget(d, l, row, action) ==
    [Reset(d, Value(l)) EXCEPT !.row[l] = row, !.click[l] = action]

IntegerOnDisplay(d, l, row)   == NewValueWidget(d, l, row, "vOpenEditorAction")

FloatOnDisplay(d, l, row)     == NewValueWidget(d, l, row, "vOpenEditorAction")

TimeOnDisplay(d, l, row)      == NewValueWidget(d, l, row, "vOpenEditorAction")

\* Mutant: one row too low.
CheckboxOnDisplayLow(d, l, row) == NewValueWidget(d, l, row + 1, "vCheckboxAction")

CheckboxOnDisplay(d, l, row)  == NewValueWidget(d, l, row, "vCheckboxAction")

HyperlinkOnDisplay(d, l, row) == NewValueWidget(d, l, row, "vHyperlinkAction")

\* onDisplay, by the type of the line; a group has no value.
OnDisplay(d, l, row) ==
    CASE Type(d, l) = "IntegerInputField"  -> IntegerOnDisplay(d, l, row)
      [] Type(d, l) = "FloatInputField"    -> FloatOnDisplay(d, l, row)
      [] Type(d, l) = "TimeInputField"     -> TimeOnDisplay(d, l, row)
      [] Type(d, l) = "CheckboxInputField" -> CheckboxOnDisplay(d, l, row)
      [] Type(d, l) = "Hyperlink"          -> HyperlinkOnDisplay(d, l, row)

\* line is [id, row].
DrawLine(d, line) ==
    IF d.tag[line.id] = Free THEN Fault(d, "freed")
    ELSE LET labelled == WidgetAdd(LabelWidget(d, line.id), Label(line.id))
         IN IF HasValue(Type(d, line.id))
            THEN WidgetAdd(OnDisplay(labelled, line.id, line.row), Value(line.id))
            ELSE labelled

Skipped(d) == Min({d.offset, Len(d.entities) - 1})

InView(d) ==
    [k \in 1 .. Min({DISPLAY_LINES_PER_VIEW, Len(d.entities) - Skipped(d)}) |->
        [id |-> d.entities[Skipped(d) + k], row |-> k - 1]]

DrawButton(d, on, w) == IF on THEN WidgetAdd(d, w) ELSE WidgetRemove(d, w)

\* The lines in view, one after the other.
DrawLines(d) ==
    LET lines == InView(d)
        drawn[k \in 0 .. Len(lines)] ==
            IF k = 0 THEN d ELSE DrawLine(drawn[k - 1], lines[k])
    IN drawn[Len(lines)]

\* vDrawElementsOnDisplay, with the scheduler suspended.
DrawElements(d) ==
    LET head  == WidgetAdd(DrawButton(DrawButton(d, d.menue, Menu), d.save, Save), Title)
        upped == DrawButton(DrawLines(head), d.offset > 0, Up)
    IN IF d.displayEntities
       THEN DrawButton(upped, Skipped(d) + DISPLAY_LINES_PER_VIEW < Len(d.entities), Down)
       ELSE head

\* vInitializeParentWidget and those of its widgets.
InitTree(d) == [d EXCEPT !.chain = <<>>, !.up = {}]

InitDisplay(d) ==
    IF d.initialized THEN d
    ELSE InitTree([d EXCEPT !.initialized = TRUE, !.menue = TRUE, !.save = FALSE,
                            !.entities = <<>>, !.displayEntities = FALSE])

\* It also puts the page under the root, if it is not there.
Rooted == IF "page" \in ToSet(top) THEN top ELSE Append(top, "page")

-----------------------------------------------------------------------------
(* Loading a page (vLoadWebPage). *)

Idle == [pc |-> "idle", why |-> "none", page |-> DEFAULT_MENU_PAGE, tags |-> <<>>, pos |-> 0,
         last |-> 0, output |-> FALSE, buffer |-> <<>>]

\* The stream of a page: each tag stands in a comment, between delimiters.
Text(tags) ==
    [k \in 1 .. 3 * Len(tags) + 1 |->
        IF k > 3 * Len(tags) THEN "text"
        ELSE IF k % 3 = 2 THEN tags[(k + 1) \div 3]
        ELSE "$"]

\* The next step belongs to task t: it is not dead, and t is at pc.
At(t, pc) == display.fault = "none" /\ load[t].pc = pc

Busy(t) == load[t].pc # "idle"

NoteOverlap(t) ==
    overlap' = (overlap \/ (t = "lwip" /\ (Busy("graphic") \/ "editor" \in ToSet(top)))
                        \/ (t = "graphic" /\ Busy("lwip")))

\* vInitDisplay, and vLoadWebPage up to the first call of the network interface:
\* the old page is gone before anything of the new one is known.
StartLoad(t, why, page, d) ==
    /\ loads[t] < MAX_LOADS[t] /\ loads' = [loads EXCEPT ![t] = @ + 1]
    /\ display' = ClearDisplay(InitDisplay(d))
    /\ top' = Rooted
    /\ load' = [load EXCEPT ![t] = [Idle EXCEPT !.pc = "connect", !.why = why, !.page = page]]
    /\ NoteOverlap(t)
    /\ UNCHANGED <<paint, aktElement, keys, got, paged>>

Goto(t, pc) == load' = [load EXCEPT ![t].pc = pc]

\* The request is sent: the server renders the page.
ConnectSucceeds(t) ==
    /\ At(t, "connect")
    /\ \E tags \in Pages[load[t].page] :
           load' = [load EXCEPT ![t].pc = "recv", ![t].tags = tags]
    /\ UNCHANGED <<display, top, paint, aktElement, keys, got, paged, overlap, loads>>

\* No address of a server, no connection, or the request cannot be sent: a text
\* is shown, and the caller draws what there is.
ConnectFails(t) ==
    /\ At(t, "connect")
    /\ Goto(t, "close")
    /\ UNCHANGED <<display, top, paint, aktElement, keys, got, paged, overlap, loads>>

\* netconn_recv returns the next segment.
Receive(t) ==
    /\ At(t, "recv")
    /\ \E n \in { load[t].pos + k : k \in SEGMENTS } \cup { Len(Text(load[t].tags)) } :
         /\ n > load[t].pos /\ n <= Len(Text(load[t].tags))
         /\ LET p == Parse(t, Text(load[t].tags), load[t].pos, n - load[t].pos)
            IN /\ display' = p.d
               /\ load' = [load EXCEPT ![t].pos = n, ![t].last = n - load[t].pos,
                               ![t].output = p.output, ![t].buffer = p.buffer]
    /\ UNCHANGED <<top, paint, aktElement, keys, got, paged, overlap, loads>>

\* netconn_recv returns NULL, netbuf_data leaves the pointer and the length alone,
\* and what they say is parsed once more: the last segment, whose memory may hold
\* something else by now, or anything at all if there was none.
ConnectionEnds(t) ==
    /\ At(t, "recv")
    /\ \/ /\ load[t].pos > 0
          /\ display' = Parse(t, Text(load[t].tags),
                              load[t].pos - load[t].last, load[t].last).d
       \/ UNCHANGED display
       \/ load[t].pos = 0 /\ display' = Fault(display, "wild")
    /\ Goto(t, "close")
    /\ UNCHANGED <<top, paint, aktElement, keys, got, paged, overlap, loads>>

\* The connection is deleted, and the caller goes on: the menu hides its own
\* button; the button that was pressed is initialised again after it was drawn.
EndLoad(t) ==
    /\ At(t, "close")
    /\ LET d == IF load[t].why \in {"menu", "boot"} THEN [display EXCEPT !.menue = FALSE] ELSE display
           drawn == DrawElements(d)
       IN display' = CASE load[t].why = "menu"  -> Reset(drawn, Menu)
                       [] load[t].why = "store" -> Reset(drawn, Save)
                       [] OTHER                 -> drawn
    /\ paint' = TRUE
    /\ got' = [tags |-> load[t].tags, pos |-> load[t].pos, why |-> load[t].why]
    /\ load' = [load EXCEPT ![t] = Idle]
    /\ UNCHANGED <<top, aktElement, keys, paged, overlap, loads>>

-----------------------------------------------------------------------------
(* The graphic task. *)

\* The widgets a press can reach.  The editor covers the page, unless the page
\* was put above it; a walk from the root ends early when it leaves the tree.
Reachable ==
    IF "page" \in ToSet(top) THEN Linked(display) ELSE {}

EditorReachable ==
    /\ "editor" \in ToSet(top)
    /\ top[1] = "editor" \/ ~LeavesTree(display)

\* The first widget in the chain that lies in a row is the one that is pressed.
Hit(row) ==
    LET places == { k \in DOMAIN display.chain :
                        /\ display.chain[k][1] = "value"
                        /\ display.row[display.chain[k][2]] = row }
    IN IF places = {} THEN None ELSE display.chain[Min(places)]

Pressable(w) == At("graphic", "idle") /\ w \in Reachable

\* vGraphicTask, before it waits for messages.
Boot ==
    /\ At("graphic", "boot")
    /\ display' = InitDisplay(display)
    /\ top' = Rooted
    /\ Goto("graphic", "idle")
    /\ UNCHANGED <<paint, aktElement, keys, got, paged, overlap, loads>>

\* The request to paint the page: a walk through its children.
Paint ==
    /\ At("graphic", "idle") /\ paint
    /\ display' = IF LeavesTree(display) THEN Fault(display, "walk") ELSE display
    /\ paint' = FALSE
    /\ UNCHANGED <<top, aktElement, keys, load, got, paged, overlap, loads>>

PressMenu ==
    /\ Pressable(Menu)
    /\ StartLoad("graphic", "menu", DEFAULT_MENU_PAGE, display)

\* The lines are read for the request, whether they are valid or not.
PressSave ==
    /\ Pressable(Save)
    /\ LET dead == \E k \in DOMAIN display.entities : display.tag[display.entities[k]] = Free
       IN StartLoad("graphic", "store", DEFAULT_SET_PAGE,
                    IF dead THEN Fault(display, "stale") ELSE display)

\* vPageUp and vPageDown draw the lines, and then initialise the button.
Page(w, offset) ==
    /\ display' = Reset(DrawElements(InitDisplay([display EXCEPT !.offset = offset])), w)
    /\ top' = Rooted
    /\ paint' = TRUE
    /\ paged' = TRUE
    /\ NoteOverlap("graphic")
    /\ UNCHANGED <<aktElement, keys, load, got, loads>>

PressUp ==
    /\ Pressable(Up)
    /\ display.offset > 0
    /\ Page(Up, display.offset - 1)

PressDown ==
    /\ Pressable(Down)
    /\ display.offset < MAX_OFFSET
    /\ Page(Down, display.offset + 1)

\* The handlers look for the line of the widget in the list, which may be stale.
Found(l) ==
    \E k \in DOMAIN display.entities :
        /\ display.entities[k] = l
        /\ \A j \in 1 .. k : display.tag[display.entities[j]] # Free

PressLink(l) ==
    /\ display.click[l] = "vHyperlinkAction" /\ Found(l)
    /\ StartLoad("graphic", "link", Tag[display.tag[l]].value,
                 [display EXCEPT !.menue = TRUE])

\* A time has a pair of buttons for the hours as well.
EditorButtons(type) ==
    {"increase2", "decrease2", "submit"}
      \cup IF type = "TimeInputField" THEN {"increase1", "decrease1"} ELSE {}

\* vOpenEditor: the editor's pointers are cleared, the page is taken off the
\* root if a walk from there reaches it, and the editor is put there.
OpenEditor(l) ==
    LET cut == IF "editor" \in ToSet(top) THEN SubSeq(top, 1, Place(top, "editor")) ELSE top
        off == IF LeavesTree(display) THEN cut ELSE Without(cut, "page")
    IN /\ display.click[l] = "vOpenEditorAction" /\ Found(l)
       /\ aktElement' = l
       /\ keys' = EditorButtons(Type(display, l))
       /\ top' = IF "editor" \in ToSet(off) THEN off ELSE Append(off, "editor")
       /\ NoteOverlap("graphic")
       /\ UNCHANGED <<display, paint, load, got, paged, loads>>

PressRow ==
    \E row \in 0 .. DISPLAY_LINES_PER_VIEW - 1 :
        /\ Hit(row) # None /\ Pressable(Hit(row))
        /\ PressLink(Hit(row)[2]) \/ OpenEditor(Hit(row)[2])

\* The buttons of the editor change the value of the line.
ChangeValue ==
    /\ At("graphic", "idle") /\ EditorReachable
    /\ keys \ {"submit"} # {}
    /\ display' = IF display.tag[aktElement] = Free THEN Fault(display, "freed") ELSE display
    /\ NoteOverlap("graphic")
    /\ UNCHANGED <<top, paint, aktElement, keys, load, got, paged, loads>>

\* vExitEditor
ExitEditor ==
    /\ At("graphic", "idle") /\ EditorReachable /\ "submit" \in keys
    /\ LET rest == Without(top, "editor")
       IN top' = IF "page" \in ToSet(rest) THEN rest ELSE Append(rest, "page")
    /\ paint' = TRUE
    /\ NoteOverlap("graphic")
    /\ UNCHANGED <<display, aktElement, keys, load, got, paged, loads>>

-----------------------------------------------------------------------------
(* The link monitor loads the menu when there is a link. *)

LoadMenu ==
    /\ At("lwip", "idle")
    /\ StartLoad("lwip", "boot", DEFAULT_MENU_PAGE, display)

Init ==
    /\ display = [initialized |-> FALSE, menue |-> FALSE, save |-> FALSE, title |-> Free,
                  entities |-> <<>>, displayEntities |-> FALSE, offset |-> 0,
                  tag |-> [l \in Lines |-> Free], pool |-> [l \in Lines |-> l],
                  drawn |-> {}, row |-> [l \in Lines |-> 0],
                  click |-> [l \in Lines |-> Free],
                  chain |-> <<>>, loose |-> [w \in Widgets |-> None], up |-> {},
                  fault |-> "none"]
    /\ top = <<>>
    /\ paint = FALSE
    /\ aktElement = 0
    /\ keys = {}
    /\ load = [t \in Tasks |-> [Idle EXCEPT !.pc = IF t = "graphic" THEN "boot" ELSE "idle"]]
    /\ got = [tags |-> <<>>, pos |-> 0, why |-> "none"]
    /\ loads = [t \in Tasks |-> 0]
    /\ paged = FALSE
    /\ overlap = FALSE

LoadStep(t) ==
    \/ ConnectSucceeds(t)
    \/ ConnectFails(t)
    \/ Receive(t)
    \/ ConnectionEnds(t)
    \/ EndLoad(t)

Touch ==
    \/ PressMenu \/ PressSave \/ PressUp \/ PressDown \/ PressRow
    \/ ChangeValue \/ ExitEditor

Next ==
    \/ \E t \in Tasks : LoadStep(t)
    \/ Boot
    \/ Paint
    \/ Touch
    \/ LoadMenu

Spec == Init /\ [][Next]_vars

-----------------------------------------------------------------------------
(* Properties. *)

\* The tags that make a line.
IsLine(t) ==
    /\ Tag[t].type \notin {"Titel", "SubmitInputField"}
    /\ ~(Tag[t].type = "Hyperlink" /\ Tag[t].value = DEFAULT_MENU_PAGE)

\* The tags of a page whose closing delimiter is among the tokens received.
Arrived(g) == { k \in DOMAIN g.tags : 3 * k <= g.pos }

Displays ==
    [initialized : BOOLEAN, menue : BOOLEAN, save : BOOLEAN, title : DOMAIN Tag \cup {Free},
     entities : Seq(Lines), displayEntities : BOOLEAN, offset : 0 .. MAX_OFFSET,
     tag : [Lines -> DOMAIN Tag \cup {Free}], pool : Seq(Lines), drawn : SUBSET Lines,
     row : [Lines -> 0 .. DISPLAY_LINES_PER_VIEW],
     click : [Lines -> {Free, "vOpenEditorAction", "vCheckboxAction", "vHyperlinkAction"}],
     chain : Seq(Widgets), loose : [Widgets -> Widgets \cup {None}], up : SUBSET Widgets,
     fault : {"none", "walk", "ring", "memory", "freed", "stale", "wild"}]

LoadStates ==
    [pc : {"boot", "idle", "connect", "recv", "close"},
     why : {"none", "menu", "store", "link", "boot"}, page : DOMAIN Pages,
     tags : Seq(DOMAIN Tag), pos : Nat, last : Nat, output : BOOLEAN,
     buffer : Seq(DOMAIN Tag \cup {"$", "text"})]

TypeOK ==
    /\ display \in Displays
    /\ top \in {<<>>, <<"page">>, <<"editor">>, <<"page", "editor">>, <<"editor", "page">>}
    /\ aktElement \in Lines \cup {0}
    /\ keys \subseteq {"increase1", "decrease1", "increase2", "decrease2", "submit"}
    /\ load \in [Tasks -> LoadStates]
    /\ loads \in [Tasks -> Nat]
    /\ got \in [tags : Seq(DOMAIN Tag), pos : Nat, why : {"none", "menu", "store", "link", "boot"}]
    /\ {paint, paged, overlap} \subseteq BOOLEAN

\* The tree is walked after every page that was drawn, and lines are removed and
\* drawn anew at every load: as long as the tasks do not overlap and no page
\* button was pressed, no walk leaves the tree or goes round in it.  (vPageDown
\* clears the pointers of a button that it may just have linked; and what is
\* drawn again while it is linked cuts off the buttons that the other task's
\* page put behind it, see README.)
WalksStayInTree == display.fault \in {"walk", "ring"} => paged \/ overlap

\* Whatever is pressed, loaded and lost, the children form a list that ends.
TreeIsIntact == TypeOK /\ WalksStayInTree

\* Memory of a line that is free is drawn or changed in the editor only if the
\* tasks overlapped or a page button was pressed; the list that is sent to be
\* stored is a freed one only then, or if no line at all came with the page that
\* the save button belongs to (its inputs are not rendered when the machine does
\* not answer).
StaleLinesNeedMonitor ==
    /\ display.fault = "freed" => overlap \/ paged
    /\ display.fault = "stale" => overlap \/ paged \/ ~\E k \in Arrived(got) : IsLine(got.tags[k])

\* What is linked can be painted: every widget belongs to a line in use, although
\* lines are freed by both tasks and at every load.
LinkedWidgetsLive ==
    \A w \in Linked(display) : w[1] \in {"label", "value"} => w[2] \in display.drawn

\* The lines that are linked can be painted, and a press on a row opens the line
\* that is shown there.
PressOpensShownLine ==
    (display.fault = "none" /\ ~paged) =>
        /\ LinkedWidgetsLive
        /\ \A row \in 0 .. DISPLAY_LINES_PER_VIEW - 1 :
               Hit(row) # None =>
                   \E line \in ToSet(InView(display)) : line.row = row /\ Hit(row) = Value(line.id)

Calm == ~overlap /\ display.fault = "none" /\ got.why # "none"
          /\ \A t \in Tasks : ~Busy(t)

\* The tags that make a line, among the first ones of a page.
LinesOf(tags) ==
    LET lines[n \in 0 .. Len(tags)] ==
            IF n = 0 THEN <<>>
            ELSE IF IsLine(tags[n]) THEN Append(lines[n - 1], tags[n]) ELSE lines[n - 1]
    IN lines

\* The tags of the lines in the list.
Shown(d) ==
    IF d.displayEntities THEN [k \in DOMAIN d.entities |-> d.tag[d.entities[k]]] ELSE <<>>

Stores(t) == Tag[t].type = "SubmitInputField"

OnlyTitle(t, tags) == \A u \in ToSet(tags) : Tag[u].type = "Titel" <=> u = t

\* The lines of the part that was received are in the list, in their order, and
\* what follows are lines of the same page.
ListFits(d, tags, pos) ==
    /\ IsPrefix(LinesOf(tags)[pos \div 3], Shown(d))
    /\ ToSet(Shown(d)) \subseteq ToSet(tags)

HeadFits(d, tags, pos) ==
    /\ \A k \in DOMAIN tags : 3 * k <= pos =>
           /\ OnlyTitle(tags[k], tags) => d.title = tags[k]
           /\ Stores(tags[k]) => d.save
    /\ d.save => \E t \in ToSet(tags) : Stores(t)

\* However the page was cut into segments, and wherever the connection broke
\* off: its lines are shown (the last segment is parsed twice), under its title
\* if it has only one; the save button is there if its tag was received, and not
\* on a page without it.
PageIsShown ==
    Calm =>
        /\ ListFits(display, got.tags, got.pos) /\ HeadFits(display, got.tags, got.pos)
        /\ ~paged => (Save \in Linked(display) <=> display.save)
=============================================================================
