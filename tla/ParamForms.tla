----------------------------- MODULE ParamForms -----------------------------
(***************************************************************************)
(* The way of the machine's parameters to a page and back.                 *)
(*                                                                         *)
(* The tags of a page (taglib/tags) render a parameter twice: as a form    *)
(* field for a browser and, in a comment, as a line for the display.  The  *)
(* browser sends its form's fields, the display its lines, as name=value   *)
(* pairs to set.cgi, and SetCGIHandler (io.c) converts each of them, sets  *)
(* it and reads it back.  On the display a line is changed in an editor    *)
(* (valueEditor.c) with buttons that step through the line's limits.       *)
(*                                                                         *)
(* Reads and sets are in time and in order here (see ComProtocol).  The    *)
(* text of a field is what CheckDecimalParam and strtok make of it: its    *)
(* pieces between the points, each of them a number or no number.          *)
(***************************************************************************)
EXTENDS Integers, Sequences, SequencesExt

CONSTANTS
    Pages,          (* Sequences of tags [item, type, min, max, increment].  *)
    Items,          (* Ids of parameters.                                    *)
    Stores,         (* Values of the parameters at the beginning.            *)
    Refused,        (* Pairs of item and value that the machine rejects.     *)
    Typed,          (* Per type, what users enter: [texts, means], means is  *)
                    (* <<the value>> or <<>> for nonsense; a box is ticked   *)
                    (* or not.                                               *)
    WORD,           (* Values of a long.                                     *)
    HOUR, DAY,      (* Minutes of them, 60 and 1440.                         *)
    VAL_DIGITS,     (* Characters of a number in the display's request.      *)
    MAX_CGI_PARAMETERS,
    Reach           (* Bound of the values that the editor steps to.         *)

Types == {"integer", "float", "checkbox", "time"}

Long == -(WORD \div 2) .. WORD \div 2 - 1

\* The text of a field.
FieldText == [on : BOOLEAN, pieces : Seq(Seq(Int))]

ASSUME FormsAssumption ==
    /\ \A p \in Pages :
         p \in Seq([item : Items, min : Int, max : Int, increment : Int, type : Types])
    /\ \A s \in Stores : s \in [Items -> Long]
    /\ \A type \in Types : \A entry \in Typed[type] :
         /\ entry.texts \in Seq(FieldText)
         /\ entry.means \in IF type = "checkbox" THEN { <<0>>, <<1>> } ELSE Seq(Int)
    /\ WORD \in Nat /\ WORD >= 4 /\ WORD % 2 = 0 /\ Reach \in 0 .. WORD \div 2 - 1
    /\ HOUR \in Nat \ {0} /\ DAY \in Nat /\ DAY > HOUR
    /\ VAL_DIGITS \in Nat \ {0} /\ MAX_CGI_PARAMETERS \in Nat
    /\ \A d \in {VAL_DIGITS - 1, VAL_DIGITS} : (WORD \div 2) \div (10 ^ 9) < 10 ^ d

VARIABLES
    page,           (* The page that is used.                                *)
    store,          (* The machine's parameters.                             *)
    form,           (* The browser's fields: [item, type, present, texts,    *)
                    (* means]; means is, as history, what the user reads or  *)
                    (* has entered.                                          *)
    lines,          (* xDisplayRoot.entities; loaded is, as history, the     *)
                    (* value that the line was loaded with.                  *)
    aktElement,     (* The line in the editor, 0 while it is closed.         *)
    request,        (* The parameters of set.cgi: [prefix, item, text].      *)
    i, value,       (* Locals of SetCGIHandler.                              *)
    answer,         (* "none", "pending", or the page returned: "ok", "nok". *)
    asked,          (* History: the pairs of item and value the sender means.*)
    regular,        (* History: nothing in the request is out of the common. *)
    before          (* History: the store when the request was sent.         *)

clientVars  == <<form, lines, aktElement>>
requestVars == <<request, asked, regular, before>>
vars == <<page, store, clientVars, requestVars, i, value, answer>>

-----------------------------------------------------------------------------
(* Numbers and texts. *)

\* Division of C.
Quotient(a, b) == IF a >= 0 THEN a \div b ELSE -((-a) \div b)
Remainder(a, b) == a - b * Quotient(a, b)

\* Mutant: more than a long holds.
WrapNot(n) == n

Wrap(n) == IF n \in Long THEN n ELSE ((n + WORD \div 2) % WORD) - WORD \div 2

\* The leading digits of n that snprintf lets into d characters.
Leading(n, d) ==
    LET cuts == { k \in 0 .. 9 : n \div (10 ^ k) < 10 ^ d }
    IN  n \div (10 ^ (CHOOSE k \in cuts : \A l \in cuts : k <= l))

Printed(n) ==
    IF n >= 0 THEN Leading(n, VAL_DIGITS) ELSE -Leading(-n, VAL_DIGITS - 1)

On == [on |-> TRUE, pieces |-> <<>>]
Number(n) == [on |-> FALSE, pieces |-> << <<n>> >>]
Decimal(a, b) == [on |-> FALSE, pieces |-> << <<a>>, <<b>> >>]

-----------------------------------------------------------------------------
(* Rendering a parameter. *)

\* The value that cannot be told from a missing answer, and is not rendered.
NoData == -1

\* Mutant: the digit behind the point without a sign, as on the display.
FloatTextsAbs(n) ==
    LET tenths == Remainder(n, 10)
    IN  <<Decimal(Quotient(n, 10), IF tenths < 0 THEN -tenths ELSE tenths)>>

\* The texts of the form fields for value n.
FloatTexts(n) == <<Decimal(Quotient(n, 10), Remainder(n, 10))>>

TimeTexts(n) ==
    LET hour == Quotient(n, HOUR) IN <<Number(hour), Number(n - hour * HOUR)>>

CheckboxTexts(n) == IF n # 0 THEN <<On>> ELSE <<>>

Texts(type, n) ==
    CASE type = "integer"  -> <<Number(n)>>
      [] type = "float"    -> FloatTexts(n)
      [] type = "checkbox" -> CheckboxTexts(n)
      [] type = "time"     -> TimeTexts(n)

Shown(type, n) == IF type = "checkbox" /\ n # 0 THEN 1 ELSE n

RenderField(tag) ==
    LET n == store[tag.item]
    IN  [item |-> tag.item, type |-> tag.type, present |-> n # NoData,
         texts |-> IF n = NoData THEN <<>> ELSE Texts(tag.type, n),
         means |-> IF n = NoData THEN <<>> ELSE <<Shown(tag.type, n)>>]

\* vCheckboxOnLoad compares with other texts than vCheckboxRenderSSI writes.
LoadedValue(type, n) == IF type = "checkbox" THEN 0 ELSE n

LoadLine(tag) ==
    LET n     == store[tag.item]
        scale == IF tag.type = "float" THEN 10 ELSE 1
        edged == tag.type \in {"integer", "float"}
    IN  [item |-> tag.item, type |-> tag.type, present |-> n # NoData,
         value |-> LoadedValue(tag.type, n), loaded |-> LoadedValue(tag.type, n),
         min |-> IF edged THEN tag.min * scale ELSE -1,
         max |-> IF edged THEN tag.max * scale ELSE -1,
         increment |-> CASE tag.type = "integer" -> tag.increment
                         [] tag.type = "float"   -> 1
                         [] OTHER                -> -1]

-----------------------------------------------------------------------------
(* The browser. *)

Idle == answer # "pending"

\* The answer is read and the connection closed.
RequestGone ==
    /\ request' = <<>>
    /\ asked' = {}
    /\ regular' = TRUE
    /\ before' = store
    /\ answer' = "none"
    /\ UNCHANGED <<i, value>>

\* Bound: a client loads the page when the other one has left it.  What one has
\* loaded does not change when the other one stores.
Leave ==
    /\ Idle
    /\ aktElement = 0
    /\ form' = <<>>
    /\ lines' = <<>>
    /\ UNCHANGED <<store, aktElement>>
    /\ RequestGone

LoadForm ==
    /\ Idle
    /\ lines = <<>>
    /\ form' = [k \in DOMAIN page |-> RenderField(page[k])]
    /\ UNCHANGED <<store, lines, aktElement>>
    /\ RequestGone

Enter(k, entry) ==
    /\ Idle
    /\ form[k].present
    /\ form' = [form EXCEPT ![k].texts = entry.texts, ![k].means = entry.means]
    /\ UNCHANGED <<store, lines, aktElement>>
    /\ RequestGone

Prefix(type) ==
    CASE type = "float" -> "f_" [] type = "time" -> "t_" [] OTHER -> ""

\* The script of the pages sends a checkbox as "on" whether checked or not.
FieldParams(field, script) ==
    LET texts == IF script /\ field.type = "checkbox" /\ field.present
                 THEN <<On>> ELSE field.texts
    IN  [k \in DOMAIN texts |-> [prefix |-> Prefix(field.type),
                                 item |-> field.item, text |-> texts[k]]]

\* The script adds the parameters ajax and uid.
Meta == [prefix |-> "uid", item |-> "none", text |-> Number(0)]

FormParams(script) ==
    FlattenSeq([k \in DOMAIN form |-> FieldParams(form[k], script)])
      \o (IF script THEN <<Meta, Meta>> ELSE <<>>)

\* A value in the notation of the page; a box that is checked.
RegularField(field) ==
    /\ field.means # <<>> /\ field.means[1] \in Long
    /\ field.texts = Texts(field.type, field.means[1])
    /\ field.type = "checkbox" => field.means[1] # 0

\* extract_uri_parameters drops what is more than fits.
CallSetCGI(params, pairs, reg) ==
    /\ request' = IF Len(params) <= MAX_CGI_PARAMETERS THEN params
                  ELSE SubSeq(params, 1, MAX_CGI_PARAMETERS)
    /\ asked' = pairs
    /\ regular' = (reg /\ Len(params) <= MAX_CGI_PARAMETERS)
    /\ before' = store
    /\ i' = 1
    /\ value' = 0
    /\ answer' = "pending"
    /\ UNCHANGED store

SubmitForm(script) ==
    /\ Idle
    /\ form # <<>>
    /\ LET present == { k \in DOMAIN form : form[k].present }
           meant   == { k \in present : form[k].means # <<>> }
       IN  CallSetCGI(FormParams(script),
               { <<form[k].item, form[k].means[1]>> : k \in meant },
               \A k \in present : RegularField(form[k]))
    /\ UNCHANGED clientVars

-----------------------------------------------------------------------------
(* The display. *)

LoadLines ==
    /\ Idle
    /\ aktElement = 0
    /\ form = <<>>
    /\ lines' = [k \in DOMAIN page |-> LoadLine(page[k])]
    /\ UNCHANGED <<store, form, aktElement>>
    /\ RequestGone

CheckboxAction(k) ==
    /\ Idle
    /\ aktElement = 0
    /\ lines[k].present /\ lines[k].type = "checkbox"
    /\ lines' = [lines EXCEPT ![k].value = 1 - @]
    /\ UNCHANGED <<store, form, aktElement>>
    /\ RequestGone

OpenEditor(k) ==
    /\ Idle
    /\ aktElement = 0
    /\ lines[k].present /\ lines[k].type # "checkbox"
    /\ aktElement' = k
    /\ UNCHANGED <<store, form, lines>>
    /\ RequestGone

\* The first pair of buttons, for times only, steps hours, the second minutes.
TimeStep(first) == IF first THEN HOUR ELSE 1

\* Mutant: one above the limit is let pass.
AboveMaxLate(line, n) == line.min # line.max /\ n > line.max + 1

AboveMax(line, n) == line.min # line.max /\ n > line.max

BelowMin(line, n) == line.min # line.max /\ n < line.min

IncreasedTime(n, first) == Remainder(n + TimeStep(first), DAY)

\* Mutant: the first value behind the limit is left out.
IncreasedNumberSkips(line) ==
    LET n == line.value + line.increment
    IN  IF AboveMax(line, n) THEN line.min + (n - line.max) ELSE n

IncreasedNumber(line) ==
    LET n == line.value + line.increment
    IN  IF AboveMax(line, n) THEN line.min + (n - line.max) - 1 ELSE n

Increased(line, first) ==
    IF line.type = "time" THEN IncreasedTime(line.value, first)
    ELSE IncreasedNumber(line)

DecreasedTime(n, first) ==
    LET m == n - TimeStep(first) IN IF m < 0 THEN DAY + m ELSE m

DecreasedNumber(line) ==
    LET n == line.value - line.increment
    IN  IF BelowMin(line, n) THEN line.max + (n - line.min) + 1 ELSE n

Decreased(line, first) ==
    IF line.type = "time" THEN DecreasedTime(line.value, first)
    ELSE DecreasedNumber(line)

ChangeValue(n) ==
    /\ Idle
    /\ n \in -Reach .. Reach
    /\ lines' = [lines EXCEPT ![aktElement].value = n]
    /\ UNCHANGED <<store, form, aktElement>>
    /\ RequestGone

IncreaseValue(first) ==
    /\ aktElement # 0
    /\ first => lines[aktElement].type = "time"
    /\ ChangeValue(Increased(lines[aktElement], first))

DecreaseValue(first) ==
    /\ aktElement # 0
    /\ first => lines[aktElement].type = "time"
    /\ ChangeValue(Decreased(lines[aktElement], first))

ExitEditor ==
    /\ Idle
    /\ aktElement # 0
    /\ aktElement' = 0
    /\ UNCHANGED <<store, form, lines>>
    /\ RequestGone

LineParams(line) ==
    IF line.present
    THEN << [prefix |-> "", item |-> line.item, text |-> Number(Printed(line.value))] >>
    ELSE <<>>

\* vTouchStoreValues and vLoadWebPage: the lines are deleted when the request is
\* made.
TouchStoreValues ==
    /\ Idle
    /\ aktElement = 0
    /\ lines # <<>>
    /\ LET present == { k \in DOMAIN lines : lines[k].present }
       IN  CallSetCGI(FlattenSeq([k \in DOMAIN lines |-> LineParams(lines[k])]),
               { <<lines[k].item, lines[k].value>> : k \in present },
               \A k \in present : Printed(lines[k].value) = lines[k].value)
    /\ lines' = <<>>
    /\ UNCHANGED <<form, aktElement>>

-----------------------------------------------------------------------------
(* SetCGIHandler: one action per parameter, or pair of parameters. *)

\* CheckDecimalParam.  A piece that is missing is a null pointer: what it reads
\* there is no number, or the empty text, which is taken for 0.
IsDecimal(piece) == piece # <<>>
DecimalValue(piece) == Wrap(piece[1])

Pieces(text, k) ==
    IF k \in DOMAIN text.pieces THEN {text.pieces[k]} ELSE { <<>>, <<0>> }

\* A text without a point.
Whole(text) == IF Len(text.pieces) = 1 THEN text.pieces[1] ELSE <<>>

Handling == answer = "pending" /\ i <= Len(request)

AtPlainParam == Handling /\ request[i] # Meta /\ ~request[i].text.on

Skip(n) ==
    /\ i' = i + n
    /\ UNCHANGED <<store, value, answer>>

Return(p) ==
    /\ answer' = p
    /\ i' = 1
    /\ value' = 0

\* The request is sent to the machine, which may reject it.
SetItem(item, n) ==
    store' = IF <<item, n>> \in Refused THEN store ELSE [store EXCEPT ![item] = n]

\* Mutant: compared before value is assigned.
RereadsStale(item, n, used) ==
    IF store'[item] = value
    THEN i' = i + used /\ value' = n /\ UNCHANGED answer
    ELSE Return("nok")

\* The parameter is read back and compared with n.
Rereads(item, n, used) ==
    IF store'[item] = n
    THEN i' = i + used /\ value' = n /\ UNCHANGED answer
    ELSE Return("nok")

SetTo(item, n, used) == SetItem(item, n) /\ Rereads(item, n, used)

IgnoreParam ==
    /\ Handling
    /\ request[i] = Meta
    /\ Skip(1)
    /\ UNCHANGED <<clientVars, requestVars>>

\* What is read back is compared with the value of the parameter before.
SetCheckbox ==
    /\ Handling
    /\ request[i].text.on
    /\ SetItem(request[i].item, 1)
    /\ Rereads(request[i].item, value, 1)
    /\ UNCHANGED <<clientVars, requestVars>>

FloatValue(whole, decimal) == Wrap(DecimalValue(whole) * 10 + DecimalValue(decimal))

SetFloat ==
    /\ AtPlainParam
    /\ request[i].prefix = "f_"
    /\ \E decimal \in Pieces(request[i].text, 2), whole \in Pieces(request[i].text, 1) :
         IF IsDecimal(decimal) /\ IsDecimal(whole)
         THEN SetTo(request[i].item, FloatValue(whole, decimal), 1)
         ELSE Return("nok") /\ UNCHANGED store
    /\ UNCHANGED <<clientVars, requestVars>>

TimeValue(hour, minute) == Wrap(DecimalValue(hour) * HOUR + DecimalValue(minute))

\* The next parameter is taken for the minutes.
SetTime ==
    /\ AtPlainParam
    /\ request[i].prefix = "t_"
    /\ IF ~IsDecimal(Whole(request[i].text)) THEN Skip(1)
       ELSE IF i + 1 > Len(request) THEN Skip(2)
       ELSE IF request[i + 1].prefix = "t_" /\ IsDecimal(Whole(request[i + 1].text))
       THEN SetTo(request[i].item,
                  TimeValue(Whole(request[i].text), Whole(request[i + 1].text)), 2)
       ELSE Return("nok") /\ UNCHANGED store
    /\ UNCHANGED <<clientVars, requestVars>>

SetInteger ==
    /\ AtPlainParam
    /\ request[i].prefix = ""
    /\ IF IsDecimal(Whole(request[i].text))
       THEN SetTo(request[i].item, DecimalValue(Whole(request[i].text)), 1)
       ELSE Skip(1)
    /\ UNCHANGED <<clientVars, requestVars>>

Finish ==
    /\ answer = "pending"
    /\ i > Len(request)
    /\ Return("ok")
    /\ UNCHANGED <<store, clientVars, requestVars>>

SetCGIHandler ==
    IgnoreParam \/ SetCheckbox \/ SetFloat \/ SetTime \/ SetInteger \/ Finish

-----------------------------------------------------------------------------
Init ==
    /\ page \in Pages
    /\ store \in Stores
    /\ form = <<>>
    /\ lines = <<>>
    /\ aktElement = 0
    /\ request = <<>>
    /\ i = 1
    /\ value = 0
    /\ answer = "none"
    /\ asked = {}
    /\ regular = TRUE
    /\ before = store

Clients ==
    \/ Leave
    \/ LoadForm
    \/ \E k \in DOMAIN form : \E entry \in Typed[form[k].type] : Enter(k, entry)
    \/ \E script \in BOOLEAN : SubmitForm(script)

Display ==
    \/ LoadLines
    \/ \E k \in DOMAIN lines : CheckboxAction(k) \/ OpenEditor(k)
    \/ \E first \in BOOLEAN : IncreaseValue(first) \/ DecreaseValue(first)
    \/ ExitEditor
    \/ TouchStoreValues

Next == (Clients \/ Display \/ SetCGIHandler) /\ UNCHANGED page

Spec == Init /\ [][Next]_vars

-----------------------------------------------------------------------------
(* Properties. *)

TypeOK ==
    /\ store \in [Items -> Long]
    /\ aktElement \in 0 .. Len(lines)
    /\ value \in Long
    /\ i \in 1 .. MAX_CGI_PARAMETERS + 2
    /\ answer \in {"none", "pending", "ok", "nok"}

\* A parameter that is twice on a page is asked to have two values.
Contradictory == \E a, b \in asked : a[1] = b[1] /\ a[2] # b[2]

\* A tick that the machine rejects is not noticed if the box had by chance the
\* value of the parameter before it.
TickRefused ==
    \E k \in DOMAIN request : request[k].text.on /\ <<request[k].item, 1>> \in Refused

(***************************************************************************)
(* When SetCGIHandler returns the page that says "ok", the machine holds   *)
(* every value that the browser's user or the display has meant.           *)
(***************************************************************************)
OkMeansStored ==
    answer = "ok" /\ regular /\ ~Contradictory /\ ~TickRefused =>
        \A pair \in asked : store[pair[1]] = pair[2]

(***************************************************************************)
(* The page that says "not ok" is returned only when the machine has       *)
(* rejected a value, if there is no checkbox in the request.               *)
(***************************************************************************)
NokMeansRefused ==
    answer = "nok" /\ regular /\ ~(\E k \in DOMAIN request : request[k].text.on)
        => asked \cap Refused # {}

(***************************************************************************)
(* The page that SetCGIHandler answers with is the true one, wherever in   *)
(* the request a parameter was refused, and in whatever notation it came.  *)
(***************************************************************************)
AnswerIsTrue == OkMeansStored /\ NokMeansRefused

(***************************************************************************)
(* While the parameters of a request are set one by one, and whether it is *)
(* carried out to its end or not, a parameter has its value of before or   *)
(* the one meant for it.  So a page that is sent back as it was rendered   *)
(* changes nothing: what the tags render is what the handler reads.        *)
(***************************************************************************)
SetsOnlyAsked ==
    regular => \A item \in Items :
        store[item] = before[item] \/ <<item, store[item]>> \in asked

\* A line whose limits apply: there are two, the step is no longer than from
\* one to the other and back, and the machine's value was within.
Limited(line) ==
    /\ line.type \in {"integer", "float"}
    /\ line.increment \in 1 .. line.max - line.min + 1
    /\ line.min < line.max
    /\ line.loaded \in line.min .. line.max

DayTime(line) == line.type = "time" /\ line.loaded \in 0 .. DAY - 1

(***************************************************************************)
(* However the buttons of the editor are pressed, a value stays within its *)
(* limits and a time within the day.                                       *)
(***************************************************************************)
LimitsKept ==
    \A k \in DOMAIN lines :
        /\ Limited(lines[k]) => lines[k].value \in lines[k].min .. lines[k].max
        /\ DayTime(lines[k]) => lines[k].value \in 0 .. DAY - 1

(***************************************************************************)
(* The buttons of a pair undo each other, over the limits too.             *)
(***************************************************************************)
StepsCancel ==
    \A k \in DOMAIN lines, first \in BOOLEAN :
        Limited(lines[k]) \/ DayTime(lines[k]) =>
            /\ Decreased([lines[k] EXCEPT !.value = Increased(lines[k], first)], first)
                  = lines[k].value
            /\ Increased([lines[k] EXCEPT !.value = Decreased(lines[k], first)], first)
                  = lines[k].value

(***************************************************************************)
(* io.c: a parameter is read back "zur ueberpruefung ob ok"; that the      *)
(* machine did not take it is the only reason to return "not ok".          *)
(***************************************************************************)
NokOnlyIfRefused == answer = "nok" /\ regular => asked \cap Refused # {}
=============================================================================
