----------------------------- MODULE SerialLine -----------------------------
(***************************************************************************)
(* The serial line between the board and the machine, which the simulator  *)
(* stands for: two programs with the same console library (uartstdio.c),   *)
(* which echoes what it reads to the sender.  The board's commands, its    *)
(* log and the echo of what it reads share the line (the Makefile defines  *)
(* printf as UARTprintf), and so do the machine's echo and its answers.    *)
(*                                                                         *)
(* The console takes no lock.  An Ethernet interrupt may switch tasks      *)
(* between two tokens of the com task's text, or while it waits in         *)
(* UARTgets, and the handler itself prints: what several of them send at   *)
(* once is mixed on the line, token by token.                              *)
(*                                                                         *)
(* The line is as fast as the sender; a slow line is a slow sender.        *)
(* Neither program sends a backspace or an escape character.               *)
(***************************************************************************)
EXTENDS MachineScreen

CONSTANTS
    Items,          (* Names of the machine's parameters.                  *)
    Values,         (* Numbers that are set.                               *)
    Others,         (* The board's tasks that print, but for com.          *)
    Start,          (* The parameters at start-up, [Items -> Int32].       *)
    RX_FIFO,        (* Tokens a receiver holds.                            *)
    LINE,           (* Tokens a line's buffer holds.                       *)
    MAX_OPS         (* Bounds the commands and log texts of the board.     *)

ASSUME SerialAssumption ==
    /\ Values \subseteq Int32 /\ Start \in [Items -> Int32]
    /\ Lines = Items \cup {"command", "title", "names"}
    /\ Items \cap {"command", "title", "names"} = {}
    /\ RX_FIFO \in Nat \ {0} /\ LINE \in Nat /\ MAX_OPS \in Nat
    /\ Others \cap {"vComTask", "ETH0IntHandler"} = {}

Com == "vComTask"
Handler == "ETH0IntHandler"

\* Who prints besides com.
Talkers == Others \cup {Handler}

Sides == {"board", "machine"}

Peer(s) == IF s = "board" THEN "machine" ELSE "board"

VARIABLES
    port,       (* Of each side, the board's being that of com:            *)
                (*   rx          received, not read                        *)
                (*   out         to be sent by the call under way          *)
                (*   buf         the line being read (pcBuf, ulCount)      *)
                (*   bLastWasCR                                            *)
                (*   pc          "off", "idle", "put", "gets", "line"      *)
                (*   then        where to go on when out is sent           *)
    talk,       (* What the others on the board have yet to send.          *)
    store,      (* The machine's parameters.                               *)
    panel,      (* Its display.                                            *)
    ops,        (* Commands and log texts so far.                          *)
    lost,       (* History: a token met this side's full receiver.         *)
    torn,       (* History: whether texts of the board met on the line, one*)
                (* had no end, or the machine lost a token: "never", "now",*)
                (* or "over" once a text began on a quiet line.            *)
    owed,       (* History: lines the board sent, not yet read by the      *)
                (* machine, if they are whole.                             *)
    unset,      (* History: the SETs not yet carried out, of these lines.  *)
    shown       (* History: the numbers that the panel has shown, by item. *)

vars == <<port, talk, store, panel, ops, lost, torn, owed, unset, shown>>

history == <<torn, owed, unset>>

screen == <<panel, shown>>

-----------------------------------------------------------------------------
(* What becomes of the lines. *)

\* Com has sent, or echoed, a part of a line.
InLine == port["board"].out # <<>> \/ (port["board"].pc = "gets" /\ port["board"].buf # <<>>)

\* Somebody else is in the middle of a text.
Meets(w) ==
    \/ \E o \in Talkers \ {w} : talk[o] # <<>>
    \/ w # Com /\ InLine

\* Nobody talks, and the machine waits for a line.
Quiet ==
    /\ \A o \in Talkers : talk[o] = <<>>
    /\ ~InLine
    /\ port["machine"].pc = "gets" /\ port["machine"].rx = <<>> /\ port["machine"].buf = <<>>

\* The board's w says something: what that makes of torn.
Said(w, whole) ==
    IF Meets(w) \/ ~whole THEN "now"
    ELSE IF torn = "now" /\ Quiet THEN "over" ELSE torn

\* The machine is to read more lines, and to carry out more SETs.
Owes(state, lines, sets) ==
    /\ torn' = state
    /\ owed' = IF state = "now" THEN <<>> ELSE owed \o lines
    /\ unset' = IF state = "now" THEN {} ELSE unset \cup sets

-----------------------------------------------------------------------------
(* uartstdio.c *)

\* A text that ends with CRLF.
LineOf(text) == [text |-> SubSeq(text, 1, Len(text) - 2), end |-> <<CR, LF>>]

\* What a call sends, and where its caller goes on.
Printing(p, tokens, then) == [p EXCEPT !.out = tokens, !.pc = "put", !.then = then]

\* The port is opened, and its program goes on at then.
UARTStdioInit(s, tokens, then) ==
    /\ port[s].pc = "off"
    /\ port' = [port EXCEPT ![s] = IF tokens = <<>> THEN [@ EXCEPT !.pc = then]
                                  ELSE Printing(@, tokens, then)]
    /\ UNCHANGED <<talk, store, ops, lost, history>>

\* A token of side s meets a port that is closed, or full.
Overruns(s) == port[Peer(s)].pc = "off" \/ Len(port[Peer(s)].rx) >= RX_FIFO

\* Mutant: a full receiver is not noticed.
ArrivesAnyway(ports, s, token) == [ports EXCEPT ![Peer(s)].rx = Append(@, token)]

\* A token of side s arrives, or is lost.
Arrives(ports, s, token) ==
    IF Overruns(s) THEN ports ELSE [ports EXCEPT ![Peer(s)].rx = Append(@, token)]

\* Whether it was lost.
Loses(s) == lost' = [lost EXCEPT ![Peer(s)] = @ \/ Overruns(s)]

\* UARTCharPut, until all of it is sent.
Put(s) ==
    /\ port[s].pc = "put"
    /\ LET p == [port[s] EXCEPT !.out = Tail(@),
                                !.pc = IF Len(port[s].out) = 1 THEN port[s].then ELSE "put"]
       IN port' = Arrives([port EXCEPT ![s] = p], s, Head(port[s].out))
    /\ Loses(s)
    /\ UNCHANGED <<talk, store, ops>>

\* A token is read, the last end of a line being a CR or not.
Handled(p, last) == [p EXCEPT !.rx = Tail(@), !.bLastWasCR = last]

\* One token read by UARTgets: the LF of a CRLF; an end of line, answered by a
\* CRLF; a token that is kept and echoed, if there is room for it.
Gobble(s) ==
    /\ port[s].pc = "gets" /\ port[s].rx # <<>>
    /\ Head(port[s].rx) = LF /\ port[s].bLastWasCR
    /\ port' = [port EXCEPT ![s] = Handled(@, FALSE)]
    /\ UNCHANGED <<talk, store, ops, lost>>

\* The first CR of an echoed end of line ends the line, the second an empty one.
EchoedLines(line) == << [text |-> line, end |-> <<CR>>], [text |-> <<>>, end |-> <<CR, LF>>] >>

\* Mutant: the end of a line is not echoed.
EndLineSilent(s) ==
    /\ port[s].pc = "gets" /\ port[s].rx # <<>>
    /\ LET t == Head(port[s].rx)
       IN /\ t = CR \/ (t = LF /\ ~port[s].bLastWasCR)
          /\ port' = [port EXCEPT ![s] =
                 [Handled(@, t = CR \/ @.bLastWasCR) EXCEPT !.pc = "line"]]
    /\ UNCHANGED <<talk, store, ops, lost>>

EndLine(s) ==
    /\ port[s].pc = "gets" /\ port[s].rx # <<>>
    /\ LET t == Head(port[s].rx)
       IN /\ t = CR \/ (t = LF /\ ~port[s].bLastWasCR)
          /\ port' = [port EXCEPT ![s] =
                 Printing(Handled(@, t = CR \/ @.bLastWasCR), UARTwrite(<<CR, LF>>), "line")]
    /\ UNCHANGED <<talk, store, ops, lost>>

Keep(s) ==
    /\ port[s].pc = "gets" /\ port[s].rx # <<>>
    /\ Head(port[s].rx) \notin {CR, LF} /\ Len(port[s].buf) < LINE
    /\ LET t == Head(port[s].rx)
       IN port' = Arrives([port EXCEPT ![s].rx = Tail(@), ![s].buf = Append(@, t)], s, t)
    /\ Loses(s)
    /\ UNCHANGED <<talk, store, ops>>

Ignore(s) ==
    /\ port[s].pc = "gets" /\ port[s].rx # <<>>
    /\ Head(port[s].rx) \notin {CR, LF} /\ ~(Len(port[s].buf) < LINE)
    /\ port' = [port EXCEPT ![s].rx = Tail(@)]
    /\ UNCHANGED <<talk, store, ops, lost>>

\* A token goes on the line, in a text that was begun before.
Sends == Owes(IF Overruns("board") THEN "now" ELSE torn, <<>>, {})

\* The two programs' copies; the board's echoes are texts like others.
BoardPut == Put("board") /\ Sends /\ UNCHANGED screen
MachinePut == Put("machine") /\ UNCHANGED <<history, screen>>

BoardGets ==
    /\ \/ Gobble("board") /\ UNCHANGED history
       \/ EndLine("board") /\ Owes(Said(Com, TRUE), EchoedLines(port["board"].buf), {})
       \/ Keep("board") /\ Owes(Said(Com, ~Overruns("board")), <<>>, {})
       \/ Ignore("board") /\ UNCHANGED history
    /\ UNCHANGED screen

MachineGets ==
    /\ Gobble("machine") \/ EndLine("machine") \/ Keep("machine") \/ Ignore("machine")
    /\ UNCHANGED <<history, screen>>

-----------------------------------------------------------------------------
(* The board (UARTImpl.c). *)

Begins(tokens, then, sets) ==
    /\ port["board"].pc = "idle" /\ ops < MAX_OPS
    /\ ops' = ops + 1
    /\ port' = [port EXCEPT !["board"] = Printing([@ EXCEPT !.buf = <<>>], tokens, then)]
    /\ Owes(Said(Com, TRUE), <<LineOf(tokens)>>, sets)
    /\ UNCHANGED <<talk, store, lost, screen>>

\* prvSetupHardware opens the port before any task runs.
BoardStarts == UARTStdioInit("board", <<>>, "idle") /\ UNCHANGED screen

BoardPrintf(format) == UARTprintf(format)

GetFormMachine(id) ==
    Begins(BoardPrintf(<<Text(Word("!g:")), Text(Word(id)), Text(LF)>>), "gets", {})

SendToMachine(id, value) ==
    Begins(BoardPrintf(<<Text(Word("!s:")), Text(Word(id)), Text(Word("=")),
                         Decimal(value, 0, Space), Text(LF)>>), "idle", {<<id, value>>})

\* getFormMachine has its line, which was echoed, and logs it; the value is what
\* atoi makes of it.
LogLine ==
    /\ port["board"].pc = "line"
    /\ \E tokens \in {BoardPrintf(<<Text(Word("READ")), String(port["board"].buf),
                                    Text(Word("'")), Text(LF)>>)} :
          /\ port' = [port EXCEPT !["board"] = Printing(@, tokens, "idle")]
          /\ Owes(Said(Com, TRUE), <<LineOf(tokens)>>, {})
    /\ UNCHANGED <<talk, store, ops, lost, screen>>

-----------------------------------------------------------------------------
(* The others on the board. *)

\* It starts to print.
Talks(o, tokens, whole, lines) ==
    /\ port["board"].pc # "off" /\ talk[o] = <<>> /\ ops < MAX_OPS
    /\ ops' = ops + 1
    /\ talk' = [talk EXCEPT ![o] = tokens]
    /\ Owes(Said(o, whole), lines, {})
    /\ UNCHANGED <<port, store, lost, screen>>

\* A line of a task's log.
Log(o) ==
    LET tokens == BoardPrintf(<<Text(Word("HTTPD")), Text(LF)>>)
    IN Talks(o, tokens, TRUE, <<LineOf(tokens)>>)

\* A text without an end of line, as that of the link monitor's renewal.
LogPiece(o) == Talks(o, BoardPrintf(<<Text(Word("DHCP"))>>), FALSE, <<>>)

\* The interrupt handler's two lines about the PHY.
Interrupt ==
    LET first == BoardPrintf(<<Text(Word("PHY Event")), Text(LF)>>)
        second == BoardPrintf(<<Text(Word("phy:")), Text(LF)>>)
    IN Talks(Handler, first \o second, TRUE, <<LineOf(first), LineOf(second)>>)

\* A token of its text goes on the line.
TalkPut(o) ==
    /\ talk[o] # <<>>
    /\ talk' = [talk EXCEPT ![o] = Tail(@)]
    /\ port' = Arrives(port, "board", Head(talk[o]))
    /\ Loses("board") /\ Sends
    /\ UNCHANGED <<store, ops, screen>>

-----------------------------------------------------------------------------
(* The machine (simulation.c). *)

\* The values of the parameters, each behind its name.
ValueTexts(values) ==
    [i \in Items |-> usprintf(<<Text(Word(i)), Decimal(values[i], 0, Space)>>)]

\* The machine greets, without an end of line behind the last character.
Greeting == <<Text(Word("Hi UART")), Text(LF), Text(Word(";"))>>

MachineStarts ==
    /\ UARTStdioInit("machine", UARTprintf(Greeting), "gets")
    /\ panel' = StringDraw(RIT128x96x4Init(panel),
                           [y \in {"title", "names"} |-> <<Word(y)>>])
    /\ UNCHANGED shown

Position(line, t) == CHOOSE k \in DOMAIN line : line[k] = t

\* Mutant: the sign is part of the name.
IdWithSign(line) ==
    LET rest == Tail(line)
    IN IF Contains(rest, Word("=")) THEN SubSeq(rest, 1, Position(rest, Word("="))) ELSE rest

\* What follows the head of a command, cut at the first "=" - or not cut.
Id(line) ==
    LET rest == Tail(line)
    IN IF Contains(rest, Word("=")) THEN SubSeq(rest, 1, Position(rest, Word("=")) - 1) ELSE rest

\* Mutant: the number is read in front of the sign.
ValueTextBefore(line) == Tail(line)

ValueText(line) ==
    LET rest == Tail(line)
    IN IF Contains(rest, Word("="))
       THEN SubSeq(rest, Position(rest, Word("=")) + 1, Len(rest)) ELSE rest

IsCommand(line, head) == line # <<>> /\ line[1] = Word(head)

\* Mutant: the next line is read behind the last.
AnswersKeepingCount(format) ==
    port' = [port EXCEPT !["machine"] =
                IF format = <<>> THEN [@ EXCEPT !.pc = "gets"]
                ELSE Printing(@, UARTprintf(format), "gets")]

\* It reads the next line when it has answered.
Answers(format) ==
    port' = [port EXCEPT !["machine"] =
                IF format = <<>> THEN [@ EXCEPT !.pc = "gets", !.buf = <<>>]
                ELSE Printing([@ EXCEPT !.buf = <<>>], UARTprintf(format), "gets")]

MachineReads ==
    /\ port["machine"].pc = "line"
    /\ owed' = SubSeq(owed, 2, Len(owed))
    /\ UNCHANGED <<talk, torn>>

\* What was asked for, and the values, on the panel.
Draws(heading, values) ==
    /\ \E texts \in {ValueTexts(values)} :
           panel' = StringDraw(panel, [y \in Items \cup {"command"} |->
                                           IF y \in Items THEN texts[y] ELSE heading])
    /\ shown' = [i \in Items |-> shown[i] \cup {values[i]}]

\* "!g:" and a name: the value, without an end of line.
HandleGet ==
    /\ MachineReads /\ IsCommand(port["machine"].buf, "!g:")
    /\ LET id == Tail(port["machine"].buf)
       IN IF \E i \in Items : id = <<Word(i)>>
          THEN Answers(<<Decimal(store[id[1].of], 0, Space)>>) ELSE Answers(<<>>)
    /\ Draws(<<Word("Wert get")>>, store)
    /\ UNCHANGED <<store, ops, lost, unset>>

\* "!s:", a name, "=" and a number; whatever the name, it is repeated.
HandleSet ==
    /\ MachineReads /\ IsCommand(port["machine"].buf, "!s:")
    /\ \E id \in {Id(port["machine"].buf)}, value \in {Atoi(ValueText(port["machine"].buf))} :
          /\ store' = [i \in Items |-> IF id = <<Word(i)>> THEN value ELSE store[i]]
          /\ unset' = { u \in unset : id # <<Word(u[1])>> \/ value # u[2] }
          /\ Answers(<<String(id), Text(Word("=")), Decimal(value, 0, Space), Text(LF)>>)
          /\ Draws(<<Word("Wert set")>>, [i \in Items |-> IF id = <<Word(i)>> THEN value ELSE store[i]])
    /\ UNCHANGED <<ops, lost>>

HandleOther ==
    /\ MachineReads
    /\ ~IsCommand(port["machine"].buf, "!g:") /\ ~IsCommand(port["machine"].buf, "!s:")
    /\ Answers(<<>>)
    /\ Draws(<<>>, store)
    /\ UNCHANGED <<store, ops, lost, unset>>

-----------------------------------------------------------------------------
(* The specification. *)

Closed == [rx |-> <<>>, out |-> <<>>, buf |-> <<>>, bLastWasCR |-> FALSE, pc |-> "off",
           then |-> "idle"]

Init ==
    /\ port = [s \in Sides |-> Closed]
    /\ talk = [o \in Talkers |-> <<>>]
    /\ store = Start
    /\ ops = 0
    /\ lost = [s \in Sides |-> FALSE]
    /\ torn = "never"
    /\ owed = <<>>
    /\ unset = {}
    /\ panel = NoPanel
    /\ shown = [i \in Items |-> {}]

\* No interrupt is being handled.
Running == talk[Handler] = <<>>

\* Com goes on with its call.
ComGoesOn == Running /\ (BoardPut \/ BoardGets \/ LogLine)

Board ==
    \/ Running /\ BoardStarts
    \/ ComGoesOn
    \/ Running /\ \E id \in Items : GetFormMachine(id)
    \/ Running /\ \E id \in Items, value \in Values : SendToMachine(id, value)
    \/ Running /\ \E o \in Others : Log(o) \/ LogPiece(o) \/ TalkPut(o)
    \/ Interrupt
    \/ TalkPut(Handler)

Machine == MachineStarts \/ MachinePut \/ MachineGets \/ HandleGet \/ HandleSet \/ HandleOther

Next == Board \/ Machine

\* Com, the handler and the machine do not stop; when the board sends is up to its
\* users, and a task that was interrupted may wait until com has its line.
Fairness ==
    /\ WF_port(ComGoesOn) /\ WF_port(TalkPut(Handler)) /\ WF_port(MachinePut \/ MachineGets)
    /\ []<>(port["machine"].pc # "line")

Spec == Init /\ [][Next]_vars /\ Fairness

-----------------------------------------------------------------------------
(* Properties. *)

\* What a buffer holds of a line.
Kept(line) == SubSeq(line, 1, IF Len(line) < LINE THEN Len(line) ELSE LINE)

\* FIFOs and buffers are within their sizes, the values fit a long, and the panel
\* is on once the machine runs.
TypeOK ==
    /\ \A s \in Sides : /\ Len(port[s].rx) <= RX_FIFO /\ Len(port[s].buf) <= LINE
                        /\ port[s].bLastWasCR \in BOOLEAN
                        /\ port[s].pc = "put" <=> port[s].out # <<>>
    /\ store \in [Items -> Int32]
    /\ port["machine"].pc # "off" => panel.on

\* The machine reads just the lines that the board sent, in their order -
\* commands, log lines, and the lines the board echoes - although an end of line
\* goes out as one, two or three characters, and whatever the board itself lost.
\* Texts that met on the line, one without an end, and tokens the machine lost do
\* harm to those lines only: it is true again from the first text that begins when
\* all were sent and the machine waits.
LinesArrive ==
    port["machine"].pc = "line" /\ torn # "now" =>
        owed # <<>> /\ port["machine"].buf = Kept(Head(owed).text)

\* The machine holds only what it was set to, although the board sends back the
\* echoes of its commands, which are carried out again; a board that lost a
\* piece of an echo may send back another command, and texts that met may be one.
SetsOnlyIssued ==
    [][~lost["board"] /\ torn = "never" =>
          \A i \in Items : store'[i] # store[i] => store'[i] \in Values]_vars

\* A SET is carried out, whatever the board loses of the echoes and answers, and
\* whatever was torn before, unless another text meets it on the line.
SetsArrive == \A i \in Items, v \in Values :
    <<i, v>> \in unset ~> <<i, v>> \notin unset \/ torn = "now"

\* The board comes back from getFormMachine, which no timeout ends, although the
\* machine's answer has no end of line: the echo of the command has one, in
\* whatever texts it was mixed.
GetReturns ==
    port["board"].pc = "gets" ~> port["board"].pc # "gets" \/ lost["board"] \/ lost["machine"]

RowText(i) ==
    LET behind == { c \in 2 .. COLUMNS : panel.ram[i][c] = Blank }
        last == IF behind = {} THEN COLUMNS ELSE (CHOOSE c \in behind : \A d \in behind : c <= d) - 1
    IN SubSeq(panel.ram[i], 2, last)

Width(value) == Len(StringDecimal(value, 0, Space))

\* What stands behind a name on the panel is the machine's value, if it fits and
\* no longer number was shown before, whose last digits nobody removes.
PanelShowsStore ==
    \A i \in Items :
        (/\ port["machine"].pc = "gets" /\ shown[i] # {}
         /\ Width(store[i]) < COLUMNS
         /\ \A v \in shown[i] : Width(v) <= Width(store[i]))
        => Atoi(RowText(i)) = store[i]
=============================================================================
