--------------------------- MODULE MachineScreen ---------------------------
(***************************************************************************)
(* The simulator's display (rit128x96x4.c): a panel whose controller takes *)
(* commands and data, and the drawing of lines of text on it.              *)
(*                                                                         *)
(* The panel is a record: whether the driver may use the port              *)
(* (g_bSSIEnabled), whether the controller shows anything, and what it     *)
(* holds.  A column is the width of one character; text starts at the left *)
(* edge, as all of the simulator's does.                                   *)
(***************************************************************************)
EXTENDS Console

CONSTANTS
    Lines,          (* The places of lines of text, ulY.                   *)
    COLUMNS         (* Characters in a row: 21 on the panel, of which the  *)
                    (* name in front of a value takes 12; here it takes 1. *)

ASSUME ScreenAssumption == COLUMNS \in Nat \ {0}

Blank == [kind |-> "blank"]
Garbage == [kind |-> "garbage"]       (* The memory at power-up.      *)

NoPanel == [bSSIEnabled |-> FALSE, on |-> FALSE,
            ram |-> [y \in Lines |-> [c \in 1 .. COLUMNS |-> Garbage]]]

-----------------------------------------------------------------------------
(* The controller. *)

\* The row of a window into which tokens are written from the left, and which
\* goes on at the first column behind the last one.
Written(row, tokens) ==
    [c \in 1 .. COLUMNS |->
        IF c > Len(tokens) THEN row[c]
        ELSE tokens[c + COLUMNS * ((Len(tokens) - c) \div COLUMNS)]]

\* Of the commands, only the switches change what is seen.
Commanded(panel, command) ==
    [panel EXCEPT !.on = IF command \in {"on", "off"} THEN command = "on" ELSE @]

-----------------------------------------------------------------------------
(* The driver. *)

\* A window is set up and written, for some lines at once.
RITWriteData(panel, texts) ==
    IF panel.bSSIEnabled
    THEN [panel EXCEPT !.ram = [y \in Lines |-> IF y \in DOMAIN texts THEN Written(@[y], texts[y])
                                               ELSE @[y]]]
    ELSE panel

RITWriteCommand(panel, command) ==
    IF panel.bSSIEnabled THEN Commanded(panel, command) ELSE panel

RIT128x96x4Enable(panel) == [panel EXCEPT !.bSSIEnabled = TRUE]

\* Every row is filled with zeros.
RIT128x96x4Clear(panel) == RITWriteData(panel, [y \in Lines |-> [c \in 1 .. COLUMNS |-> Blank]])

\* The sequence that the controller is set up with.
g_pucRIT128x96x4Init ==
    << "unlock", "off", "icon off", "multiplex ratio", "contrast", "pre-charge", "re-map",
       "start line", "offset", "mode normal", "phase length", "frame frequency", "clock divider",
       "gray scale", "second pre-charge", "pre-charge voltage", "on" >>

\* Its commands in their order: the last one that switches the display counts.
LastSwitch ==
    LET switches == { k \in DOMAIN g_pucRIT128x96x4Init : g_pucRIT128x96x4Init[k] \in {"on", "off"} }
    IN g_pucRIT128x96x4Init[CHOOSE k \in switches : \A j \in switches : j <= k]

RIT128x96x4Init(panel) ==
    RITWriteCommand(RIT128x96x4Clear(RIT128x96x4Enable(panel)), LastSwitch)

\* Mutant: the last column is left out.
StringDrawShort(panel, texts) ==
    RITWriteData(panel, [y \in DOMAIN texts |->
        SubSeq(texts[y], 1, IF Len(texts[y]) < COLUMNS - 1 THEN Len(texts[y]) ELSE COLUMNS - 1)])

\* Text from the left edge, as far as there is room; what is behind it stays.
StringDraw(panel, texts) ==
    RITWriteData(panel, [y \in DOMAIN texts |->
        SubSeq(texts[y], 1, IF Len(texts[y]) < COLUMNS THEN Len(texts[y]) ELSE COLUMNS)])
=============================================================================
