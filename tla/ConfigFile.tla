----------------------------- MODULE ConfigFile -----------------------------
(***************************************************************************)
(* The configuration file of the board and loadFromConfig                  *)
(* (configuration/configloader.c), which reads it block by block through a *)
(* buffer that keeps what was read last, and scans it character by         *)
(* character for one parameter.                                            *)
(*                                                                         *)
(* A text is a sequence of characters, the line end, the comment sign and  *)
(* the equals sign among them; " " stands for everything that ends a value.*)
(***************************************************************************)
EXTENDS Naturals, Sequences, SequencesExt

CONSTANTS
    READBUFFERLEN       (* Characters read at once.                        *)

ASSUME ConfigAssumption == READBUFFERLEN \in Nat \ {0}

EOL == "eol"

ZeroBuffer == [i \in 1..READBUFFERLEN |-> "0"]

(***************************************************************************)
(* fs_read fills the front of the buffer.  The rest keeps what it held,    *)
(* and the scan runs over all of it.                                       *)
(***************************************************************************)
Blocks(text) == (Len(text) + READBUFFERLEN - 1) \div READBUFFERLEN

Block(text, k) == SubSeq(text, (k - 1) * READBUFFERLEN + 1,
                         IF k * READBUFFERLEN < Len(text) THEN k * READBUFFERLEN
                                                          ELSE Len(text))

FillBuffer(buffer, block) ==
    block \o SubSeq(buffer, Len(block) + 1, READBUFFERLEN)

(***************************************************************************)
(* The scan: name and value as collected so far (named: nameLen > 0, which *)
(* clearing the name does not reset), whether the equals sign was met,     *)
(* whether this is a comment, the character before, and skipping while one *)
(* of the inner loops runs to the end of the line.                         *)
(***************************************************************************)
NewLine(s) == [s EXCEPT !.name = <<>>, !.value = <<>>, !.named = FALSE,
                        !.before = TRUE, !.comment = FALSE]

StartScan(buffer) ==
    [name |-> <<>>, value |-> <<>>, named |-> FALSE, before |-> TRUE,
     comment |-> FALSE, last |-> EOL, skipping |-> FALSE, found |-> FALSE,
     result |-> {}, buffer |-> buffer]

\* paramAndValueFound: the value up to its first blank; NULL when there is none.
ParamAndValueFound(s) ==
    LET stop == SelectInSeq(s.value, LAMBDA c : c = " ")
    IN [s EXCEPT !.found = TRUE,
                 !.result = IF s.value = <<>> THEN {}
                            ELSE IF stop = 0 THEN {s.value}
                            ELSE {SubSeq(s.value, 1, stop - 1)}]

\* Mutant: the line end that ends a comment is not remembered.
SkipForgettingEnd(s, c) == [s EXCEPT !.skipping = c # EOL]

\* To the end of the line, at most to the end of the block.
Skip(s, c) == IF c = EOL THEN [s EXCEPT !.skipping = FALSE, !.last = EOL]
                         ELSE [s EXCEPT !.skipping = TRUE]

CommentSign(s, c, param) ==
    IF c = "#" /\ (s.named \/ s.value # <<>>) /\ s.name = param /\ ~s.before
    THEN ParamAndValueFound(s)
    ELSE Skip([s EXCEPT !.comment = TRUE,
                        !.name = IF c = "#" THEN <<>> ELSE @,
                        !.value = IF c = "#" THEN <<>> ELSE @], c)

EqualsSign(s, c, param) ==
    IF s.name = param THEN [s EXCEPT !.before = FALSE, !.last = c]
    ELSE Skip([s EXCEPT !.before = FALSE, !.name = <<>>], c)

LineEnd(s, c, param) ==
    IF s.name = param THEN ParamAndValueFound(s)
    ELSE [s EXCEPT !.comment = FALSE, !.before = TRUE, !.name = <<>>,
                   !.value = <<>>, !.last = c]

OtherCharacter(s, c) ==
    IF s.before THEN [s EXCEPT !.name = Append(@, c), !.named = TRUE, !.last = c]
                ELSE [s EXCEPT !.value = Append(@, c), !.last = c]

Character(s0, c, param) ==
    IF s0.found THEN s0
    ELSE IF s0.skipping THEN Skip(s0, c)
    ELSE LET s == IF s0.last = EOL THEN NewLine(s0) ELSE s0
         IN IF s.comment \/ c = "#" THEN CommentSign(s, c, param)
            ELSE IF c = "=" /\ s.named THEN EqualsSign(s, c, param)
            ELSE IF c = EOL THEN LineEnd(s, c, param)
            ELSE OtherCharacter(s, c)

(***************************************************************************)
(* One round of the reading loop.  An inner loop that runs into the end of *)
(* the buffer reads the byte behind it, beyond, as the last character.     *)
(***************************************************************************)
ScanBlock(s0, block, param, beyond) ==
    IF s0.found THEN s0
    ELSE LET full == FillBuffer(s0.buffer, block)
             s    == FoldLeft(LAMBDA t, c : Character(t, c, param),
                              [s0 EXCEPT !.buffer = full], full)
         IN IF s.skipping THEN [s EXCEPT !.skipping = FALSE, !.last = beyond] ELSE s

(***************************************************************************)
(* The value returned, as a set: empty for NULL.  The buffer is a variable *)
(* of the program, but no other file is read through it: what lies behind  *)
(* a file shorter than the buffer are the zeros it began with, and a       *)
(* longer file overwrites them all before its last block.                  *)
(***************************************************************************)
LoadFromConfig(text, param, beyond) ==
    FoldLeft(LAMBDA s, k : ScanBlock(s, Block(text, k), param, beyond),
             StartScan(ZeroBuffer), [k \in 1..Blocks(text) |-> k]).result
=============================================================================
