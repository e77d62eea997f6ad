---------------------------- MODULE MachineAccess ----------------------------
(***************************************************************************)
(* What the web server expects of the communication with the machine: the  *)
(* values are set in the order in which the sets were issued, and a read,  *)
(* which the reader waits for, returns the value that its id has in the    *)
(* machine once every set issued before it has been carried out.           *)
(***************************************************************************)
EXTENDS Sequences

CONSTANTS Items, Values, NoValue, Accepts

VARIABLES
    store,      (* The values in the machine.                              *)
    writes,     (* The sets that are not carried out yet.                  *)
    read        (* The read that is under way, if any.                     *)

accessVars == <<store, writes, read>>

NoRead == [status |-> "idle"]

Init ==
    /\ store \in [Items -> Values]
    /\ writes = <<>>
    /\ read = NoRead

\* The server issues a set.
Write(i, v) ==
    /\ read = NoRead
    /\ writes' = Append(writes, <<i, v>>)
    /\ UNCHANGED <<store, read>>

\* The machine carries out the first set; it may refuse the value.
Apply ==
    /\ writes # <<>>
    /\ store' = IF Head(writes) \in Accepts
                THEN [store EXCEPT ![Head(writes)[1]] = Head(writes)[2]]
                ELSE store
    /\ writes' = Tail(writes)
    /\ UNCHANGED read

\* The server asks for a value.
Ask(i) ==
    /\ read = NoRead
    /\ read' = [status |-> "asked", item |-> i]
    /\ UNCHANGED <<store, writes>>

\* The machine answers.
Answer ==
    /\ read.status = "asked"
    /\ writes = <<>>
    /\ read' = [status |-> "answered", item |-> read.item,
                value |-> store[read.item]]
    /\ UNCHANGED <<store, writes>>

\* The server takes the answer.
Return ==
    /\ read.status = "answered"
    /\ read' = NoRead
    /\ UNCHANGED <<store, writes>>

Next ==
    \/ \E i \in Items, v \in Values : Write(i, v)
    \/ Apply
    \/ \E i \in Items : Ask(i)
    \/ Answer
    \/ Return

\* What must not happen, and what must.
SafeSpec == Init /\ [][Next]_accessVars

Spec ==
    /\ SafeSpec
    /\ WF_accessVars(Apply)
    /\ WF_accessVars(Answer)
    /\ WF_accessVars(Return)
=============================================================================
