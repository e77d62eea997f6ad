------------------------------ MODULE ReadyList ------------------------------
(***************************************************************************)
(* The ready list of one priority level of the FreeRTOS V6.0.0 kernel.     *)
(*                                                                         *)
(* The kernel keeps a circular list of the ready tasks and an index into   *)
(* it.  listGET_OWNER_OF_NEXT_ENTRY advances the index and runs the task   *)
(* it then points to; vListInsertEnd puts a new item AFTER the index and   *)
(* moves the index onto it.  What matters of the list is the order in      *)
(* which its items will be visited, starting behind the index:             *)
(*                                                                         *)
(*   - the task that is chosen becomes the last one to be visited again;   *)
(*   - a task that is inserted becomes the last one to be visited, so it   *)
(*     comes after the running task, which is still in the list;           *)
(*   - removing a task (vListRemove) changes nothing for the others.       *)
(*                                                                         *)
(* The order is a relation: <<a, b>> \in order when a is visited before b. *)
(***************************************************************************)

\* vListRemove: t leaves the list.
Removed(order, t) == { p \in order : p[1] # t /\ p[2] # t }

\* vListInsertEnd, and what choosing t does to the order: every task of the
\* list is now visited before t.
VisitLast(order, list, t) ==
    Removed(order, t) \cup { <<a, t>> : a \in list \ {t} }

\* listGET_OWNER_OF_NEXT_ENTRY: t is the task behind the index.
IsNext(order, list, t) ==
    /\ t \in list
    /\ \A a \in list \ {t} : <<a, t>> \notin order
=============================================================================
