------------------------------ MODULE MCDisplay ------------------------------
(* Pages for model checking Display. *)
EXTENDS Display

\* The menu; a page with inputs, which the machine may not answer, a button to
\* store them and a link to the menu; and the answer to storing them.
MCPages == [page \in {"index", "demo", "set"} |->
    CASE page = "index" -> {<<"menu", "to_demo">>}
      [] page = "demo"  -> {<<"night", "running", "group", "store", "to_index">>,
                            <<"store", "to_index">>}
      [] page = "set"   -> {<<"stored", "to_index">>}]

MCTag == [t \in {"menu", "to_demo", "night", "running", "group", "store", "stored",
                 "to_index"} |->
    CASE t = "menu"     -> [type |-> "Titel", value |-> "none"]
      [] t = "to_demo"  -> [type |-> "Hyperlink", value |-> "demo"]
      [] t = "night"    -> [type |-> "FloatInputField", value |-> "none"]
      [] t = "running"  -> [type |-> "CheckboxInputField", value |-> "none"]
      [] t = "group"    -> [type |-> "Group", value |-> "none"]
      [] t = "store"    -> [type |-> "SubmitInputField", value |-> "none"]
      [] t = "stored"   -> [type |-> "Group", value |-> "none"]
      [] t = "to_index" -> [type |-> "Hyperlink", value |-> "index"]]

MCLoads == [t \in Tasks |-> 2]
=============================================================================
