---------------------------- MODULE MCParamForms ----------------------------
(* Pages, values and inputs for model checking ParamForms. *)
EXTENDS ParamForms

Tag(item, type, min, max, increment) ==
    [item |-> item, type |-> type, min |-> min, max |-> max, increment |-> increment]

SomeItems == {"curve", "count", "run", "light", "night"}

\* A float with limits, a checkbox behind a number and one in front, whose tick
\* the machine rejects, a number without limits and a time.
SomePages ==
    { <<Tag("curve", "float", 0, 1, 1), Tag("run", "checkbox", 0, 0, 1),
        Tag("count", "integer", 1, 3, 2)>>,
      <<Tag("light", "checkbox", 0, 0, 1), Tag("count", "integer", 1, 3, 2)>>,
      <<Tag("count", "integer", -1, -1, 40), Tag("night", "time", 0, 0, 1)>> }

SomeStores ==
    { [item \in SomeItems |->
        CASE item = "curve" -> c [] item = "count" -> n
          [] item \in {"run", "light"} -> 0 [] item = "night" -> 7] : c \in {-12, 4}, n \in {-1, 2} }

SomeRefused == { <<"count", 3>>, <<"curve", 5>>, <<"light", 1>> }

Entry(texts, means) == [texts |-> texts, means |-> means]

Nonsense == [on |-> FALSE, pieces |-> << <<>> >>]

\* Numbers, nonsense, a negative float as people write it, two digits behind the
\* point, no point, and more than a long holds.
SomeTyped ==
    [type \in {"integer", "float", "checkbox", "time"} |->
        CASE type = "integer"  -> { Entry(<<Number(1)>>, <<1>>), Entry(<<Number(3)>>, <<3>>),
                                    Entry(<<Number(WORD + 5)>>, <<WORD + 5>>),
                                    Entry(<<Nonsense>>, <<>>) }
          [] type = "float"    -> { Entry(<<Decimal(0, 5)>>, <<5>>),
                                    Entry(<<Decimal(-1, 5)>>, <<-15>>),
                                    Entry(<<Decimal(1, 25)>>, <<>>),
                                    Entry(<<Number(2)>>, <<20>>) }
          [] type = "checkbox" -> { Entry(<<On>>, <<1>>), Entry(<<>>, <<0>>) }
          [] type = "time"     -> { Entry(<<Number(2), Number(1)>>, <<2 * HOUR + 1>>),
                                    Entry(<<Nonsense, Number(1)>>, <<>>) } ]
=============================================================================
