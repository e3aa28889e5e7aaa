--------------------------- MODULE MCWireSession ---------------------------
EXTENDS WireSession

MCSimple == {<<>>, <<"begin">>, <<"commit">>, <<"rollback">>, <<"write">>, <<"other">>}
MCPrepared == {<<"write", "$1">>, <<"read", "$1", "$2">>}

(* A number and a date.                                                    *)
MCNumbers == {"7"}
MCDigits == {"7", "2024-01-01"}

(* A number, a text with a NULL, a text that holds $1, the word null, a    *)
(* date, a text with a quote, no parameters, format codes, and a portal by *)
(* name.                                                                   *)
Bound(portal, name, params, formats) ==
    [type |-> "B", portal |-> portal, name |-> name, params |-> params, formats |-> formats]
MCBinds ==
    {Bound("", name, params, FALSE) :
        name \in Names, params \in {<<>>, << <<"7">> >>, << None, <<"x">> >>}}
    \cup {Bound("", "s", << <<"x">>, <<"$1">> >>, FALSE), Bound("", "", << <<"null">> >>, FALSE),
          Bound("", "", << <<"2024-01-01">> >>, FALSE), Bound("", "", << <<"x", "'">> >>, FALSE),
          Bound("", "s", << <<"7">> >>, TRUE), Bound("p", "s", << <<"7">> >>, FALSE)}
=============================================================================
