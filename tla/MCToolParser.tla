---------------------------- MODULE MCToolParser ----------------------------
(* Answers of the model: content or none, up to two calls, arguments of a  *)
(* string and of a number type, values with a character to escape, empty   *)
(* values, and white space between tags as the chat template puts it.      *)
EXTENDS ToolParser

MCStringKey == {<<"k">>}

Arg(key, value, ws) ==
    <<"<key>", key, "</key>">> \o ws \o <<"<value>">> \o value \o <<"</value>">> \o ws

Call(name, args, ws) == <<"<call>", name, "<sep>">> \o ws \o args \o <<"</call>">> \o ws

StringArgs == {Arg("k", v, ws) : v \in {<<>>, <<"x", "quote">>, <<"ws", "x", "x">>}, ws \in {<<>>, <<"ws">>}}
NumberArgs == {Arg("n", <<"4", "2">>, ws) : ws \in {<<>>, <<"ws">>}}

ArgLists == {<<>>} \cup StringArgs \cup NumberArgs
            \cup {a \o b : a \in StringArgs, b \in NumberArgs}
            \cup {a \o b : a \in NumberArgs, b \in StringArgs}

CallLists == {Call("f", a, ws) : a \in ArgLists, ws \in {<<>>, <<"ws">>}}
             \cup {Call("f", a, ws) \o Call("g", b, ws) :
                    a \in {<<>>} \cup StringArgs, b \in {<<>>} \cup NumberArgs, ws \in {<<>>, <<"ws">>}}

MCTexts == {<<"x">>} \cup {c \o <<"<calls>">> \o l \o <<"</calls>">> :
                            c \in {<<>>, <<"x", "x">>}, l \in CallLists}
=============================================================================
