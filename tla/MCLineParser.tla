---------------------------- MODULE MCLineParser ----------------------------
(***************************************************************************)
(* Lines of three fields: time stamp, command and path.                    *)
(***************************************************************************)
EXTENDS LineParser

Open1 == <<<<Dot>>, <<"c">>, <<"p">>>>
Open2 == <<<<"1", Dot>>, <<"c">>, <<"q", "r">>>>
LongPath == <<<<Dot>>, <<"c">>, <<"p", "q", "r", "s", "t">>>>
NoTime == <<<<"1">>, <<"c">>, <<"p">>>>
Warning == <<<<"W">>>>
TabInPath == <<<<Dot>>, <<"c">>, <<"p">>, <<"q">>>>
TabsInPath == <<<<Dot>>, <<"c">>, <<"p">>, <<"q">>, <<"r">>>>

Characters == {Dot, "1", "c", "p", "q", "r", "s", "t", "W"}

\* Any one or two lines, and a good one after them.
Lines == {Open2, LongPath, NoTime, Warning, TabInPath, TabsInPath}
AllInputs == {<<a, b, Open1>> : a, b \in Lines}
=============================================================================
