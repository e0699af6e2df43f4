------------------------------ MODULE MCStation ------------------------------
(***************************************************************************)
(* Instances of Station for TLC: some of the workers, with the routes the  *)
(* code has between them.                                                  *)
(***************************************************************************)
EXTENDS Station

\* Every statement that sends: who, to whom, with which requestId.
CodeRoute ==
  {<<Main, w, "HEART_BEAT">> : w \in {Log, Temp, Light, Socket}} \cup
  {<<w, Main, "HEART_BEAT">> : w \in {Log, Temp, Light, Socket}} \cup
  {<<t, Log, "LOG_MSG">> : t \in {Main, Temp, Light}} \cup
  {<<Socket, q, "GET_TEMP_C">> : q \in {Temp, Log}} \cup
  {<<Socket, q, "GET_LIGHT">> : q \in {Light, Log}} \cup
  {<<Temp, Socket, "GET_TEMP_C">>, <<Light, Socket, "GET_LIGHT">>}

Restricted == CodeRoute \cap (Task \X Task \X Request)

Requests == {"HEART_BEAT", "LOG_MSG"}

\* A client asks for the temperature or for the light.
AllRequests == {"HEART_BEAT", "LOG_MSG", "GET_TEMP_C", "GET_LIGHT"}

LogOnly == {Main, Log}

JustLog == <<Log>>

LogThenTemp == <<Log, Temp>>

AllWorkers == <<Log, Temp, Light, Socket>>

AllFive == {Main, Log, Temp, Light, Socket}

LogAndTemp == {Main, Log, Temp}

=============================================================================
