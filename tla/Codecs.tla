-------------------------------- MODULE Codecs --------------------------------
(* The conversions at the border of the adapter, side by side: time stamps,   *)
(* Base64, JSON and the configuration file.  They share no state, so that a   *)
(* behaviour exercises one of them: a codec moves only while the others are   *)
(* in their initial states.                                                   *)
EXTENDS Calendar, Base64, Json, Config

codecsVars == <<calendarVars, data, jsonVars, configVars>>

Init == CalendarInit /\ DataInit /\ JsonInit /\ ConfigInit

CalendarStep ==
  /\ DataInit /\ JsonInit /\ ConfigInit
  /\ Tomorrow
  /\ UNCHANGED <<data, jsonVars, configVars>>

DataStep ==
  /\ CalendarInit /\ JsonInit /\ ConfigInit
  /\ NextByte
  /\ UNCHANGED <<calendarVars, jsonVars, configVars>>

JsonStep ==
  /\ CalendarInit /\ DataInit /\ ConfigInit
  /\ ReadToken
  /\ UNCHANGED <<calendarVars, data, configVars>>

ConfigStep ==
  /\ CalendarInit /\ DataInit /\ JsonInit
  /\ WriteLine
  /\ UNCHANGED <<calendarVars, data, jsonVars>>

Next == CalendarStep \/ DataStep \/ JsonStep \/ ConfigStep

Spec == Init /\ [][Next]_codecsVars
===============================================================================
