------------------------------ MODULE MCDevices ------------------------------
(***************************************************************************)
(* The devices and the pure code of the node, which share no state, in one *)
(* run: a behaviour is one of one of them, chosen at the start, while the  *)
(* others stay where they begin.                                           *)
(***************************************************************************)
EXTENDS Pms, DeviceTime, GpsReceiver, Calendar, MqttCodec, ScanPage

VARIABLE part

(* Values for TLC: a character that looks like a "B" in two packets that   *)
(* follow each other, and in one that follows a plain one.                 *)
MCLooksLikeB == {<<0, 1>>, <<1, 1>>, <<3, 2>>}

(* Texts of no, one and two characters; a length of up to three digits.  *)
MCPackets ==
  LET Option == {None, <<<<>>>>, <<<<2>>>>}
      Topics == {<<>>, <<1>>, <<1, 2>>}
      FilterLists == {<<<<1>>>>, <<<<1>>, <<2, 3>>>>}
  IN [type : {"CONNECT"}, protocol : {<<4>>}, version : {4}, cleansession : BOOLEAN,
      keepAlive : {9}, clientID : {<<>>, <<1>>},
      will : {None, <<1, TRUE, <<1>>, <<>>>>, <<0, FALSE, <<1>>, <<2, 3>>>>},
      username : Option, password : Option]
     \cup [type : {"CONNECT"}, protocol : {<<3>>}, version : {3}, cleansession : {TRUE},
           keepAlive : {0}, clientID : {<<1>>}, will : {None}, username : {None}, password : {None}]
     \cup [type : {"CONNACK"}, session : BOOLEAN, code : {0, 5}]
     \cup [type : {"PUBLISH"}, dup : BOOLEAN, qos : {0}, retain : BOOLEAN, topic : Topics, id : {0},
           payload : {<<>>, <<5>>, [i \in 1 .. 12 |-> 7]}]
     \cup [type : {"PUBLISH"}, dup : BOOLEAN, qos : {1, 2}, retain : BOOLEAN, topic : Topics,
           id : {1, 9}, payload : {<<>>, <<5>>}]
     \cup {[type |-> "SUBSCRIBE", dup |-> d, id |-> 1, filters |-> f, qoss |-> [i \in DOMAIN f |-> q]] :
             d \in BOOLEAN, f \in FilterLists, q \in 0 .. 2}
     \cup [type : {"UNSUBSCRIBE"}, dup : BOOLEAN, id : {1}, filters : FilterLists]
     \cup [type : {"SUBACK"}, id : {9}, granted : {<<0>>, <<1, 2>>}]
     \cup [type : Acks \ {"PUBREL"}, dup : {FALSE}, id : {1, 9}]
     \cup [type : {"PUBREL"}, dup : BOOLEAN, id : {1, 9}]
     \cup [type : Empty]

(* Three networks or less, of which the strongest may hide its name, or    *)
(* four, and then it does not.                                             *)
MCScans ==
  {s \in UNION {[1 .. n -> [ssid : {"one", "two", "three", "hidden"}, rssi : {-90, -50}]] : n \in 1 .. 4} :
     /\ \E i \in DOMAIN s : s[i].rssi = -50
     /\ 4 \in DOMAIN s => \A i \in DOMAIN s : s[i].ssid = "hidden" => s[i].rssi = -90}

(* Not more than two of the longer names fit into a token.  *)
MCSsidLen == [ssid \in {"one", "two", "three", "hidden"} |->
                CASE ssid = "one" -> 30 [] ssid = "two" -> 18 [] ssid = "three" -> 4 [] OTHER -> 0]
------------------------------------------------------------------------------
DevicesInit ==
  /\ part \in {"pms", "time", "gps", "calendar", "codec", "page"}
  /\ Init /\ TimeInit /\ GpsInit /\ PageInit
  /\ IF part = "calendar" THEN CalendarInit ELSE instant = NoInstant
  /\ IF part = "codec" THEN CodecInit ELSE CodecIdle

DevicesNext ==
  \/ part = "pms" /\ Next /\ UNCHANGED <<part, timeVars, gpsVars, instant, codecVars, pageVars>>
  \/ part = "time" /\ TimeNext /\ UNCHANGED <<part, vars, gpsVars, instant, codecVars, pageVars>>
  \/ part = "gps" /\ GpsNext /\ UNCHANGED <<part, vars, timeVars, instant, codecVars, pageVars>>
  \/ part = "codec" /\ CodecNext /\ UNCHANGED <<part, vars, timeVars, gpsVars, instant, pageVars>>
  \/ part = "page" /\ PageNext /\ UNCHANGED <<part, vars, timeVars, gpsVars, instant, codecVars>>

DevicesSpec == DevicesInit /\ [][DevicesNext]_<<part, vars, timeVars, gpsVars, instant, codecVars, pageVars>>
==============================================================================
