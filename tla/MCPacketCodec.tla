--------------------------- MODULE MCPacketCodec ---------------------------
(***************************************************************************)
(* Packets of short strings.  With base 5 and at most two digits, those of *)
(* five bytes and more have a remaining length of two bytes, and a CONNECT *)
(* with everything in it is too long.                                      *)
(***************************************************************************)
EXTENDS PacketCodec

x == 120
Strings == {<<>>, <<x>>, <<x, 0, 255>>}

Wills == {None} \cup [topic : {<<x>>}, payload : {<<>>, <<1, 2>>}, qos : 0..2, retained : BOOLEAN]

Connects == [op : {"CONNECT"}, id : {<<>>, <<x, x>>}, clean : BOOLEAN, keepAlive : {258},
             will : Wills, username : Strings, password : Strings]

Publishes ==
  {p \in [op : {"PUBLISH"}, dup : BOOLEAN, qos : 0..2, retained : BOOLEAN,
          packetId : {0, 7, 65535}, topic : Strings,
          payload : {<<>>, <<0>>, <<1, 2, 3, 4, 5, 6, 7, 8, 9, 10, 11, 12>>}] :
     p.packetId = 0 <=> p.qos = 0}

FilterLists == {<<<<x>>>>, <<<<x, x>>, <<1>>>>, << <<x>>, <<x, 1, 2, 3, 4, 5, 6, 7>>, <<>> >>}

Subscribes ==
  {[op |-> "SUBSCRIBE", packetId |-> 256, filters |-> f, qos |-> [i \in DOMAIN f |-> (i + q) % 3]] :
     f \in FilterLists, q \in 0..2}

Unsubscribes == [op : {"UNSUBSCRIBE"}, packetId : {1}, filters : FilterLists]

Acks == [op : AckTypes, packetId : {1, 256, 65535}]

Zeros == [op : {"PINGREQ", "DISCONNECT"}]

Connacks == [op : {"CONNACK"}, sessionPresent : BOOLEAN, returnCode : 0..5]

Subacks == [op : {"SUBACK"}, packetId : {9}, granted : {<<0>>, <<128>>, <<1, 2>>, <<2, 0, 1>>}]

MCRequests == Connects \cup Publishes \cup Subscribes \cup Unsubscribes \cup Acks
              \cup Zeros \cup Connacks \cup Subacks

MCRooms == {0, 1, 3, 8, 17, 64}

MCStale == {<<0>>, <<255, 7, 48>>}

\* The header of each type with flags 0, 2 and 6; lengths of one and two
\* bytes; then small numbers and a refusal.
MCAnyBytes ==
  << {16 * type + flags : type \in 0..15, flags \in {0, 2, 6}}, {0, 2, 3, 4, 5, 7},
     {0, 1, 2, 8}, {0, 1, 2}, {0, 1, 128}, {0, 1, 2} >>

=============================================================================
