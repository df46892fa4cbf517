-------------------------- MODULE MCProbelistFile --------------------------
(* An instance of ProbelistFile for TLC: the history of seven addresses in    *)
(* five /24s, of which the first is blacklisted and the last has metadata     *)
(* that nobody asked for, split over two probers.                             *)
EXTENDS ProbelistFile

SevenAddresses ==
  {[net |-> n, host |-> 7, recent |-> 4] : n \in {1, 4, 5}}
    \cup [net : 2..3, host : {7}, recent : {-1, 4}]
    \cup [net : {2}, host : {8}, recent : {0, 4}]
    \cup [net : {3}, host : {8}, recent : {1}]

Location(continent, country) ==
  [continent |-> continent, country |-> country, polygons |-> {}]

\* Two or three tags: 2 lies in two countries, 4 has two origins.
Locations ==
  [n \in 1..5 |->
     CASE n = 2 -> {Location("EU", "EU.NL"), Location("EU", "EU.DE")}
       [] n = 5 -> {Location("NA", "NA.US")}
       [] OTHER -> {Location("EU", "EU.NL")}]
Origins ==
  [n \in 1..5 |-> CASE n = 3 -> {{"asn.1"}} [] n = 4 -> {{"asn.1", "asn.2"}} [] OTHER -> {}]

List(key, fields, ip) ==
  <<Token("newline", 0), Open, Token("key", key), Open>> \o fields
    \o <<Open, Token("host_ip", ip), Close, Close, Close>>

\* No number of hosts, the wrong one, and a host of another /24.
ThreeWrongLists ==
  LET Fields(cnt) ==
        <<Token("host_cnt", cnt), Token("avg_resp_rate", 50), Token("meta", <<>>)>>
  IN  {List(5, <<>>, Address(5, 1)), List(5, Fields(2), Address(5, 1)),
       List(5, Fields(1), Address(6, 1))}
=============================================================================
