---------------------------- MODULE ProbelistText ----------------------------
(***************************************************************************)
(* The text of a probelist file, as far as its writer (gen-probelist) and  *)
(* its reader (lib/trinarkular_probelist.c) can tell texts apart: a        *)
(* sequence of tokens, each standing for the characters up to the next one *)
(* that matters.  The version of a /24 is left out.                        *)
(***************************************************************************)
EXTENDS Integers, Sequences, SequencesExt, FiniteSets

Kinds ==
  {"{", "}", ",", "key", "host_cnt", "avg_resp_rate", "meta", "host_ip", "newline"}

Token(kind, value) == [kind |-> kind, value |-> value]

Open  == Token("{", 0)
Close == Token("}", 0)
Comma == Token(",", 0)

\* The address of a host of a network.
Address(network, host) == 256 * network + host

\* The tokens of some kinds, as the text has them, and what they say.
OfKinds(text, kinds) ==
  LET kept[i \in 0..Len(text)] ==
        IF i = 0 THEN <<>>
        ELSE IF text[i].kind \in kinds THEN Append(kept[i - 1], text[i])
        ELSE kept[i - 1]
  IN  kept[Len(text)]

Values(text, kind) ==
  LET own == OfKinds(text, {kind})
  IN  [i \in DOMAIN own |-> own[i].value]

\* A set of numbers as a sequence, from the lowest up.
InOrder(S) ==
  [k \in 1..Cardinality(S) |-> CHOOSE n \in S : Cardinality({m \in S : m < n}) = k - 1]

\* The object of a /24: its network as the key, the number of its hosts, its
\* A(E(b)) in percent, its metadata, and an object for each host.
Object(network, aeb, meta, hosts) ==
  LET HostObject(h) == <<Open, Token("host_ip", Address(network, h)), Close>>
  IN  <<Token("key", network), Open,
        Token("host_cnt", Cardinality(hosts)), Token("avg_resp_rate", aeb),
        Token("meta", SetToSeq(meta))>>
      \o FlattenSeq([i \in 1..Cardinality(hosts) |->
                       HostObject(InOrder(hosts)[i])])
      \o <<Close>>

\* The networks named by a text, in order.
Networks(text) == Values(text, "key")

=============================================================================
