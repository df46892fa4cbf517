-------------------------- MODULE ProbelistReader --------------------------
(***************************************************************************)
(* How the prober reads a probelist (lib/trinarkular_probelist.c,          *)
(* trinarkular_probelist_create): buffer by buffer, cutting out the object *)
(* of one /24 at a time by counting braces, and handing it to a JSON       *)
(* parser.  The scan goes to the end of the buffer even when fewer bytes   *)
(* were read, whether the file has ended or not.                           *)
(*                                                                         *)
(* The JSON parser is external; it ignores commas.  An object has its      *)
(* version whenever it has its number of hosts.                            *)
(*                                                                         *)
(* An operator whose name starts with Mut is a broken variant of the one   *)
(* it precedes; no specification uses it.                                  *)
(***************************************************************************)
EXTENDS ProbelistText, Functions

CONSTANTS
  BufSizes,  \* lengths of the buffer, in tokens
  Counts,    \* how many tokens a read may return although there are more
  MetaMax    \* UINT8_MAX

\* What the constants may be; module ProbelistFile assumes it.
ReaderConstants ==
  /\ BufSizes \subseteq Nat \ {0} /\ Counts \subseteq Nat \ {0}
  /\ MetaMax \in Nat \ {0}

VARIABLES
  result,     \* "none", "reading", "ok", "error", or "aborted" by an assertion
  file,       \* the text being read, and how much of it has been
  filePos,
  buf,
  bufp,       \* tokens of the buffer already scanned
  state,      \* "OUTER_OPEN" or "S24"
  obj_start,  \* braces seen since the last object
  obj_end,
  js,         \* what has been copied since the last object
  slash24s,   \* the /24s of the list, in the order of probing
  s24_hash,   \* network -> its hosts, its A(E(b)) in percent and its metadata
  readFailed, \* did a read fail? for the properties
  readShort   \* did one return less than it could? for the properties

fileVars == <<file, filePos, buf>>
countVars == <<obj_start, obj_end>>
listVars == <<slash24s, s24_hash>>
readVars == <<readFailed, readShort>>
vars == <<result, fileVars, bufp, state, countVars, js, listVars, readVars>>

\* What the memory of the buffer may hold before the first read.
Garbage == {Open, Close, Token("host_ip", 0)}

Create(text) ==
  /\ result = "none"
  /\ result' = "reading"
  /\ file' = text
  /\ filePos' = 0
  /\ \E n \in BufSizes, g \in Garbage : buf' = [i \in 1..n |-> g] /\ bufp' = n
  /\ state' = "OUTER_OPEN"
  /\ obj_start' = 0 /\ obj_end' = 0
  /\ js' = <<>>
  /\ slash24s' = <<>> /\ s24_hash' = <<>>
  /\ readFailed' = FALSE /\ readShort' = FALSE

-----------------------------------------------------------------------------
(* Reading the file                                                          *)

AtBufferEnd == result = "reading" /\ bufp = Len(buf)

Shuffles(s) ==
  {[i \in DOMAIN s |-> s[p[i]]] : p \in Bijection(DOMAIN s, DOMAIN s)}

\* The list is complete: "randomize the /24s".
Done == result' = "ok" /\ slash24s' \in Shuffles(slash24s) /\ UNCHANGED s24_hash

\* wandio_read: some of the bytes there are; the rest of the buffer keeps what it
\* held, and is scanned like the others.
ReadBuffer ==
  /\ AtBufferEnd
  /\ filePos < Len(file)
  /\ LET most == Min({Len(buf), Len(file) - filePos})
     IN  \E n \in {most} \cup {m \in Counts : m < most} :
           /\ buf' = SubSeq(file, filePos + 1, filePos + n) \o SubSeq(buf, n + 1, Len(buf))
           /\ filePos' = filePos + n
           /\ readShort' = (readShort \/ n < most)
  /\ bufp' = 0
  /\ UNCHANGED <<result, file, state, countVars, js, listVars, readFailed>>

\* The file ends before the list does: that is no error.
FileEnds ==
  /\ AtBufferEnd
  /\ filePos = Len(file)
  /\ Done
  /\ UNCHANGED <<fileVars, bufp, state, countVars, js, readVars>>

\* "Probelist may be incomplete".  What could still be read before the failure
\* came with the read before this one.
ReadFails ==
  /\ AtBufferEnd
  /\ Done
  /\ readFailed' = TRUE
  /\ UNCHANGED <<fileVars, bufp, state, countVars, js, readShort>>

-----------------------------------------------------------------------------
(* Scanning the buffer                                                       *)

Byte == buf[bufp + 1]

Scans(s) ==
  /\ result = "reading"
  /\ bufp < Len(buf)
  /\ state = s
  /\ bufp' = bufp + 1
  /\ UNCHANGED <<fileVars, readVars>>

SkipByte ==
  /\ Scans("OUTER_OPEN")
  /\ Byte.kind # "{"
  /\ UNCHANGED <<result, state, countVars, js, listVars>>

\* The brace of the whole list is not one of an object's.
OuterOpen ==
  /\ Scans("OUTER_OPEN")
  /\ Byte.kind = "{"
  /\ state' = "S24"
  /\ obj_start' = 0 /\ obj_end' = 0
  /\ UNCHANGED <<result, js, listVars>>

CopyByte ==
  /\ Scans("S24")
  /\ Byte.kind \notin {"{", "}"}
  /\ js' = Append(js, Byte)
  /\ UNCHANGED <<result, state, countVars, listVars>>

CopyOpen ==
  /\ Scans("S24")
  /\ Byte.kind = "{"
  /\ js' = Append(js, Byte)
  /\ obj_start' = obj_start + 1
  /\ UNCHANGED <<result, state, obj_end, listVars>>

\* The object ends with the first host.
MutEndsObject == obj_start > 0

EndsObject == obj_start = obj_end + 1

CopyClose ==
  /\ Scans("S24")
  /\ Byte.kind = "}"
  /\ obj_start > 0
  /\ ~EndsObject
  /\ js' = Append(js, Byte)
  /\ obj_end' = obj_end + 1
  /\ UNCHANGED <<result, state, obj_start, listVars>>

\* A brace that closes nothing is skipped.
MutListEnds ==
  /\ Scans("S24")
  /\ Byte.kind = "}"
  /\ obj_start = 0
  /\ UNCHANGED <<result, state, countVars, js, listVars>>

\* "if we see a '}' before any '{' then the json is over"
ListEnds ==
  /\ Scans("S24")
  /\ Byte.kind = "}"
  /\ obj_start = 0
  /\ js' = Append(js, Byte)
  /\ Done
  /\ UNCHANGED <<state, countVars>>

-----------------------------------------------------------------------------
(* The object of a /24: process_json, process_json_slash24                   *)

\* The object that ends here, without the commas.
Json == OfKinds(Append(js, Byte), Kinds \ {","})

Network == Json[1].value
HostIps == Values(Json, "host_ip")

IsMember == Json[1].kind = "key" /\ Json[2].kind = "{"

ObjectEnds ==
  /\ Scans("S24")
  /\ Byte.kind = "}"
  /\ EndsObject
  /\ obj_start' = 0 /\ obj_end' = 0
  /\ js' = <<>>
  /\ UNCHANGED state

\* The assertion is compiled out.
MutHostsBelong == TRUE

\* assert((host_ip & TRINARKULAR_SLASH24_NETMASK) == s24->network_ip)
HostsBelong == \A i \in DOMAIN HostIps : HostIps[i] \div 256 = Network

MissingField ==
  \/ Values(Json, "host_cnt") = <<>>
  \/ Values(Json, "avg_resp_rate") = <<>>
  \/ Values(Json, "meta") = <<>>
  \/ HostIps = <<>>

\* assert(host_arr_cnt == host_cnt)
CountsAgree == Len(HostIps) = Last(Values(Json, "host_cnt"))

\* "Dropping metadata": eight bits count the tags that are kept.
Kept(tags) == SubSeq(tags, 1, Min({Len(tags), MetaMax}))

\* The /24 joins the list; in the table it replaces one of the same network.
AddSlash24 ==
  /\ ObjectEnds
  /\ IsMember /\ HostsBelong /\ ~MissingField /\ CountsAgree
  /\ slash24s' = Append(slash24s, Network)
  /\ s24_hash' =
       [s \in {Network} \cup DOMAIN s24_hash |->
          IF s = Network
          THEN [hosts |-> {ip % 256 : ip \in Range(HostIps)},
                aeb   |-> Last(Values(Json, "avg_resp_rate")),
                md    |-> Kept(FlattenSeq(Values(Json, "meta")))]
          ELSE s24_hash[s]]
  /\ UNCHANGED result

\* "Invalid JSON probelist": the list is destroyed.
InvalidObject ==
  /\ ObjectEnds
  /\ ~IsMember \/ (IsMember /\ HostsBelong /\ MissingField)
  /\ result' = "error"
  /\ slash24s' = <<>> /\ s24_hash' = <<>>

AssertionFails ==
  /\ ObjectEnds
  /\ IsMember
  /\ ~HostsBelong \/ (~MissingField /\ ~CountsAgree)
  /\ result' = "aborted"
  /\ UNCHANGED listVars

-----------------------------------------------------------------------------

Init ==
  /\ result = "none"
  /\ file = <<>> /\ filePos = 0
  /\ buf = <<>> /\ bufp = 0
  /\ state = "OUTER_OPEN"
  /\ obj_start = 0 /\ obj_end = 0
  /\ js = <<>>
  /\ slash24s = <<>> /\ s24_hash = <<>>
  /\ readFailed = FALSE /\ readShort = FALSE

Step ==
  \/ ReadBuffer \/ FileEnds \/ ReadFails
  \/ SkipByte \/ OuterOpen \/ CopyByte \/ CopyOpen \/ CopyClose \/ ListEnds
  \/ AddSlash24 \/ InvalidObject \/ AssertionFails

=============================================================================
