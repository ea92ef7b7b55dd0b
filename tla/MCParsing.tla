------------------------------ MODULE MCParsing ------------------------------
(* Small outputs for Parsing: every sequence of a few chunks between the start *)
(* of an envelope and what follows it, and every document of a grid of fields  *)
(* in a plain envelope.                                                        *)
EXTENDS Parsing

Chunk(op, bytes) == [op |-> op, bytes |-> bytes]
Push(bytes) == Chunk("push", bytes)
Opcode(op) == Chunk(op, "")
Start == <<Opcode("OP_0"), Opcode("IF"), Push("ord")>>
Typed == <<Chunk("OP_n", "01"), Push("bsv20")>>
Pay == <<Chunk("p2pkh", "alice")>>
End == <<Opcode("ENDIF")>>
Body(b) == <<Opcode("OP_0"), Push(b)>>

\* "{}" is a transfer; "{" and "}" are its halves.
Alphabet == {Opcode("OP_0"), Opcode("ENDIF"), Opcode("IF"), Push("01"),
             Push("{}"), Push("{"), Push("}"), Chunk("OP_n", "05")}
UpTo(n) == UNION {[1 .. k -> Alphabet] : k \in 0 .. n}
Leading == {Pay, <<Opcode("OP_0")>>}
Trailing ==
  {<< >>, End \o Pay, End \o <<Opcode("SEP")>> \o Pay,
   End \o <<Opcode("OP_0"), Opcode("RETURN"), Push("map")>>,
   End \o Start \o Typed \o Body("{}") \o End \o Pay}

Json20 == [p |-> "bsv-20", op |-> "transfer", tick |-> "t", id |-> NoField,
           amt |-> <<1, 2, 0>>, max |-> NoField, lim |-> NoField, dec |-> NoField]
Caps == {<<NoField, NoField>>, <<<<5>>, NoField>>, <<<<5>>, Junk>>, <<<<5>>, <<2>>>>,
         <<Junk, NoField>>}
Fields(op, amts, caps) ==
  {[p |-> "bsv-20", op |-> op, tick |-> tick, id |-> id, amt |-> amt,
    max |-> cap[1], lim |-> cap[2], dec |-> dec] :
     tick \in {NoField, Blank, "T", "long!"}, id \in {NoField, "d_0", "junk"},
     amt \in amts, cap \in caps, dec \in {NoField, <<2>>, <<1, 9>>}}
Documents ==
  Fields("deploy", {NoField}, Caps)
    \cup UNION {Fields(op, {NoField, Junk, <<0>>, <<1, 2, 0>>, <<9, 9, 9>>},
                      {<<NoField, NoField>>}) : op \in BSV21Ops \cup {"foo", NoField}}
MCDeploys ==
  {NotJson, [Json20 EXCEPT !.op = "deploy+mint", !.tick = NoField, !.dec = <<2>>]}

Output(s, d, n) == [script |-> s, doc |-> d, satoshis |-> n]
Scripts ==
  {Start \o m \o a : m \in UpTo(3), a \in Trailing}
    \cup {b \o Start \o m \o a : b \in Leading, m \in UpTo(2), a \in Trailing}
    \cup {Start \o Typed \o m \o a : m \in UpTo(3), a \in Trailing}
Plain == Start \o Typed \o Body("{}") \o End \o Pay
MCOutputs ==
  {Output(s, Json20, 1) : s \in Scripts}
    \cup {Output(Plain, d, n) : d \in Documents, n \in {1, 2}}
    \cup {Output(Plain, [Json20 EXCEPT !.p = "other"], 1)}

MCHere == "here_0"
MCLower == [x \in {"t", "T", "long!"} |-> IF x = "T" THEN "t" ELSE x]
MCOutpointAt == [i \in {"d_0"} |-> "d_0"]
MCParseable == {NoBytes, "", "bsv20"}
MCLongTick == {"long!"}

=============================================================================
