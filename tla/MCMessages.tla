----------------------------- MODULE MCMessages -----------------------------
(* Every short input of the functions of Strings, or two logins of two     *)
(* users with Scram; the other of the two stays as it begins.              *)
EXTENDS Scram, Strings

(* A server that appends one of two nonces, and server-first messages      *)
(* around every condition of parse_server_first.                           *)
First(n, salt, iter) == <<<<"r", <<n, "s1">>>>, <<"s", salt>>, <<"i", iter>>>>

MCPeerFirsts ==
    {First(n, ServerSalt, i) : n \in Nonces, i \in {4095, 4096, 600000, 600001, -1}}
      \union {First(n, "not-base64", ServerIterations) : n \in Nonces}
      \union {Append(First(n, ServerSalt, ServerIterations), a) :
                n \in Nonces, a \in {<<"m", "ext">>, <<"x", "ext">>, <<"no-key", "junk">>}}

(* The characters, words, lines and attributes that the functions tell     *)
(* apart, at the edges of what they accept.                                *)
MCRawBytes == {0, 1, 62, 128, 255}
MCEncodedChars == {1, 63, PAD, BAD}
MCWords == {"AUTH", "PLAIN", "SCRAM-SHA-256", "LOGIN", "STARTTLS", "PIPELINING"}
MCTextChars == {"1", "4", "5", ".", "SP", "x"}
MCCodeLines == {<<"5", ".", "1", ".", "1">>, <<"x">>}
MCReplyParts == Range(Markers) \union {<<c>> : c \in {"id", "run", "SP"}}
MCPemLines == {<<"text", t>> : t \in Certificates \union {"other", "not-base64"}}
                \union {<<"begin", l>> : l \in {"CERTIFICATE", "PRIVATE KEY"}}
                \union {<<"end">>, <<"misplaced">>}
MCAttrs == {<<"r", <<n, "s">>>> : n \in {"n1", "n2"}}
             \union {<<"s", salt>> : salt \in {"salt", "not-base64"}}
             \union {<<"i", i>> : i \in {-1, 4095, 4096, 600000, 600001}}
             \union {<<"m", "ext">>, <<"x", "ext">>, <<"no-key", "junk">>}
MCNameChars == {"a", "comma", "=", "2", "C", "3", "D"}

MessageInit == /\ Init
               /\ \/ InputInit
                  \/ kind = "scram" /\ one = <<>> /\ two = <<>>

MessageNext == \/ kind = "scram" /\ Next /\ UNCHANGED input
               \/ kind # "scram" /\ InputNext /\ UNCHANGED vars

MessageSpec == MessageInit /\ [][MessageNext]_<<vars, input>>
=============================================================================
