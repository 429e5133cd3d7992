------------------------------ MODULE Strings -------------------------------
(***************************************************************************)
(* The pure functions of the repository over every short input, grown by a *)
(* character, a word, an attribute or a line at a time, against the other  *)
(* end: a server that reads the line, the text as a whole, the RFC.        *)
(***************************************************************************)
EXTENDS Wire, Replies, TrustAnchors, ScramMessages, FiniteSets

CONSTANTS RawBytes, EncodedChars,        \* what an input is made of: Wire
          Words, TextChars, CodeLines, ReplyParts,  \* Replies
          PemLines,                      \* TrustAnchors
          ClientNonce, Attrs, NameChars  \* ScramMessages

CONSTANTS MaxAddress, MaxSasl, MaxRaw, MaxEncoded,  \* Wire
          MaxWords, MaxText, MaxReply,              \* Replies
          MaxLines, MaxGood,                        \* TrustAnchors
          MaxAttrs, MaxName                         \* ScramMessages

(* Bytes and characters; lines of text; what classify returns; a count     *)
(* that is no u32 is -1.                                                   *)
ASSUME InputAssumption ==
    /\ RawBytes \subseteq 0 .. 255 /\ EncodedChars \subseteq 0 .. BAD
    /\ CodeLines \subseteq Seq(TextChars) /\ ReplyParts \subseteq Seq(ReplyChars)
    /\ \A l \in PemLines : IsLine(l)
    /\ \A a \in Attrs : a[1] = "i" => a[2] \in Nat \union {-1}

VARIABLES kind,      \* what the input is
          one, two   \* it, and the secret for a user name

input == <<kind, one, two>>

(* A reply is a sequence of lines, at first of one empty line.             *)
ReplyKinds == {"ehlo", "text", "final"}
OtherKinds == {"address", "login", "raw", "encoded", "pem", "first", "name"}

InputInit == /\ \/ kind \in ReplyKinds /\ one = <<<<>>>>
                \/ kind \in OtherKinds /\ one = <<>>
             /\ two = <<>>

Grow(symbols, max) == /\ Len(one) + Len(two) < max
                      /\ \E c \in symbols : one' = Append(one, c)
                      /\ UNCHANGED <<kind, two>>

GrowAddress == kind = "address" /\ Grow(AddressChars, MaxAddress)
GrowUser == kind = "login" /\ two = <<>> /\ Grow(SaslChars, MaxSasl)
GrowSecret == /\ kind = "login" /\ Len(one) + Len(two) < MaxSasl
              /\ \E c \in SaslChars : two' = Append(two, c)
              /\ UNCHANGED <<kind, one>>
GrowRaw == kind = "raw" /\ Grow(RawBytes, MaxRaw)
GrowEncoded == kind = "encoded" /\ Grow(EncodedChars, MaxEncoded)

Size == FoldLeft(LAMBDA n, l : n + Len(l) + 1, 0, one)
GrowLine(symbols) == /\ \E c \in symbols : one' = [one EXCEPT ![Len(one)] = Append(@, c)]
                     /\ UNCHANGED <<kind, two>>
GrowEhlo == kind = "ehlo" /\ Size < MaxWords /\ GrowLine(Words)
NewLine == kind = "ehlo" /\ Size < MaxWords /\ one' = Append(one, <<>>) /\ UNCHANGED <<kind, two>>
GrowText == kind = "text" /\ Size < MaxText /\ GrowLine(TextChars)
(* Two lines of a reply, each of them an enhanced code or not. *)
SecondLine == /\ kind = "text" /\ Len(one) = 1
              /\ \E l \in CodeLines : one' = Append(one, l)
              /\ UNCHANGED <<kind, two>>
(* The reply to a message grows by a marker or another piece. *)
GrowFinal == /\ kind = "final"
             /\ \E part \in ReplyParts :
                  /\ Size + Len(part) <= MaxReply
                  /\ one' = [one EXCEPT ![Len(one)] = @ \o part]
             /\ UNCHANGED <<kind, two>>

(* A text that is not refused yet, and has no line to spare, grows on      *)
(* until a block too many fits.                                            *)
Tight == LET s == ScanLines(one)
         IN s.error = NoError /\ Len(one) <= 3 * s.blocks
GrowPem == kind = "pem" /\ Grow(PemLines, IF Tight THEN MaxGood ELSE MaxLines)

GrowFirst == kind = "first" /\ Grow(Attrs, MaxAttrs)
GrowName == kind = "name" /\ Grow(NameChars, MaxName)

InputNext ==
        \/ GrowAddress \/ GrowUser \/ GrowSecret \/ GrowRaw \/ GrowEncoded
        \/ GrowEhlo \/ NewLine \/ GrowText \/ SecondLine \/ GrowFinal
        \/ GrowPem \/ GrowFirst \/ GrowName

InputSpec == InputInit /\ [][InputNext]_input

---------------------------------------------------------------------------
(* The other end.  A server takes CR and LF, alone or together, for the    *)
(* end of a command, and a path from the first < to the next >.            *)
CommandsIn(wire) ==
    LET ends == {i \in DOMAIN wire : wire[i] \in {"CR", "LF"}}
        From(e) == IF \E b \in ends : b < e THEN Max({b \in ends : b < e}) + 1 ELSE 1
    IN {SubSeq(wire, From(e), e - 1) : e \in ends} \ {<<>>}

Path(cmd) ==
    LET a == Min({i \in DOMAIN cmd : cmd[i] = "<"})
        b == Min({i \in DOMAIN cmd : i > a /\ cmd[i] = ">"})
    IN SubSeq(cmd, a + 1, b - 1)
Parameters(cmd) ==
    LET a == Min({i \in DOMAIN cmd : cmd[i] = ">"})
    IN SubSeq(cmd, a + 1, Len(cmd))

ReadAs(wire, verb, parameters) ==
    \E cmd \in {SubSeq(wire, 1, Len(wire) - 2)} :
        /\ CommandsIn(wire) = {cmd}
        /\ cmd[1] = verb /\ Path(cmd) = one /\ Parameters(cmd) = parameters

(* Whatever address or domain a validator accepts, the line made of it is  *)
(* read by the server as that one command, about that very address, with   *)
(* nothing behind it that was not meant (validate_address and the format_  *)
(* functions, which do no escaping of their own).                          *)
OneCommand ==
    kind = "address" =>
        /\ validate_address(one) =>
              /\ ReadAs(format_mail_from(one), "MAIL-FROM:", <<>>)
              /\ ReadAs(format_rcpt_to(one), "RCPT-TO:", <<>>)
        /\ validate_address_utf8(one) =>
              /\ ReadAs(format_mail_from_smtputf8(one), "MAIL-FROM:", <<"SP", "SMTPUTF8">>)
              /\ ReadAs(format_rcpt_to(one), "RCPT-TO:", <<>>)
        /\ validate_ehlo_domain(one) =>
              CommandsIn(format_command_arg("EHLO", one)) = {<<"EHLO", "SP">> \o one}

(* The fields of a message: its parts between the separators.              *)
Separators(msg, sep) == {0, Len(msg) + 1} \union {i \in DOMAIN msg : msg[i] = sep}
Fields(msg, sep) ==
    LET nth(n) == CHOOSE s \in Separators(msg, sep) :
                        Cardinality({t \in Separators(msg, sep) : t < s}) = n
    IN [n \in 1 .. Cardinality(Separators(msg, sep)) - 1 |->
           SubSeq(msg, nth(n - 1) + 1, nth(n) - 1)]

(* What the client sends for PLAIN and XOAUTH2 is taken apart by a server  *)
(* into exactly the name and the secret the caller gave.                   *)
CredentialsSurvive ==
    kind = "login" =>
        /\ Accepts("PLAIN", one, two) =>
              Fields(build_auth_plain_initial_response(one, two), "NUL") = <<<<>>, one, two>>
        /\ Accepts("XOAUTH2", one, two) =>
              Fields(build_xoauth2_initial_response(one, two), "SOH")
                = <<<<"user=">> \o one, <<"auth=Bearer">> \o two, <<>>, <<>>>>

(* base64_decode undoes base64_encode, at every remainder of the length.   *)
(* The other way round, but for padding, no character is lost and none is  *)
(* made up: two different unpadded texts never give the same bytes.        *)
RoundTrip ==
    /\ kind = "raw" => base64_decode(base64_encode(one)) = [ok |-> TRUE, bytes |-> one]
    /\ (kind = "encoded" /\ PAD \notin Range(one) /\ base64_decode(one).ok) =>
           base64_encode(base64_decode(one).bytes) = one

---------------------------------------------------------------------------
(* The mechanisms, from none to the strongest.                             *)
Strength(mechanism) == CASE mechanism = "SCRAM-SHA-256" -> 3
                         [] mechanism = "PLAIN" -> 2
                         [] mechanism = "LOGIN" -> 1
                         [] OTHER -> 0

(* However a server lays out its EHLO reply, no offer is lost and none is  *)
(* made up: the mechanism taken for the whole reply is the strongest that  *)
(* one of its lines, read alone, would have the client take, and one that  *)
(* stands behind AUTH; a service is used exactly if one line alone is      *)
(* enough to advertise it.  So no line before or behind another weakens a  *)
(* login (select_auth_mechanism, the ehlo_advertises_ functions).          *)
NoOfferIsLost ==
    kind = "ehlo" =>
        LET Alone(i) == <<one[i]>>
            chosen == select_auth_mechanism(one)
        IN /\ \E i \in DOMAIN one :
                 /\ select_auth_mechanism(Alone(i)) = chosen
                 /\ chosen # "none" => one[i][1] = "AUTH" /\ chosen \in Range(Tail(one[i]))
           /\ \A i \in DOMAIN one :
                 Strength(select_auth_mechanism(Alone(i))) <= Strength(chosen)
           /\ ehlo_advertises_starttls(one)
                 <=> \E i \in DOMAIN one : ehlo_advertises_starttls(Alone(i))
           /\ ehlo_advertises_pipelining(one)
                 <=> \E i \in DOMAIN one : ehlo_advertises_pipelining(Alone(i))

(* The text of an enhanced code.                                           *)
Spells(prefix, status) ==
    \E s \in 1 .. Len(prefix) :
        /\ s > 3 /\ Len(prefix) > s
        /\ prefix[1] \in {"2", "4", "5"} /\ prefix[2] = "." /\ prefix[s] = "."
        /\ \A i \in DOMAIN prefix \ {2, s} : prefix[i] \in Digits
        /\ status = <<Value(prefix[1]), Number(SubSeq(prefix, 3, s - 1)),
                      Number(SubSeq(prefix, s + 1, Len(prefix)))>>

(* A reply's enhanced code is what its first line spells out, number for   *)
(* number, and message_text loses nothing but such codes: what it takes    *)
(* off a line is the code and a blank behind it, and it takes nothing off  *)
(* where the session has no enhanced codes.  It is not said that nothing   *)
(* but a code could stand there (CodeEndsAtBoundary), nor that the lines   *)
(* have one code: the code looks at no line but the first, and a line that *)
(* has a code of its own loses it.                                         *)
CodeIsSpelledOut ==
    kind = "text" =>
        LET e == enhanced(one, TRUE)
            text == message_text(one, TRUE)
            Cut(i) == SubSeq(one[i], 1, Len(one[i]) - Len(text[i]))
            Bare(p) == IF p # <<>> /\ Last(p) \in {"SP", "TAB"} THEN Front(p) ELSE p
        IN /\ message_text(one, FALSE) = one
           /\ e.some => Spells(Bare(Cut(1)), e.status)
           /\ \A i \in DOMAIN one :
                 /\ Cut(i) \o text[i] = one[i]
                 /\ Cut(i) # <<>> => e.some /\ \E c \in {2, 4, 5}, n, m \in 0 .. U16_MAX :
                                              Spells(Bare(Cut(i)), <<c, n, m>>)

(* What protocol.rs says of an enhanced code: that it is followed by the   *)
(* end of the string, whitespace, or any other byte that is neither a      *)
(* digit nor a dot (parse_enhanced_status_prefix).                         *)
CodeEndsAtBoundary ==
    kind = "text" =>
        LET p == parse_enhanced_status_prefix(one[1])
        IN (p.some /\ one[1][p.prefix_len] \in Digits /\ p.prefix_len < Len(one[1])) =>
               one[1][p.prefix_len + 1] \notin Digits \union {"."}

(* The places of a marker behind which a long enough token stands, and     *)
(* that token.                                                             *)
Behind(i, p) == TokenAt(one[1], p + Len(Markers[i]))
LongAt(i) == {p \in Hits(one[1], Markers[i], 1) : Chars(Behind(i, p)) >= 6}

(* A queue id is never made up, and one that stands in the reply is not    *)
(* lost: it is the whole token behind the first marker of its kind that    *)
(* one of six characters or more follows, and no kind before it has such a *)
(* marker.  A kind in which two markers may share a character ("SP id SP") *)
(* is excepted: the search goes on behind the marker it gives up, and so   *)
(* passes over one that begins in it (extract_queue_id, scan_after).       *)
QueueIdIsReal ==
    kind = "final" =>
        LET id == extract_queue_id(one[1])
        IN IF id = <<>> THEN LongAt(1) = {} /\ LongAt(2) = {}
           ELSE \E i \in DOMAIN Markers : \E p \in LongAt(i) :
                   /\ id[1] = Behind(i, p)
                   /\ \A j \in 1 .. i - 1 : LongAt(j) = {}
                   /\ i # 3 => \A q \in LongAt(i) : p <= q

---------------------------------------------------------------------------
(* The rules over the whole text: the boundary lines are BEGIN and END of  *)
(* certificates in turn, and what lies between is one good body.           *)
Boundaries == {i \in DOMAIN one : one[i][1] # "text"}
Rank(i) == Cardinality({j \in Boundaries : j < i})
BodyOf(i) == LET e == Min({j \in Boundaries : j > i})
             IN SubSeq(one, i + 1, e - 1)
Begins == {i \in Boundaries : one[i][1] = "begin"}

WellFormed ==
    /\ Cardinality(Boundaries) % 2 = 0
    /\ \A i \in Boundaries : one[i] = IF Rank(i) % 2 = 0 THEN <<"begin", "CERTIFICATE">>
                                                           ELSE <<"end">>

Acceptable ==
    /\ WellFormed
    /\ Cardinality(Begins) \in 1 .. MAX_BLOCKS
    /\ \A i \in Begins : Len(BodyOf(i)) = 1 /\ BodyOf(i)[1][2] \in Certificates

(* All or nothing: parse_custom takes an input exactly if all of it is     *)
(* acceptable, and then the store holds every certificate in the text and  *)
(* nothing else; a refused input leaves no store.                          *)
AllOrNothing ==
    kind = "pem" =>
        LET p == parse_custom(one, TRUE)
        IN /\ p.ok <=> Acceptable
           /\ p.store = IF Acceptable THEN {BodyOf(i)[1][2] : i \in Begins} ELSE {}
           /\ ~parse_custom(one, FALSE).ok

(* The block that an error names is where the fault is: everything before  *)
(* that block would have been accepted, and with the block no longer.      *)
ErrorNamesBlock ==
    kind = "pem" =>
        LET p == parse_custom(one, TRUE)
            Before(n) == LET s == {i \in Boundaries : Rank(i) < 2 * (n - 1)}
                         IN IF s = {} THEN <<>> ELSE SubSeq(one, 1, Max(s))
        IN (p.error # NoError /\ p.error[1].block > 1) =>
              /\ parse_custom(Before(p.error[1].block), TRUE).ok
              /\ Before(p.error[1].block) # one

---------------------------------------------------------------------------
(* The positions of a key; the last one counts.                            *)
Places(key) == {i \in DOMAIN one : one[i][1] = key}
Given(key) == one[Max(Places(key))][2]

(* parse_server_first takes a message exactly if it has the three values,  *)
(* no mandatory extension, no piece without '=', no iteration count that   *)
(* is not a u32 anywhere, our nonce in front and a count within the        *)
(* limits, both included; what it returns are the last values given.       *)
ParsedAsSpecified ==
    kind = "first" =>
        LET p == parse_server_first(one, ClientNonce)
            accept == /\ Places("m") = {} /\ Places("no-key") = {}
                      /\ \A i \in Places("i") : one[i][2] >= 0
                      /\ Places("r") # {} /\ Places("s") # {} /\ Places("i") # {}
                      /\ Given("r")[1] = ClientNonce /\ Given("s") # "not-base64"
                      /\ Given("i") >= 4096 /\ Given("i") <= 600000
        IN /\ p.ok <=> accept
           /\ accept => /\ p.nonce = <<Given("r")>>
                        /\ p.iterations = <<Given("i")>>

(* What a server does with a name: from left to right, =2C and =3D are     *)
(* read back.                                                              *)
At3(e, i, t) == i + 2 <= Len(e) /\ SubSeq(e, i, i + 2) = t
ReadTurn(s, e) ==
    IF s.pos > Len(e) THEN s
    ELSE IF At3(e, s.pos, <<"=", "2", "C">>)
         THEN [pos |-> s.pos + 3, out |-> Append(s.out, "comma")]
    ELSE IF At3(e, s.pos, <<"=", "3", "D">>)
         THEN [pos |-> s.pos + 3, out |-> Append(s.out, "=")]
    ELSE [pos |-> s.pos + 1, out |-> Append(s.out, e[s.pos])]
Unescape(e) ==
    LET st[n \in 0 .. Len(e)] == IF n = 0 THEN [pos |-> 1, out |-> <<>>]
                                 ELSE ReadTurn(st[n - 1], e)
    IN st[Len(e)].out

(* Whatever the user name, it cannot end its attribute, and a server that  *)
(* undoes the escapes of escape_saslname gets the name back.               *)
NameSurvives ==
    kind = "name" =>
        /\ ~Contains(escape_saslname(one), "comma")
        /\ Unescape(escape_saslname(one)) = one
=============================================================================
