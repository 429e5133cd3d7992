-------------------------------- MODULE Wire --------------------------------
(***************************************************************************)
(* What the caller's strings become on the wire (protocol.rs): the         *)
(* validators, the command lines made of what they accept, the SASL        *)
(* initial responses and base64.  A character is what the code tells apart *)
(* about it; a fixed run of text such as "MAIL-FROM:" is one symbol.       *)
(***************************************************************************)
EXTENDS Integers, SequencesExt

CONSTANTS MAX_ADDRESS_LEN, MAX_LOCAL_PART_LEN, MAX_DOMAIN_LEN  \* 254, 64, 255 octets

ASSUME LimitsAssumption ==
    {MAX_ADDRESS_LEN, MAX_LOCAL_PART_LEN, MAX_DOMAIN_LEN} \subseteq Nat

(* "ctl" is a control character that has no name here, DEL among them, and *)
(* "c1" one of U+0080-U+009F; "utf8" is any other character beyond ASCII.  *)
NonAscii == {"c1", "utf8"}
AddressChars == {"x", "@", "CR", "LF", "NUL", "<", ">", "SP", "TAB", "ctl"} \union NonAscii

Octets(s) == Len(s) + Len(SelectSeq(s, LAMBDA c : c \in NonAscii))
HasAny(s, bad) == Range(s) \cap bad # {}

---------------------------------------------------------------------------
(* The limits of the parts hold around the last @, if there is one.        *)
PartsFit(addr) ==
    LET ats == {i \in DOMAIN addr : addr[i] = "@"}
    IN ats # {} => /\ Octets(SubSeq(addr, 1, Max(ats) - 1)) <= MAX_LOCAL_PART_LEN
                   /\ Octets(SubSeq(addr, Max(ats) + 1, Len(addr))) <= MAX_DOMAIN_LEN

(* Mutant: the closing bracket is not looked for.                          *)
BracketAllowed(addr) ==
    /\ addr # <<>>
    /\ ~HasAny(addr, NonAscii)
    /\ Octets(addr) <= MAX_ADDRESS_LEN
    /\ PartsFit(addr)
    /\ ~HasAny(addr, {"CR", "LF", "NUL", "<", "SP", "TAB"})

validate_address(addr) ==
    /\ addr # <<>>
    /\ ~HasAny(addr, NonAscii)
    /\ Octets(addr) <= MAX_ADDRESS_LEN
    /\ PartsFit(addr)
    /\ ~HasAny(addr, {"CR", "LF", "NUL", "<", ">", "SP", "TAB"})

(* The length counts octets, not characters.                               *)
validate_address_utf8(addr) ==
    /\ addr # <<>>
    /\ Octets(addr) <= MAX_ADDRESS_LEN
    /\ PartsFit(addr)
    /\ ~HasAny(addr, {"CR", "LF", "NUL", "<", ">", "SP", "TAB", "ctl", "c1"})

validate_ehlo_domain(domain) ==
    domain # <<>> /\ ~HasAny(domain, NonAscii \union {"CR", "LF", "NUL", "SP", "TAB", "ctl"})

CRLF == <<"CR", "LF">>
format_command_arg(verb, arg) == <<verb, "SP">> \o arg \o CRLF
format_mail_from(addr) == <<"MAIL-FROM:", "<">> \o addr \o <<">">> \o CRLF
format_rcpt_to(addr) == <<"RCPT-TO:", "<">> \o addr \o <<">">> \o CRLF
format_mail_from_smtputf8(addr) ==
    <<"MAIL-FROM:", "<">> \o addr \o <<">", "SP", "SMTPUTF8">> \o CRLF

---------------------------------------------------------------------------
(* SASL.  A user name or secret, as the mechanisms tell characters apart.  *)
SaslChars == {"x", "comma", "=", "NUL", "SOH", "CR", "SP", "utf8"}

validate_plain_username(user) == user # <<>> /\ ~HasAny(user, {"NUL"})
validate_plain_password(pass) == pass # <<>> /\ ~HasAny(pass, {"NUL"})

(* Mutant: the separator of the fields is not looked for.                  *)
SeparatorAllowed(user) == user # <<>> /\ ~HasAny(user, {"NUL", "CR", "LF"})

validate_xoauth2_user(user) == user # <<>> /\ ~HasAny(user, {"NUL", "CR", "LF", "SOH"})

validate_oauth2_token(token) ==
    token # <<>> /\ ~HasAny(token, {"NUL", "SOH", "CR", "LF", "SP", "utf8"})

build_auth_plain_initial_response(user, pass) == <<"NUL">> \o user \o <<"NUL">> \o pass
build_xoauth2_initial_response(user, token) ==
    <<"user=">> \o user \o <<"SOH", "auth=Bearer">> \o token \o <<"SOH", "SOH">>
build_oauthbearer_initial_response(user, token) ==
    <<"gs2:a=">> \o user \o <<"comma", "SOH", "auth=Bearer">> \o token \o <<"SOH", "SOH">>

(* What login_with asks of the credentials: the user name of OAUTHBEARER   *)
(* may be anything.                                                        *)
Accepts(mechanism, user, secret) ==
    CASE mechanism \in {"PLAIN", "LOGIN", "SCRAM-SHA-256"} ->
            validate_plain_username(user) /\ validate_plain_password(secret)
      [] mechanism = "XOAUTH2" ->
            validate_xoauth2_user(user) /\ validate_oauth2_token(secret)
      [] mechanism = "OAUTHBEARER" -> validate_oauth2_token(secret)

---------------------------------------------------------------------------
(* Base64: bytes are numbers, of the 65 characters only PAD stands apart.  *)
PAD == 64
BAD == 65

ByteAt(bytes, i) == IF i \in DOMAIN bytes THEN bytes[i] ELSE 0

(* push_b64: the 6-bit group number i of the 24 bits in n.                 *)
push_b64(n, i) == (n \div <<262144, 4096, 64, 1>>[i + 1]) % 64

(* Mutant: a remainder of two bytes gives two characters.                  *)
ShortRemainder(input) ==
    [i \in 1 .. 4 * ((Len(input) + 2) \div 3) |->
        LET k == (i - 1) \div 4
            n == 65536 * ByteAt(input, 3 * k + 1) + 256 * ByteAt(input, 3 * k + 2)
                    + ByteAt(input, 3 * k + 3)
        IN IF (i - 1) % 4 >= 2 /\ 3 * k + 3 > Len(input) THEN PAD
           ELSE push_b64(n, (i - 1) % 4)]

(* A chunk of three bytes gives four characters; a remainder of one or two *)
(* gives two or three, and padding.                                        *)
base64_encode(input) ==
    [i \in 1 .. 4 * ((Len(input) + 2) \div 3) |->
        LET k == (i - 1) \div 4
            n == 65536 * ByteAt(input, 3 * k + 1) + 256 * ByteAt(input, 3 * k + 2)
                    + ByteAt(input, 3 * k + 3)
        IN IF (i - 1) % 4 > Len(input) - 3 * k THEN PAD ELSE push_b64(n, (i - 1) % 4)]

(* Of the four characters of chunk k, counted from 0, how many are padding *)
(* and the 24 bits they make: padding counts as zero bits, wherever it is. *)
Pads(input, k) == Cardinality({i \in 4 * k + 1 .. 4 * k + 4 : input[i] = PAD})
Bits(input, k) == 262144 * (input[4 * k + 1] % 64) + 4096 * (input[4 * k + 2] % 64)
                     + 64 * (input[4 * k + 3] % 64) + (input[4 * k + 4] % 64)

(* Three bytes of every chunk, but one or two of a padded one, which is    *)
(* the last.                                                               *)
Decoded(input) ==
    LET chunks == Len(input) \div 4
        pad == IF chunks = 0 THEN 0 ELSE Pads(input, chunks - 1)
    IN [i \in 1 .. 3 * chunks - (IF pad >= 2 THEN 2 ELSE pad) |->
          (Bits(input, (i - 1) \div 3) \div <<65536, 256, 1>>[1 + ((i - 1) % 3)]) % 256]

(* Mutant: a character outside the alphabet is not refused.                *)
BadTaken(input) ==
    LET ok == /\ Len(input) % 4 = 0
              /\ \A k \in 0 .. Len(input) \div 4 - 2 : Pads(input, k) = 0
    IN [ok |-> ok, bytes |-> IF ok THEN Decoded(input) ELSE <<>>]

base64_decode(input) ==
    LET ok == /\ Len(input) % 4 = 0
              /\ BAD \notin Range(input)
              /\ \A k \in 0 .. Len(input) \div 4 - 2 : Pads(input, k) = 0
    IN [ok |-> ok, bytes |-> IF ok THEN Decoded(input) ELSE <<>>]
=============================================================================
