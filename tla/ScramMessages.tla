--------------------------- MODULE ScramMessages ---------------------------
(***************************************************************************)
(* The messages of SCRAM-SHA-256 and what the client computes from them    *)
(* (scram.rs).  A message is a sequence of attributes <<key, value>>, a    *)
(* nonce a pair: what the client drew and what the server appended to it.  *)
(* Hashes are symbolic: two terms are equal exactly if they hash the same  *)
(* message under the same key.                                             *)
(***************************************************************************)
EXTENDS Integers, SequencesExt

MinIterations == 4096
MaxIterations == 600000

(* Mutant: what the server sent is left out.                               *)
AuthMessageWithoutFirst(user, cnonce, first, nonce) ==
    <<user, cnonce, <<>>, nonce>>

(* client_first_bare, server_first_raw, client_final_no_proof.             *)
AuthMessage(user, cnonce, first, nonce) == <<user, cnonce, first, nonce>>

SaltedPassword(password, salt, iterations) == <<password, salt, iterations>>

hmac_sha256(role, key, message) == [role |-> role, key |-> key, msg |-> message]

---------------------------------------------------------------------------
(* One turn of the loop over the attributes of server-first.  A value that *)
(* is not a u32 is -1, an attribute without '=' has the key "no-key".      *)
ParseAttr(acc, attr) ==
    IF ~acc.ok THEN acc
    ELSE CASE attr[1] = "r" -> [acc EXCEPT !.nonce = <<attr[2]>>]
           [] attr[1] = "s" -> [acc EXCEPT !.salt = <<attr[2]>>]
           [] attr[1] = "i" -> [acc EXCEPT !.iterations = <<attr[2]>>, !.ok = attr[2] # -1]
           [] attr[1] \in {"m", "no-key"} -> [acc EXCEPT !.ok = FALSE]
           [] OTHER -> acc

(* The loop itself.                                                        *)
ParseAttrs(first) ==
    LET acc[n \in 0 .. Len(first)] ==
          IF n = 0 THEN [ok |-> TRUE, nonce |-> <<>>, salt |-> <<>>, iterations |-> <<>>]
          ELSE ParseAttr(acc[n - 1], first[n])
    IN acc[Len(first)]

(* Mutant: the upper limit is exclusive.                                   *)
ParseBelowMax(first, cnonce) ==
    LET p == ParseAttrs(first)
    IN [p EXCEPT !.ok =
          /\ p.ok
          /\ p.nonce # <<>> /\ p.salt # <<>> /\ p.iterations # <<>>
          /\ p.nonce[1][1] = cnonce
          /\ p.iterations[1] >= MinIterations
          /\ p.iterations[1] < MaxIterations
          /\ p.salt[1] # "not-base64"]

(* Mutant: any nonce will do.                                              *)
ParseAnyNonce(first, cnonce) ==
    LET p == ParseAttrs(first)
    IN [p EXCEPT !.ok =
          /\ p.ok
          /\ p.nonce # <<>> /\ p.salt # <<>> /\ p.iterations # <<>>
          /\ p.iterations[1] \in MinIterations .. MaxIterations
          /\ p.salt[1] # "not-base64"]

parse_server_first(first, cnonce) ==
    LET p == ParseAttrs(first)
    IN [p EXCEPT !.ok =
          /\ p.ok
          /\ p.nonce # <<>> /\ p.salt # <<>> /\ p.iterations # <<>>
          /\ p.nonce[1][1] = cnonce
          /\ p.iterations[1] \in MinIterations .. MaxIterations
          /\ p.salt[1] # "not-base64"]

(* The key that both sides derive, the proof and the expected signature.   *)
compute_client_final(user, password, cnonce, p, first) ==
    LET key == SaltedPassword(password, p.salt[1], p.iterations[1])
        msg == AuthMessage(user, cnonce, first, p.nonce[1])
    IN [proof |-> hmac_sha256("client", key, msg),
        expected |-> hmac_sha256("server", key, msg)]

(* Any e= refuses, else the first v= decides.                              *)
verify_server_final(final, expected) ==
    /\ \A i \in DOMAIN final : final[i][1] # "e"
    /\ \E i \in DOMAIN final :
         /\ final[i] = <<"v", expected>>
         /\ \A j \in 1 .. i - 1 : final[j][1] # "v"

---------------------------------------------------------------------------
(* Mutant: the escape character is not escaped itself.                     *)
EscapeCommaOnly(c) == IF c = "comma" THEN <<"=", "2", "C">> ELSE <<c>>

Escape(c) == CASE c = "comma" -> <<"=", "2", "C">>
               [] c = "=" -> <<"=", "3", "D">>
               [] OTHER -> <<c>>

(* A user name inside a message, character by character.                   *)
escape_saslname(name) ==
    LET out[n \in 0 .. Len(name)] == IF n = 0 THEN <<>> ELSE out[n - 1] \o Escape(name[n])
    IN out[Len(name)]
============================================================================
