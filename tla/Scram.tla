------------------------------- MODULE Scram -------------------------------
(***************************************************************************)
(* SCRAM-SHA-256 (scram.rs, and run_auth_scram_sha256 in client/auth.rs):  *)
(* client sessions that log in through a peer, and the server that holds   *)
(* the password.  The peer forwards, repeats, mixes up and makes up        *)
(* messages; it cannot compute a keyed hash without the key.  The messages *)
(* are those of ScramMessages.                                             *)
(***************************************************************************)
EXTENDS ScramMessages, FiniteSets

CONSTANTS Sessions,      \* logins of the client
          Users,
          Nonces,        \* what getrandom can return
          ServerNonces,  \* what the server appends
          ServerSalt, ServerIterations,  \* the server's record of a user
          PeerFirsts,    \* server-first messages that no server sent
          None           \* no user, no nonce

ASSUME NoneAssumption == None \notin Nonces /\ None \notin Users

(* A record the client can work with: it takes no other iteration count.   *)
ASSUME ServerAssumption ==
    /\ ServerSalt # "not-base64"
    /\ ServerIterations \in MinIterations .. MaxIterations

VARIABLES phase, user, password, nonce,  \* of each login
          first,      \* the server-first message it has read
          exchanges,  \* what the server has answered
          proofs,     \* the client proofs that are on the wire
          signed      \* the exchanges it has signed, its signature on the wire

login == <<phase, user, password, nonce, first>>
vars == <<login, exchanges, proofs, signed>>

Phases == {"idle", "first_sent", "final_sent", "confirming", "ok", "failed"}

(* The user's password, and one the user mistyped.                         *)
Passwords == {"right", "mistyped"}

(* The server that holds the password (RFC 5802), no code of it here: its  *)
(* server-first, and the proof and the signature it computes.              *)
ServerFirstMessage(cnonce, snonce) ==
    <<<<"r", <<cnonce, snonce>>>>, <<"s", ServerSalt>>, <<"i", ServerIterations>>>>

ServerTerm(role, x) ==
    [role |-> role, key |-> <<"right", ServerSalt, ServerIterations>>,
     msg |-> <<x.user, x.cnonce, x.first, <<x.cnonce, x.snonce>>>>]

---------------------------------------------------------------------------
(* Mutant: a random source that repeats itself.                            *)
RepeatedNonce(used) == Nonces

(* What is assumed of the operating system's generator: the 24 bytes it    *)
(* returns do not repeat.  What that is good for is up to the client.      *)
generate_client_nonce(used) == Nonces \ used

UsedNonces == {nonce[c] : c \in Sessions}

(* AUTH SCRAM-SHA-256 with client-first.                                   *)
build_client_first(c, u, p) ==
    /\ phase[c] = "idle"
    /\ \E n \in generate_client_nonce(UsedNonces) : nonce' = [nonce EXCEPT ![c] = n]
    /\ phase' = [phase EXCEPT ![c] = "first_sent"]
    /\ user' = [user EXCEPT ![c] = u]
    /\ password' = [password EXCEPT ![c] = p]
    /\ UNCHANGED <<first, exchanges, proofs, signed>>

(* The login ends in an error.                                             *)
GiveUp(c) == /\ phase' = [phase EXCEPT ![c] = "failed"]
             /\ UNCHANGED <<user, password, nonce, first, exchanges, proofs, signed>>

(* No entropy: nothing has been sent yet.                                  *)
NoEntropy(c) == phase[c] = "idle" /\ GiveUp(c)

(* What client-final is made of, and the signature it waits for.           *)
ClientFinal(c, f) ==
    compute_client_final(user[c], password[c], nonce[c],
                         parse_server_first(f, nonce[c]), f)

FirstsOnWire == {x.first : x \in exchanges} \union PeerFirsts

(* The 334 with server-first, whoever wrote it: client-final goes out.     *)
ReadServerFirst(c) ==
    /\ phase[c] = "first_sent"
    /\ \E f \in FirstsOnWire :
         /\ parse_server_first(f, nonce[c]).ok
         /\ first' = [first EXCEPT ![c] = f]
         /\ proofs' = proofs \union {ClientFinal(c, f).proof}
    /\ phase' = [phase EXCEPT ![c] = "final_sent"]
    /\ UNCHANGED <<user, password, nonce, exchanges, signed>>

(* A message that parse_server_first refuses ends the login.               *)
RefuseServerFirst(c) ==
    /\ phase[c] = "first_sent"
    /\ \E f \in FirstsOnWire : ~parse_server_first(f, nonce[c]).ok
    /\ GiveUp(c)

(* So does any other code, or a payload that is not base64 of UTF-8.       *)
OtherReply(c) ==
    /\ phase[c] \in {"first_sent", "final_sent", "confirming"}
    /\ GiveUp(c)

(* The server-final messages a peer can put together: a signature it has   *)
(* seen, or one under a password it made up.                               *)
Finals(c) ==
    LET known == {ServerTerm("server", x) : x \in signed} \union
          {hmac_sha256("server", SaltedPassword("made-up", ServerSalt, ServerIterations),
                       ClientFinal(c, first[c]).expected.msg)}
    IN {<<<<"v", s>>>> : s \in known}
         \union {<<<<"e", "other-error">>, <<"v", s>>>> : s \in known}
         \union {<<<<"x", "">>>>}

(* Mutant: a 235 is taken for the answer.                                  *)
VerifyOn334(c, code) ==
    \E final \in Finals(c) :
        code = 334 => verify_server_final(final, ClientFinal(c, first[c]).expected)

(* The signature is checked on the 334 and on the 235 alike.               *)
scram_verify_server_final(c, code) ==
    \E final \in Finals(c) : verify_server_final(final, ClientFinal(c, first[c]).expected)

(* 334: the empty continuation goes out; 235 with the signature in it: ok. *)
ReadServerFinal(c, code) ==
    /\ phase[c] = "final_sent"
    /\ scram_verify_server_final(c, code)
    /\ phase' = [phase EXCEPT ![c] = IF code = 334 THEN "confirming" ELSE "ok"]
    /\ UNCHANGED <<user, password, nonce, first, exchanges, proofs, signed>>

(* A server-final that does not verify ends the login.                     *)
RefuseServerFinal(c) ==
    /\ phase[c] = "final_sent"
    /\ \E final \in Finals(c) :
         ~verify_server_final(final, ClientFinal(c, first[c]).expected)
    /\ GiveUp(c)

(* 235 after the empty continuation.                                       *)
Confirm(c) ==
    /\ phase[c] = "confirming"
    /\ phase' = [phase EXCEPT ![c] = "ok"]
    /\ UNCHANGED <<user, password, nonce, first, exchanges, proofs, signed>>

---------------------------------------------------------------------------
(* A client-first, forwarded or made up: the server adds its nonce.        *)
ServerFirst(u, cnonce) ==
    /\ \E s \in ServerNonces \ {x.snonce : x \in exchanges} :
         exchanges' = exchanges \union
            {[user |-> u, cnonce |-> cnonce, snonce |-> s,
              first |-> ServerFirstMessage(cnonce, s)]}
    /\ UNCHANGED <<login, proofs, signed>>

(* A proof for this very exchange: the server signs it.                    *)
ServerFinal(x) ==
    /\ ServerTerm("client", x) \in proofs
    /\ signed' = signed \union {x}
    /\ UNCHANGED <<login, exchanges, proofs>>

---------------------------------------------------------------------------
Init == /\ phase = [c \in Sessions |-> "idle"]
        /\ user = [c \in Sessions |-> None]
        /\ password = [c \in Sessions |-> "right"]
        /\ nonce = [c \in Sessions |-> None]
        /\ first = [c \in Sessions |-> <<>>]
        /\ exchanges = {} /\ proofs = {} /\ signed = {}

ClientNext(c) ==
    \/ \E u \in Users, p \in Passwords : build_client_first(c, u, p)
    \/ NoEntropy(c)
    \/ ReadServerFirst(c) \/ RefuseServerFirst(c) \/ OtherReply(c)
    \/ \E code \in {235, 334} : ReadServerFinal(c, code)
    \/ RefuseServerFinal(c) \/ Confirm(c)

Next == \/ \E c \in Sessions : ClientNext(c)
        \/ \E u \in Users, cnonce \in Nonces : ServerFirst(u, cnonce)
        \/ \E x \in exchanges : ServerFinal(x)

Spec == Init /\ [][Next]_vars

---------------------------------------------------------------------------
Exchange == [user : Users, cnonce : Nonces, snonce : ServerNonces,
             first : {ServerFirstMessage(n, s) : n \in Nonces, s \in ServerNonces}]

(* The types of the variables; a login has a nonce once it has begun.      *)
TypeOK ==
    /\ phase \in [Sessions -> Phases]
    /\ user \in [Sessions -> Users \union {None}]
    /\ password \in [Sessions -> Passwords]
    /\ nonce \in [Sessions -> Nonces \union {None}]
    /\ DOMAIN first = Sessions
    /\ exchanges \subseteq Exchange /\ signed \subseteq exchanges
    /\ \A c \in Sessions : phase[c] \notin {"idle", "failed"} => nonce[c] \in Nonces

(* The logins that go on after server-final, and the exchange of one.      *)
Trusting == {c \in Sessions : phase[c] \in {"confirming", "ok"}}

Matches(c, x) == x.user = user[c] /\ x.cnonce = nonce[c] /\ x.first = first[c]

(* Mutual authentication: run_auth_scram_sha256 never returns Ok, nor even *)
(* goes on after a 334, unless the server that holds the password has      *)
(* signed this very exchange: the same user, the nonce of this login and   *)
(* the server-first message that the client read.                          *)
ServerHasProved ==
    \A c \in Trusting : \E x \in signed : Matches(c, x)

(* Replay: a server-first message that a login has taken is never taken by *)
(* another, whoever sends it again and even if the other login has failed  *)
(* since.  A nonce of its own (generate_client_nonce) is not enough: each  *)
(* login has to look for it in what it reads (parse_server_first).         *)
NoFirstServesTwo ==
    \A c, d \in Sessions : first[c] # <<>> /\ first[c] = first[d] => c = d

(* Agreement of the two computations: a client that reads the server's own *)
(* messages for its login has them parsed, has sent the proof the server   *)
(* waits for, and accepts the server's signature.                          *)
HonestServerAccepted ==
    \A c \in Sessions : \A x \in exchanges :
        (user[c] = x.user /\ nonce[c] = x.cnonce /\ password[c] = "right") =>
          /\ phase[c] = "first_sent" => parse_server_first(x.first, nonce[c]).ok
          /\ (phase[c] = "final_sent" /\ first[c] = x.first) =>
                /\ ServerTerm("client", x) \in proofs
                /\ verify_server_final(<<<<"v", ServerTerm("server", x)>>>>,
                                       ClientFinal(c, first[c]).expected)
============================================================================
