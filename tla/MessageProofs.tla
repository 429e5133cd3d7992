--------------------------- MODULE MessageProofs ---------------------------
(***************************************************************************)
(* What the client writes and reads, for every input: the strings of       *)
(* Strings, and SCRAM between any number of logins.                        *)
(***************************************************************************)
EXTENDS Scram, Strings, SequenceTheorems, FiniteSetTheorems, NaturalsInduction,
        WellFoundedInduction, TLAPS

---------------------------------------------------------------------------
(* SCRAM: mutual authentication, freshness and agreement, for any number   *)
(* of users, nonces and server-first messages too.  For the first it does  *)
(* not matter what parse_server_first computes: the signature covers the   *)
(* message as it was read.                                                 *)

(* No two logins have drawn the same nonce.                                *)
NoncesDiffer ==
    \A c, d \in Sessions : nonce[c] = nonce[d] /\ nonce[c] # None => c = d

(* What a login has read, it has found its own nonce in.                   *)
ReadItsNonce ==
    \A c \in Sessions :
        first[c] # <<>> => /\ phase[c] # "idle" /\ nonce[c] # None
                           /\ parse_server_first(first[c], nonce[c]).ok

Inv == TypeOK /\ NoncesDiffer /\ ReadItsNonce /\ ServerHasProved

---------------------------------------------------------------------------
(* Types.                                                                  *)
LEMMA TypeInit == Init => TypeOK
BY NoneAssumption DEF Init, TypeOK, Phases, Passwords

LEMMA GiveUpType ==
    ASSUME TypeOK, NEW c \in Sessions, GiveUp(c)
    PROVE  TypeOK'
BY DEF TypeOK, GiveUp, Phases

LEMMA ServerFirstType ==
    ASSUME TypeOK, NEW u \in Users, NEW cnonce \in Nonces, ServerFirst(u, cnonce)
    PROVE  TypeOK'
<1>1. PICK s \in ServerNonces :
        exchanges' = exchanges \union
            {[user |-> u, cnonce |-> cnonce, snonce |-> s,
              first |-> ServerFirstMessage(cnonce, s)]}
  BY DEF ServerFirst
<1>2. [user |-> u, cnonce |-> cnonce, snonce |-> s,
       first |-> ServerFirstMessage(cnonce, s)] \in Exchange
  BY DEF Exchange
<1>3. exchanges' \subseteq Exchange /\ exchanges \subseteq exchanges'
  BY <1>1, <1>2 DEF TypeOK
<1> QED
  BY <1>3 DEF TypeOK, ServerFirst, login

LEMMA TypeNext == TypeOK /\ [Next]_vars => TypeOK'
<1> SUFFICES ASSUME TypeOK, [Next]_vars PROVE TypeOK'
  OBVIOUS
<1>1. CASE UNCHANGED vars
  BY <1>1 DEF TypeOK, vars, login
<1>2. ASSUME NEW c \in Sessions, NEW u \in Users, NEW p \in Passwords,
             build_client_first(c, u, p)
      PROVE  TypeOK'
  <2>1. PICK n \in Nonces : nonce' = [nonce EXCEPT ![c] = n]
    BY <1>2 DEF build_client_first, generate_client_nonce
  <2> QED
    BY <1>2, <2>1 DEF TypeOK, build_client_first, Phases
<1>3. ASSUME NEW c \in Sessions, GiveUp(c) PROVE TypeOK'
  BY <1>3, GiveUpType
<1>4. ASSUME NEW c \in Sessions, ReadServerFirst(c) PROVE TypeOK'
  BY <1>4 DEF TypeOK, ReadServerFirst, Phases
<1>5. ASSUME NEW c \in Sessions, NEW code \in {235, 334}, ReadServerFinal(c, code)
      PROVE  TypeOK'
  BY <1>5 DEF TypeOK, ReadServerFinal, Phases
<1>6. ASSUME NEW c \in Sessions, Confirm(c) PROVE TypeOK'
  BY <1>6 DEF TypeOK, Confirm, Phases
<1>7. ASSUME NEW x \in exchanges, ServerFinal(x) PROVE TypeOK'
  BY <1>7 DEF TypeOK, ServerFinal, login
<1> QED
  BY <1>1, <1>2, <1>3, <1>4, <1>5, <1>6, <1>7, ServerFirstType
  DEF Next, ClientNext, NoEntropy, RefuseServerFirst, OtherReply, RefuseServerFinal

(* Type correctness of the logins and of the server's record of them       *)
(* (run_auth_scram_sha256).                                                *)
THEOREM TypeCorrect == Spec => []TypeOK
BY TypeInit, TypeNext, PTL DEF Spec

---------------------------------------------------------------------------
(* The nonces.                                                             *)
LEMMA NoncesNext == TypeOK /\ NoncesDiffer /\ [Next]_vars => NoncesDiffer'
<1> SUFFICES ASSUME TypeOK, NoncesDiffer, [Next]_vars PROVE NoncesDiffer'
  OBVIOUS
<1>1. ASSUME NEW c \in Sessions, NEW u \in Users, NEW p \in Passwords,
             build_client_first(c, u, p)
      PROVE  NoncesDiffer'
  <2>1. PICK n \in Nonces \ UsedNonces : nonce' = [nonce EXCEPT ![c] = n]
    BY <1>1 DEF build_client_first, generate_client_nonce
  <2>2. \A d \in Sessions : nonce[d] # n
    BY <2>1 DEF UsedNonces
  <2> QED
    BY <2>1, <2>2 DEF NoncesDiffer, TypeOK
<1>2. ASSUME UNCHANGED nonce PROVE NoncesDiffer'
  BY <1>2 DEF NoncesDiffer
<1> QED
  BY <1>1, <1>2
  DEF Next, ClientNext, NoEntropy, RefuseServerFirst, OtherReply, RefuseServerFinal,
      GiveUp, ReadServerFirst, ReadServerFinal, Confirm, ServerFirst, ServerFinal,
      vars, login

LEMMA ReadNext == TypeOK /\ ReadItsNonce /\ [Next]_vars => ReadItsNonce'
<1> SUFFICES ASSUME TypeOK, ReadItsNonce, [Next]_vars PROVE ReadItsNonce'
  OBVIOUS
<1>1. ASSUME NEW c \in Sessions, NEW u \in Users, NEW p \in Passwords,
             build_client_first(c, u, p)
      PROVE  ReadItsNonce'
  <2>1. first[c] = <<>> /\ UNCHANGED first
    BY <1>1 DEF build_client_first, ReadItsNonce
  <2>2. \A d \in Sessions : d # c => phase'[d] = phase[d] /\ nonce'[d] = nonce[d]
    BY <1>1 DEF build_client_first, TypeOK
  <2> QED
    BY <2>1, <2>2 DEF ReadItsNonce
<1>2. ASSUME NEW c \in Sessions, GiveUp(c) PROVE ReadItsNonce'
  BY <1>2 DEF GiveUp, ReadItsNonce, TypeOK
<1>3. ASSUME NEW c \in Sessions, ReadServerFirst(c) PROVE ReadItsNonce'
  <2>1. PICK f : parse_server_first(f, nonce[c]).ok /\ first' = [first EXCEPT ![c] = f]
    BY <1>3 DEF ReadServerFirst
  <2>2. nonce[c] # None /\ UNCHANGED nonce
    BY <1>3, NoneAssumption DEF ReadServerFirst, TypeOK
  <2>3. \A d \in Sessions : d # c => phase'[d] = phase[d] /\ first'[d] = first[d]
    BY <1>3, <2>1 DEF ReadServerFirst, TypeOK
  <2>4. phase'[c] = "final_sent" /\ first'[c] = f
    BY <1>3, <2>1 DEF ReadServerFirst, TypeOK
  <2> QED
    BY <2>1, <2>2, <2>3, <2>4 DEF ReadItsNonce
<1>4. ASSUME NEW c \in Sessions, NEW code \in {235, 334}, ReadServerFinal(c, code)
      PROVE  ReadItsNonce'
  BY <1>4 DEF ReadServerFinal, ReadItsNonce, TypeOK
<1>5. ASSUME NEW c \in Sessions, Confirm(c) PROVE ReadItsNonce'
  BY <1>5 DEF Confirm, ReadItsNonce, TypeOK
<1>6. ASSUME UNCHANGED login PROVE ReadItsNonce'
  BY <1>6 DEF login, ReadItsNonce
<1> QED
  BY <1>1, <1>2, <1>3, <1>4, <1>5, <1>6
  DEF Next, ClientNext, NoEntropy, RefuseServerFirst, OtherReply, RefuseServerFinal,
      ServerFirst, ServerFinal, vars

(* A message that parse_server_first takes for one nonce it takes for no   *)
(* other.                                                                  *)
LEMMA OneNonceParses ==
    ASSUME NEW f, NEW n, NEW m,
           parse_server_first(f, n).ok, parse_server_first(f, m).ok
    PROVE  n = m
<1>1. ASSUME NEW k, parse_server_first(f, k).ok PROVE ParseAttrs(f).nonce[1][1] = k
  BY <1>1 DEF parse_server_first
<1> QED
  BY <1>1

---------------------------------------------------------------------------
(* A message that verifies carries the expected signature itself.          *)
LEMMA VerifiedIsKnown ==
    ASSUME NEW c \in Sessions, TypeOK, NEW code, scram_verify_server_final(c, code)
    PROVE  ClientFinal(c, first[c]).expected \in {ServerTerm("server", x) : x \in signed}
<1> DEFINE e == ClientFinal(c, first[c]).expected
           guess == hmac_sha256("server",
                       SaltedPassword("made-up", ServerSalt, ServerIterations), e.msg)
<1>1. PICK final \in Finals(c) : verify_server_final(final, e)
  BY DEF scram_verify_server_final
<1>2. e.key[1] = password[c]
  BY DEF ClientFinal, compute_client_final, hmac_sha256, SaltedPassword
<1>3. guess.key[1] = "made-up"
  BY DEF hmac_sha256, SaltedPassword
<1>4. e # guess
  BY <1>2, <1>3 DEF TypeOK, Passwords
<1> DEFINE sigs == {ServerTerm("server", x) : x \in signed}
<1> HIDE DEF e, guess, sigs
<1>5. final \in {<<<<"v", s>>>> : s \in sigs \union {guess}}
                  \union {<<<<"e", "other-error">>, <<"v", s>>>> : s \in sigs \union {guess}}
                  \union {<<<<"x", "">>>>}
  BY DEF Finals, e, guess, sigs
<1>6. CASE \E s \in sigs \union {guess} : final = <<<<"v", s>>>>
  <2>1. PICK s \in sigs \union {guess} : final = <<<<"v", s>>>>
    BY <1>6
  <2>2. DOMAIN final = {1} /\ final[1] = <<"v", s>>
    BY <2>1
  <2>3. <<"v", s>> = <<"v", e>>
    BY <1>1, <2>2 DEF verify_server_final
  <2> QED
    BY <1>4, <2>3 DEF e, sigs
<1>7. CASE \E s \in sigs \union {guess} : final = <<<<"e", "other-error">>, <<"v", s>>>>
  <2>1. 1 \in DOMAIN final /\ final[1][1] = "e"
    BY <1>7
  <2> QED
    BY <1>1, <2>1 DEF verify_server_final
<1>8. CASE final = <<<<"x", "">>>>
  <2> DEFINE ext == <<"x", "">>
  <2>a. ext[1] = "x"
    OBVIOUS
  <2>b. final = <<ext>>
    BY <1>8
  <2> HIDE DEF ext
  <2>1. DOMAIN final = {1} /\ final[1][1] = "x"
    BY <2>a, <2>b
  <2>2. <<"v", e>>[1] = "v" /\ \E i \in DOMAIN final : final[i] = <<"v", e>>
    BY <1>1 DEF verify_server_final
  <2>3. final[1] = <<"v", e>>
    BY <2>1, <2>2
  <2> QED
    BY <2>1, <2>2, <2>3
<1> QED
  BY <1>5, <1>6, <1>7, <1>8

(* A signature of the server that a login waits for is one of its own      *)
(* exchange.                                                               *)
LEMMA SignedIsMine ==
    ASSUME NEW c \in Sessions, NEW x,
           ClientFinal(c, first[c]).expected = ServerTerm("server", x)
    PROVE  Matches(c, x)
<1>1. ClientFinal(c, first[c]).expected.msg[1] = user[c]
  BY DEF ClientFinal, compute_client_final, hmac_sha256, AuthMessage
<1>2. ClientFinal(c, first[c]).expected.msg[2] = nonce[c]
  BY DEF ClientFinal, compute_client_final, hmac_sha256, AuthMessage
<1>3. ClientFinal(c, first[c]).expected.msg[3] = first[c]
  BY DEF ClientFinal, compute_client_final, hmac_sha256, AuthMessage
<1> QED
  BY <1>1, <1>2, <1>3 DEF Matches, ServerTerm

---------------------------------------------------------------------------
LEMMA InvInit == Init => Inv
BY TypeInit DEF Init, Inv, NoncesDiffer, ReadItsNonce, ServerHasProved, Trusting

(* A signed exchange stays signed, so a proof given stays given.           *)
LEMMA SignedStays == [Next]_vars => signed \subseteq signed'
BY DEF Next, ClientNext, NoEntropy, RefuseServerFirst, OtherReply, RefuseServerFinal,
       GiveUp, build_client_first, ReadServerFirst, ReadServerFinal, Confirm,
       ServerFirst, ServerFinal, vars, login

LEMMA ProvedNext == Inv /\ [Next]_vars => ServerHasProved'
<1> SUFFICES ASSUME Inv, [Next]_vars PROVE ServerHasProved'
  OBVIOUS
<1>0. TypeOK /\ ServerHasProved
  BY DEF Inv
<1>a. ASSUME NEW d \in Trusting, UNCHANGED <<user, nonce, first>>
      PROVE  \E x \in signed' : Matches(d, x)'
  BY <1>a, <1>0, SignedStays DEF ServerHasProved, Matches
<1>b. ASSUME UNCHANGED <<user, nonce, first>>, Trusting' \subseteq Trusting
      PROVE  ServerHasProved'
  BY <1>a, <1>b DEF ServerHasProved
<1>1. ASSUME NEW c \in Sessions, NEW u \in Users, NEW p \in Passwords,
             build_client_first(c, u, p)
      PROVE  ServerHasProved'
  <2> SUFFICES ASSUME NEW d \in Trusting'
               PROVE  \E x \in signed' : Matches(d, x)'
    BY DEF ServerHasProved
  <2>1. d \in Sessions /\ d # c /\ d \in Trusting
    BY <1>0, <1>1 DEF Trusting, build_client_first, TypeOK
  <2>2. user'[d] = user[d] /\ nonce'[d] = nonce[d] /\ first'[d] = first[d]
    BY <1>0, <1>1, <2>1 DEF build_client_first, TypeOK
  <2> QED
    BY <1>0, <2>1, <2>2, SignedStays DEF ServerHasProved, Matches
<1>2. ASSUME NEW c \in Sessions, GiveUp(c) PROVE ServerHasProved'
  <2>1. Trusting' \subseteq Trusting
    BY <1>0, <1>2 DEF Trusting, GiveUp, TypeOK
  <2> QED
    BY <1>2, <1>b, <2>1 DEF GiveUp
<1>3. ASSUME NEW c \in Sessions, ReadServerFirst(c) PROVE ServerHasProved'
  <2> SUFFICES ASSUME NEW d \in Trusting'
               PROVE  \E x \in signed' : Matches(d, x)'
    BY DEF ServerHasProved
  <2>1. d \in Sessions /\ d # c /\ d \in Trusting
    BY <1>0, <1>3 DEF Trusting, ReadServerFirst, TypeOK
  <2>2. user'[d] = user[d] /\ nonce'[d] = nonce[d] /\ first'[d] = first[d]
    BY <1>0, <1>3, <2>1 DEF ReadServerFirst, TypeOK
  <2> QED
    BY <1>0, <2>1, <2>2, SignedStays DEF ServerHasProved, Matches
<1>4. ASSUME NEW c \in Sessions, NEW code \in {235, 334}, ReadServerFinal(c, code)
      PROVE  ServerHasProved'
  <2>1. UNCHANGED <<user, nonce, first>> /\ Trusting' \subseteq Trusting \union {c}
    BY <1>0, <1>4 DEF ReadServerFinal, Trusting, TypeOK
  <2>2. ClientFinal(c, first[c]).expected \in {ServerTerm("server", x) : x \in signed}
    BY <1>0, <1>4, VerifiedIsKnown DEF ReadServerFinal
  <2>3. PICK x \in signed : Matches(c, x)
    BY <1>0, <2>2, SignedIsMine
  <2>4. Matches(c, x)'
    BY <2>1, <2>3 DEF Matches
  <2> QED
    BY <2>1, <2>3, <2>4, <1>a, SignedStays, <1>0 DEF ServerHasProved
<1>5. ASSUME NEW c \in Sessions, Confirm(c) PROVE ServerHasProved'
  <2>1. Trusting' \subseteq Trusting
    BY <1>0, <1>5 DEF Trusting, Confirm, TypeOK
  <2> QED
    BY <1>5, <1>b, <2>1 DEF Confirm
<1>6. ASSUME UNCHANGED login PROVE ServerHasProved'
  BY <1>6, <1>b DEF login, Trusting
<1> QED
  BY <1>1, <1>2, <1>3, <1>4, <1>5, <1>6
  DEF Next, ClientNext, NoEntropy, RefuseServerFirst, OtherReply, RefuseServerFinal,
      ServerFirst, ServerFinal, vars

LEMMA InvNext == Inv /\ [Next]_vars => Inv'
BY TypeNext, NoncesNext, ReadNext, ProvedNext DEF Inv

(* No login is let in, nor goes on after a 334, unless the server that     *)
(* holds the password signed that login's exchange (run_auth_scram_sha256, *)
(* scram_verify_server_final).                                             *)
THEOREM MutualAuthentication == Spec => []ServerHasProved
<1>1. Spec => []Inv
  BY InvInit, InvNext, PTL DEF Spec
<1> QED
  BY <1>1, PTL DEF Inv

(* No server-first message serves two logins: the check of the nonce in    *)
(* parse_server_first and the draw of it in generate_client_nonce.         *)
THEOREM NoFirstIsReplayed == Spec => []NoFirstServesTwo
<1>1. Spec => []Inv
  BY InvInit, InvNext, PTL DEF Spec
<1>2. Inv => NoFirstServesTwo
  <2> SUFFICES ASSUME Inv, NEW c \in Sessions, NEW d \in Sessions,
                      first[c] # <<>>, first[c] = first[d]
               PROVE  c = d
    BY DEF NoFirstServesTwo
  <2>1. nonce[c] = nonce[d]
    BY OneNonceParses DEF Inv, ReadItsNonce
  <2> QED
    BY <2>1 DEF Inv, ReadItsNonce, NoncesDiffer
<1> QED
  BY <1>1, <1>2, PTL

---------------------------------------------------------------------------
(* What the loop of parse_server_first starts from.                        *)
Blank == [ok |-> TRUE, nonce |-> <<>>, salt |-> <<>>, iterations |-> <<>>]

(* The loop over a message of three attributes.                            *)
LEMMA ThreeTurns ==
    ASSUME NEW f, Len(f) = 3
    PROVE  ParseAttrs(f) = ParseAttr(ParseAttr(ParseAttr(Blank, f[1]), f[2]), f[3])
<1> DEFINE a1 == ParseAttr(Blank, f[1])
           a2 == ParseAttr(a1, f[2])
           a3 == ParseAttr(a2, f[3])
           F(g) == [n \in 0 .. Len(f) |-> IF n = 0 THEN Blank ELSE ParseAttr(g[n - 1], f[n])]
           w == [n \in 0 .. Len(f) |-> IF n = 0 THEN Blank ELSE
                                IF n = 1 THEN a1 ELSE IF n = 2 THEN a2 ELSE a3]
           acc == CHOOSE g : g = F(g)
<1>1. w = F(w)
  <2> HIDE DEF a1, a2, a3
  <2>1. ASSUME NEW n \in 0 .. Len(f) PROVE w[n] = F(w)[n]
    <3>1. CASE n = 0
      BY <3>1
    <3>2. CASE n = 1
      BY <3>2 DEF a1
    <3>3. CASE n = 2
      BY <3>3 DEF a2
    <3>4. CASE n = 3
      BY <3>4 DEF a3
    <3> QED
      BY <3>1, <3>2, <3>3, <3>4
  <2> QED
    BY <2>1
<1>2. acc = F(acc)
  <2>. HIDE DEF F, w
  <2>. QED BY <1>1
<1>3. ParseAttrs(f) = acc[Len(f)]
  BY Zenon DEF ParseAttrs, Blank
<1> HIDE DEF acc
<1>4. acc[0] = Blank /\ acc[1] = ParseAttr(acc[0], f[1]) /\ acc[2] = ParseAttr(acc[1], f[2])
      /\ acc[3] = ParseAttr(acc[2], f[3])
  BY <1>2
<1> QED
  BY <1>3, <1>4

(* The server's own message has the three values, and the client takes it. *)
LEMMA HonestParse ==
    ASSUME NEW n, NEW s
    PROVE  LET p == parse_server_first(ServerFirstMessage(n, s), n)
           IN /\ p.ok = TRUE /\ p.nonce = <<<<n, s>>>> /\ p.salt = <<ServerSalt>>
              /\ p.iterations = <<ServerIterations>>
<1> DEFINE f == ServerFirstMessage(n, s)
           p1 == [ok |-> TRUE, nonce |-> <<<<n, s>>>>, salt |-> <<>>, iterations |-> <<>>]
           p2 == [ok |-> TRUE, nonce |-> <<<<n, s>>>>, salt |-> <<ServerSalt>>, iterations |-> <<>>]
           p3 == [ok |-> TRUE, nonce |-> <<<<n, s>>>>, salt |-> <<ServerSalt>>,
                  iterations |-> <<ServerIterations>>]
           fine == /\ p3.ok
                   /\ p3.nonce # <<>> /\ p3.salt # <<>> /\ p3.iterations # <<>>
                   /\ p3.nonce[1][1] = n
                   /\ p3.iterations[1] \in MinIterations .. MaxIterations
                   /\ p3.salt[1] # "not-base64"
<1>1. /\ Len(f) = 3 /\ f[1] = <<"r", <<n, s>>>> /\ f[2] = <<"s", ServerSalt>>
      /\ f[3] = <<"i", ServerIterations>>
  BY DEF ServerFirstMessage
<1> HIDE DEF f
<1>2. ParseAttr(Blank, <<"r", <<n, s>>>>) = p1
  BY DEF ParseAttr, Blank
<1>3. ParseAttr(p1, <<"s", ServerSalt>>) = p2
  BY DEF ParseAttr
<1>4. ServerIterations \in MinIterations .. MaxIterations /\ ServerSalt # "not-base64"
  BY ServerAssumption, Zenon
<1>5. ServerIterations # -1
  <2>1. MinIterations \in Nat /\ MaxIterations \in Nat
    BY SMT DEF MinIterations, MaxIterations
  <2>2. ServerIterations \in MinIterations .. MaxIterations
    BY <1>4, Zenon
  <2> QED
    BY <2>1, <2>2, SMT
<1>6. ParseAttr(p2, <<"i", ServerIterations>>) = p3
  BY <1>5 DEF ParseAttr
<1>7. ParseAttrs(f) = p3
  BY <1>1, <1>2, <1>3, <1>6, ThreeTurns
<1>8. /\ p3.ok = TRUE /\ p3.nonce = <<<<n, s>>>> /\ p3.salt = <<ServerSalt>>
      /\ p3.iterations = <<ServerIterations>>
  OBVIOUS
<1>9. DOMAIN p3 = {"ok", "nonce", "salt", "iterations"}
  OBVIOUS
<1>10. parse_server_first(f, n) = [p3 EXCEPT !.ok = fine]
  BY <1>7, Zenon DEF parse_server_first
<1> HIDE DEF p3
<1>11. /\ p3.nonce # <<>> /\ p3.salt # <<>> /\ p3.iterations # <<>>
       /\ p3.nonce[1][1] = n /\ p3.iterations[1] = ServerIterations /\ p3.salt[1] = ServerSalt
  BY <1>8
<1>12. fine = TRUE
  BY <1>4, <1>8, <1>11, Zenon
<1> HIDE DEF fine
<1> DEFINE p == parse_server_first(f, n)
<1>13. p = [p3 EXCEPT !.ok = TRUE]
  BY <1>10, <1>12, Zenon
<1> HIDE DEF p
<1>14. p.ok = TRUE
  BY <1>9, <1>13
<1>15. p.nonce = p3.nonce /\ p.salt = p3.salt /\ p.iterations = p3.iterations
  BY <1>9, <1>13
<1> QED
  BY <1>8, <1>14, <1>15 DEF f, p

(* What the client sends and expects, when it has read the server's own    *)
(* message with the right password, is what the server computes.           *)
LEMMA BothCompute ==
    ASSUME NEW c \in Sessions, NEW x, x.first = ServerFirstMessage(x.cnonce, x.snonce),
           user[c] = x.user, nonce[c] = x.cnonce, password[c] = "right"
    PROVE  /\ ClientFinal(c, x.first).proof = ServerTerm("client", x)
           /\ ClientFinal(c, x.first).expected = ServerTerm("server", x)
<1> DEFINE p == parse_server_first(x.first, nonce[c])
<1>1. /\ p.nonce = <<<<x.cnonce, x.snonce>>>> /\ p.salt = <<ServerSalt>>
      /\ p.iterations = <<ServerIterations>>
  <2>1. p = parse_server_first(ServerFirstMessage(x.cnonce, x.snonce), x.cnonce)
    BY Zenon
  <2> HIDE DEF p
  <2> QED
    BY <2>1, HonestParse
<1> HIDE DEF p
<1>2. p.nonce[1] = <<x.cnonce, x.snonce>> /\ p.salt[1] = ServerSalt
      /\ p.iterations[1] = ServerIterations
  BY <1>1
<1>3. ClientFinal(c, x.first) = compute_client_final(user[c], password[c], nonce[c], p, x.first)
  BY DEF ClientFinal, p
<1> QED
  BY <1>2, <1>3 DEF compute_client_final, AuthMessage, SaltedPassword, hmac_sha256, ServerTerm

---------------------------------------------------------------------------
(* The server-first message of an exchange is made of its nonces.          *)
FirstIsOwn == \A x \in exchanges : x.first = ServerFirstMessage(x.cnonce, x.snonce)

(* A login that waits for server-final has sent its proof.                 *)
ProofIsOut ==
    \A c \in Sessions : phase[c] = "final_sent" => ClientFinal(c, first[c]).proof \in proofs

LEMMA SameLoginSameFinal ==
    ASSUME NEW c, user'[c] = user[c], password'[c] = password[c], nonce'[c] = nonce[c],
           NEW f, NEW g, f = g
    PROVE  compute_client_final(user'[c], password'[c], nonce'[c],
                                parse_server_first(f, nonce'[c]), f) = ClientFinal(c, g)
BY Zenon DEF ClientFinal

LEMMA FirstIsOwnNext == FirstIsOwn /\ [Next]_vars => FirstIsOwn'
<1> SUFFICES ASSUME FirstIsOwn, [Next]_vars PROVE FirstIsOwn'
  OBVIOUS
<1>1. ASSUME NEW u \in Users, NEW cnonce \in Nonces, ServerFirst(u, cnonce)
      PROVE  FirstIsOwn'
  <2>1. PICK s \in ServerNonces :
          exchanges' = exchanges \union
              {[user |-> u, cnonce |-> cnonce, snonce |-> s,
                first |-> ServerFirstMessage(cnonce, s)]}
    BY <1>1 DEF ServerFirst
  <2> QED
    BY <2>1 DEF FirstIsOwn
<1>2. ASSUME UNCHANGED exchanges PROVE FirstIsOwn'
  BY <1>2 DEF FirstIsOwn
<1> QED
  BY <1>1, <1>2
  DEF Next, ClientNext, NoEntropy, RefuseServerFirst, OtherReply, RefuseServerFinal,
      GiveUp, build_client_first, ReadServerFirst, ReadServerFinal, Confirm, ServerFinal,
      vars

LEMMA ProofIsOutNext == TypeOK /\ ProofIsOut /\ [Next]_vars => ProofIsOut'
<1> SUFFICES ASSUME TypeOK, ProofIsOut, [Next]_vars,
                    NEW d \in Sessions, phase'[d] = "final_sent"
             PROVE  (ClientFinal(d, first[d]).proof \in proofs)'
  BY DEF ProofIsOut
<1>0. proofs \subseteq proofs'
  BY DEF Next, ClientNext, NoEntropy, RefuseServerFirst, OtherReply, RefuseServerFinal,
     GiveUp, build_client_first, ReadServerFirst, ReadServerFinal, Confirm,
     ServerFirst, ServerFinal, vars, login
<1>a. ASSUME phase[d] = "final_sent", user'[d] = user[d], password'[d] = password[d],
             nonce'[d] = nonce[d], first'[d] = first[d]
      PROVE  (ClientFinal(d, first[d]).proof \in proofs)'
  <2>1. ClientFinal(d, first[d]).proof \in proofs
    BY <1>a DEF ProofIsOut
  <2>2. compute_client_final(user'[d], password'[d], nonce'[d],
             parse_server_first(first'[d], nonce'[d]), first'[d]) = ClientFinal(d, first[d])
    BY <1>a, SameLoginSameFinal
  <2>3. (ClientFinal(d, first[d]))' = ClientFinal(d, first[d])
    BY <2>2, Zenon DEF ClientFinal
  <2> QED
    BY <1>0, <2>1, <2>3
<1>b. ASSUME UNCHANGED login PROVE (ClientFinal(d, first[d]).proof \in proofs)'
  BY <1>a, <1>b DEF login
<1>1. ASSUME NEW c \in Sessions, NEW u \in Users, NEW p \in Passwords,
             build_client_first(c, u, p)
      PROVE  (ClientFinal(d, first[d]).proof \in proofs)'
  <2>1. d # c /\ phase[d] = "final_sent"
    BY <1>1 DEF build_client_first, TypeOK
  <2>2. /\ user'[d] = user[d] /\ password'[d] = password[d]
        /\ nonce'[d] = nonce[d] /\ first'[d] = first[d]
    BY <1>1, <2>1 DEF build_client_first, TypeOK
  <2> QED
    BY <1>a, <2>1, <2>2
<1>2. ASSUME NEW c \in Sessions, UNCHANGED <<user, password, nonce, first>>,
             NEW q \in Phases \ {"final_sent"}, phase' = [phase EXCEPT ![c] = q]
      PROVE  (ClientFinal(d, first[d]).proof \in proofs)'
  <2>1. phase[d] = "final_sent"
    BY <1>2 DEF TypeOK
  <2> QED
    BY <1>a, <1>2, <2>1
<1>3. ASSUME NEW c \in Sessions, ReadServerFirst(c)
      PROVE  (ClientFinal(d, first[d]).proof \in proofs)'
  <2>1. UNCHANGED <<user, password, nonce>>
    BY <1>3 DEF ReadServerFirst
  <2>2. CASE d # c
    <3>1. phase[d] = "final_sent" /\ first'[d] = first[d]
      BY <1>3, <2>2 DEF ReadServerFirst, TypeOK
    <3> QED
      BY <1>a, <2>1, <3>1
  <2>3. CASE d = c
    <3>1. PICK f \in FirstsOnWire : /\ first' = [first EXCEPT ![c] = f]
                                    /\ proofs' = proofs \union {ClientFinal(c, f).proof}
      BY <1>3 DEF ReadServerFirst
    <3>2. first'[d] = f
      BY <2>3, <3>1 DEF TypeOK
    <3>3. compute_client_final(user'[d], password'[d], nonce'[d],
               parse_server_first(first'[d], nonce'[d]), first'[d]) = ClientFinal(d, f)
      BY <2>1, <3>2, SameLoginSameFinal
    <3>4. (ClientFinal(d, first[d]))' = ClientFinal(c, f)
      BY <2>3, <3>3, Zenon DEF ClientFinal
    <3> QED
      BY <3>1, <3>4
  <2> QED
    BY <2>2, <2>3
<1>4. ASSUME NEW c \in Sessions, GiveUp(c)
      PROVE  (ClientFinal(d, first[d]).proof \in proofs)'
  BY <1>2, <1>4 DEF GiveUp, Phases
<1>5. ASSUME NEW c \in Sessions, NEW code \in {235, 334}, ReadServerFinal(c, code)
      PROVE  (ClientFinal(d, first[d]).proof \in proofs)'
  <2>1. CASE code = 334
    <3>1. UNCHANGED <<user, password, nonce, first>>
      BY <1>5 DEF ReadServerFinal
    <3>2. phase' = [phase EXCEPT ![c] = "confirming"]
      BY <1>5, <2>1 DEF ReadServerFinal
    <3>3. "confirming" \in Phases \ {"final_sent"}
      BY DEF Phases
    <3> QED
      BY <1>2, <3>1, <3>2, <3>3
  <2>2. CASE code = 235
    <3>1. UNCHANGED <<user, password, nonce, first>>
      BY <1>5 DEF ReadServerFinal
    <3>2. phase' = [phase EXCEPT ![c] = "ok"]
      BY <1>5, <2>2 DEF ReadServerFinal
    <3>3. "ok" \in Phases \ {"final_sent"}
      BY DEF Phases
    <3> QED
      BY <1>2, <3>1, <3>2, <3>3
  <2> QED
    BY <2>1, <2>2
<1>6. ASSUME NEW c \in Sessions, Confirm(c)
      PROVE  (ClientFinal(d, first[d]).proof \in proofs)'
  BY <1>2, <1>6 DEF Confirm, Phases
<1> QED
  BY <1>1, <1>3, <1>4, <1>5, <1>6, <1>b
  DEF Next, ClientNext, NoEntropy, RefuseServerFirst, OtherReply, RefuseServerFinal,
      ServerFirst, ServerFinal, vars

(* A login with the right password that reads the server's own messages is *)
(* never turned away: parse_server_first takes server-first, the proof in  *)
(* client-final is the one the server waits for, and                       *)
(* verify_server_final takes its signature.                                *)
THEOREM HonestServerIsAccepted == Spec => []HonestServerAccepted
<1>1. Init => FirstIsOwn /\ ProofIsOut
  BY DEF Init, FirstIsOwn, ProofIsOut
<1>2. Spec => [](FirstIsOwn /\ ProofIsOut)
  BY <1>1, FirstIsOwnNext, ProofIsOutNext, TypeCorrect, PTL DEF Spec
<1>3. FirstIsOwn /\ ProofIsOut => HonestServerAccepted
  <2> SUFFICES ASSUME FirstIsOwn, ProofIsOut, NEW c \in Sessions, NEW x \in exchanges,
                      user[c] = x.user, nonce[c] = x.cnonce, password[c] = "right"
               PROVE  /\ phase[c] = "first_sent" => parse_server_first(x.first, nonce[c]).ok
                      /\ (phase[c] = "final_sent" /\ first[c] = x.first) =>
                            /\ ServerTerm("client", x) \in proofs
                            /\ verify_server_final(<<<<"v", ServerTerm("server", x)>>>>,
                                                   ClientFinal(c, first[c]).expected)
    BY Zenon DEF HonestServerAccepted
  <2>1. x.first = ServerFirstMessage(x.cnonce, x.snonce)
    BY DEF FirstIsOwn
  <2>2. parse_server_first(x.first, nonce[c]).ok
    <3>1. parse_server_first(x.first, nonce[c])
            = parse_server_first(ServerFirstMessage(x.cnonce, x.snonce), x.cnonce)
      BY <2>1, Zenon
    <3>2. parse_server_first(ServerFirstMessage(x.cnonce, x.snonce), x.cnonce).ok = TRUE
      BY HonestParse, Zenon
    <3> QED
      BY <3>1, <3>2, Zenon
  <2>3. /\ ClientFinal(c, x.first).proof = ServerTerm("client", x)
        /\ ClientFinal(c, x.first).expected = ServerTerm("server", x)
    BY <2>1, BothCompute
  <2>4. ASSUME phase[c] = "final_sent", first[c] = x.first
        PROVE  ServerTerm("client", x) \in proofs
    BY <2>3, <2>4, Zenon DEF ProofIsOut
  <2>5. ASSUME NEW e PROVE verify_server_final(<<<<"v", e>>>>, e)
    <3> DEFINE final == <<<<"v", e>>>>
    <3>1. DOMAIN final = {1} /\ final[1] = <<"v", e>> /\ final[1][1] = "v"
      OBVIOUS
    <3> HIDE DEF final
    <3>2. \A i \in DOMAIN final : final[i][1] # "e"
      BY <3>1
    <3>3. \A j \in 1 .. 1 - 1 : final[j][1] # "v"
      OBVIOUS
    <3> QED
      BY <3>1, <3>2, <3>3, Zenon DEF verify_server_final, final
  <2> QED
    BY <2>2, <2>3, <2>4, <2>5, Zenon
<1> QED
  BY <1>2, <1>3, PTL

---------------------------------------------------------------------------
(***************************************************************************)
(* The strings.                                                            *)
(***************************************************************************)

(* An induction over the naturals, for a set.                              *)
LEMMA SetInduction ==
    ASSUME NEW T, 0 \in T, \A k \in T : k + 1 \in T
    PROVE  Nat \subseteq T
<1> SUFFICES ASSUME Nat \ T # {} PROVE FALSE
  OBVIOUS
<1>1. PICK i \in Nat \ T : \A j \in Nat \ T : ~(<<j, i>> \in OpToRel(<, Nat))
  BY NatLessThanWellFounded, WFMin
<1>2. \A j \in Nat \ T : ~(j < i)
  BY <1>1 DEF OpToRel
<1>3. i # 0 /\ i \in Nat
  BY <1>1
<1>4. i - 1 \in Nat /\ i - 1 < i /\ (i - 1) + 1 = i
  BY <1>3
<1>5. i - 1 \in T
  BY <1>2, <1>4
<1> QED
  BY <1>1, <1>4, <1>5

(* A loop of m turns from x, of which turn n is F[<<n, state>>], has a run. *)
Turns(m, S) == [(1 .. m) \X S -> S]
RunOf(g, m, S, x, F) == /\ g \in [0 .. m -> S] /\ g[0] = x
                        /\ \A n \in 1 .. m : g[n] = F[<<n, g[n - 1]>>]

LEMMA Loop ==
    ASSUME NEW S, NEW x \in S, NEW m \in Nat, NEW F \in Turns(m, S)
    PROVE  \E g : RunOf(g, m, S, x, F)
<1> USE DEF Turns
<1> DEFINE Run(k, g) == /\ g \in [0 .. k -> S] /\ g[0] = x
                        /\ \A n \in 1 .. k : g[n] = F[<<n, g[n - 1]>>]
           T == {k \in Nat : k <= m => \E g : Run(k, g)}
<1>1. 0 \in T
  <2>1. Run(0, [n \in 0 .. 0 |-> x])
    OBVIOUS
  <2> QED
    BY <2>1
<1>2. ASSUME NEW k \in T PROVE k + 1 \in T
  <2> SUFFICES ASSUME k + 1 <= m PROVE \E g : Run(k + 1, g)
    OBVIOUS
  <2>0. k \in Nat /\ k <= m
    OBVIOUS
  <2>1. PICK g : Run(k, g)
    BY <2>0
  <2> DEFINE y == F[<<k + 1, g[k]>>]
             h == [n \in 0 .. k + 1 |-> IF n = k + 1 THEN y ELSE g[n]]
  <2>2. y \in S
    <3>1. k + 1 \in 1 .. m /\ g[k] \in S
      BY <2>0, <2>1
    <3> QED
      BY <3>1
  <2>3. h \in [0 .. k + 1 -> S] /\ h[0] = x
    BY <2>0, <2>1, <2>2
  <2>4. ASSUME NEW n \in 1 .. k + 1 PROVE h[n] = F[<<n, h[n - 1]>>]
    <3>1. CASE n = k + 1
      <4>1. h[n - 1] = g[k] /\ n - 1 = k
        BY <2>0, <3>1
      <4>2. h[n] = y
        BY <3>1
      <4> QED
        BY <3>1, <4>1, <4>2
    <3>2. CASE n \in 1 .. k
      <4>1. h[n] = g[n] /\ h[n - 1] = g[n - 1]
        BY <2>0, <3>2
      <4> QED
        BY <2>1, <3>2, <4>1
    <3> QED
      BY <2>0, <3>1, <3>2
  <2>5. Run(k + 1, h)
    BY <2>3, <2>4
  <2> QED
    BY <2>5
<1> HIDE DEF T
<1>3. m \in T
  BY <1>1, <1>2, SetInduction
<1> QED
  BY <1>3 DEF T, RunOf

(* The least and the greatest of some numbers.                             *)
LEMMA MinIs ==
    ASSUME NEW S, S \subseteq Int, NEW x \in S, \A y \in S : x <= y
    PROVE  Min(S) = x
<1>1. \A z \in S : (\A y \in S : z =< y) => z = x
  OBVIOUS
<1> QED
  BY <1>1 DEF Min

LEMMA MaxIs ==
    ASSUME NEW S, S \subseteq Int, NEW x \in S, \A y \in S : x >= y
    PROVE  Max(S) = x
<1>1. \A z \in S : (\A y \in S : z >= y) => z = x
  OBVIOUS
<1> QED
  BY <1>1 DEF Max

LEMMA MinExists ==
    ASSUME NEW S, S \subseteq Nat, S # {}
    PROVE  Min(S) \in S /\ \A y \in S : Min(S) <= y
<1>1. PICK i \in S : \A j \in S : ~(<<j, i>> \in OpToRel(<, Nat))
  BY NatLessThanWellFounded, WFMin
<1>2. \A j \in S : ~(j < i)
  BY <1>1 DEF OpToRel
<1>3. S \subseteq Int /\ i \in S /\ \A j \in S : i <= j
  BY <1>2
<1>4. Min(S) = i
  BY <1>3, MinIs
<1> QED
  BY <1>3, <1>4

(* A part of a sequence.                                                   *)
LEMMA SubSeqIs ==
    ASSUME NEW S, NEW s \in Seq(S), NEW a \in 1 .. Len(s) + 1, NEW b \in a - 1 .. Len(s)
    PROVE  /\ SubSeq(s, a, b) \in Seq(S)
           /\ Len(SubSeq(s, a, b)) = b - a + 1
           /\ \A i \in 1 .. b - a + 1 : SubSeq(s, a, b)[i] = s[a + i - 1]
<1>1. a \in Int /\ b \in Int /\ \A i \in a .. b : s[i] \in S
  OBVIOUS
<1>2. SubSeq(s, a, b) \in Seq(S)
  BY <1>1, SubSeqProperties
<1>3. Len(SubSeq(s, a, b)) = IF a <= b THEN b - a + 1 ELSE 0
  BY <1>1, SubSeqProperties
<1>4. \A i \in 1 .. b - a + 1 : SubSeq(s, a, b)[i] = s[a + i - 1]
  BY <1>1, SubSeqProperties
<1> QED
  BY <1>1, <1>2, <1>3, <1>4

LEMMA TailIs ==
    ASSUME NEW S, NEW s \in Seq(S), s # <<>>
    PROVE  /\ SubSeq(s, 2, Len(s)) \in Seq(S)
           /\ Len(SubSeq(s, 2, Len(s))) = Len(s) - 1
           /\ \A i \in 1 .. Len(s) - 1 : SubSeq(s, 2, Len(s))[i] = s[i + 1]
<1>1. Len(s) \in Nat /\ Len(s) # 0
  BY EmptySeq
<1>2. 2 \in 1 .. Len(s) + 1 /\ Len(s) \in 2 - 1 .. Len(s)
  BY <1>1
<1>3. Len(s) - 2 + 1 = Len(s) - 1 /\ \A i \in 1 .. Len(s) - 1 : 2 + i - 1 = i + 1
  BY <1>1
<1>4. /\ SubSeq(s, 2, Len(s)) \in Seq(S)
      /\ Len(SubSeq(s, 2, Len(s))) = Len(s) - 2 + 1
      /\ \A i \in 1 .. Len(s) - 2 + 1 : SubSeq(s, 2, Len(s))[i] = s[2 + i - 1]
  BY <1>2, SubSeqIs
<1> QED
  BY <1>3, <1>4

LEMMA ConcatIs ==
    ASSUME NEW C, NEW a \in Seq(C), NEW b \in Seq(C)
    PROVE  /\ a \o b \in Seq(C)
           /\ Len(a \o b) = Len(a) + Len(b)
           /\ \A i \in 1 .. Len(a) : (a \o b)[i] = a[i]
           /\ \A i \in 1 .. Len(b) : (a \o b)[Len(a) + i] = b[i]
<1>1. a \o b \in Seq(C)
  BY ConcatProperties
<1>2. Len(a \o b) = Len(a) + Len(b)
  BY ConcatProperties
<1>3. \A i \in 1 .. Len(a) + Len(b) : (a \o b)[i] = IF i <= Len(a) THEN a[i] ELSE b[i - Len(a)]
  BY ConcatProperties
<1>4. \A i \in 1 .. Len(a) : i \in 1 .. Len(a) + Len(b) /\ i <= Len(a)
  OBVIOUS
<1>5. \A i \in 1 .. Len(b) : /\ Len(a) + i \in 1 .. Len(a) + Len(b)
                             /\ ~(Len(a) + i <= Len(a)) /\ (Len(a) + i) - Len(a) = i
  OBVIOUS
<1> QED
  BY <1>1, <1>2, <1>3, <1>4, <1>5

(* What an input of each kind is made of.                                  *)
InputOK ==
    /\ kind \in ReplyKinds \union OtherKinds
    /\ kind = "address" => one \in Seq(AddressChars)
    /\ kind = "login" => one \in Seq(SaslChars) /\ two \in Seq(SaslChars)
    /\ kind = "raw" => one \in Seq(RawBytes)
    /\ kind = "encoded" => one \in Seq(EncodedChars)
    /\ kind = "ehlo" => one \in Seq(Seq(Words)) /\ one # <<>>
    /\ kind = "text" => one \in Seq(Seq(TextChars)) /\ one # <<>>
    /\ kind = "final" => one \in Seq(Seq(ReplyChars)) /\ one # <<>>
    /\ kind = "pem" => one \in Seq(PemLines)
    /\ kind = "first" => one \in Seq(Attrs)
    /\ kind = "name" => one \in Seq(NameChars)

LEMMA GrownLine ==
    ASSUME NEW C, NEW s \in Seq(Seq(C)), s # <<>>, NEW c \in C
    PROVE  LET t == [s EXCEPT ![Len(s)] = Append(@, c)]
           IN t \in Seq(Seq(C)) /\ t # <<>>
<1>1. Len(s) \in 1 .. Len(s) /\ s[Len(s)] \in Seq(C)
  BY EmptySeq
<1>2. Append(s[Len(s)], c) \in Seq(C)
  BY <1>1
<1> QED
  BY <1>1, <1>2

LEMMA GrownByPart ==
    ASSUME NEW C, NEW s \in Seq(Seq(C)), s # <<>>, NEW part \in Seq(C)
    PROVE  LET t == [s EXCEPT ![Len(s)] = @ \o part]
           IN t \in Seq(Seq(C)) /\ t # <<>>
<1>1. Len(s) \in 1 .. Len(s) /\ s[Len(s)] \in Seq(C)
  BY EmptySeq
<1>2. s[Len(s)] \o part \in Seq(C)
  BY <1>1
<1> QED
  BY <1>1, <1>2

LEMMA InputType == InputSpec => []InputOK
<1>1. InputInit => InputOK
  <2>1. ASSUME NEW C PROVE <<>> \in Seq(C) /\ <<<<>>>> \in Seq(Seq(C)) /\ <<<<>>>> # <<>>
    OBVIOUS
  <2> QED
    BY <2>1 DEF InputInit, InputOK, ReplyKinds, OtherKinds
<1>2. InputOK /\ [InputNext]_input => InputOK'
  <2> SUFFICES ASSUME InputOK, [InputNext]_input PROVE InputOK'
    OBVIOUS
  <2>1. CASE UNCHANGED input
    BY <2>1 DEF InputOK, input
  <2>2. CASE GrowAddress
    BY <2>2 DEF InputOK, GrowAddress, Grow
  <2>3. CASE GrowUser
    BY <2>3 DEF InputOK, GrowUser, Grow
  <2>4. CASE GrowSecret
    BY <2>4 DEF InputOK, GrowSecret
  <2>5. CASE GrowRaw
    BY <2>5 DEF InputOK, GrowRaw, Grow
  <2>6. CASE GrowEncoded
    BY <2>6 DEF InputOK, GrowEncoded, Grow
  <2>7. CASE GrowEhlo
    BY <2>7, GrownLine DEF InputOK, GrowEhlo, GrowLine
  <2>8. CASE NewLine
    BY <2>8 DEF InputOK, NewLine
  <2>9. CASE GrowText
    BY <2>9, GrownLine DEF InputOK, GrowText, GrowLine
  <2>10. CASE SecondLine
    <3>1. kind = "text" /\ kind' = kind /\ one \in Seq(Seq(TextChars))
      BY <2>10 DEF InputOK, SecondLine
    <3>2. PICK l \in CodeLines : one' = Append(one, l)
      BY <2>10 DEF SecondLine
    <3>3. l \in Seq(TextChars)
      BY InputAssumption, Zenon
    <3>4. Append(one, l) \in Seq(Seq(TextChars)) /\ Append(one, l) # <<>>
      BY <3>1, <3>3
    <3>5. one' \in Seq(Seq(TextChars)) /\ one' # <<>>
      BY <3>2, <3>4, Zenon
    <3> QED
      BY <3>1, <3>5 DEF InputOK, ReplyKinds
  <2>11. CASE GrowFinal
    <3>1. kind = "final" /\ kind' = kind /\ one \in Seq(Seq(ReplyChars)) /\ one # <<>>
      BY <2>11 DEF InputOK, GrowFinal
    <3>2. PICK part \in ReplyParts : one' = [one EXCEPT ![Len(one)] = @ \o part]
      BY <2>11 DEF GrowFinal
    <3>3. part \in Seq(ReplyChars)
      BY InputAssumption, Zenon
    <3>4. one' \in Seq(Seq(ReplyChars)) /\ one' # <<>>
      BY <3>1, <3>2, <3>3, GrownByPart
    <3> QED
      BY <3>1, <3>4 DEF InputOK, ReplyKinds
  <2>12. CASE GrowPem
    BY <2>12 DEF InputOK, GrowPem, Grow
  <2>13. CASE GrowFirst
    BY <2>13 DEF InputOK, GrowFirst, Grow
  <2>14. CASE GrowName
    BY <2>14 DEF InputOK, GrowName, Grow
  <2> QED
    BY <2>1, <2>2, <2>3, <2>4, <2>5, <2>6, <2>7, <2>8, <2>9, <2>10, <2>11, <2>12, <2>13, <2>14
    DEF InputNext
<1> QED
  BY <1>1, <1>2, PTL DEF InputSpec

---------------------------------------------------------------------------
(* The layout of an EHLO reply: what one line offers, and what all do.     *)
LEMMA OneLineOffers ==
    ASSUME NEW l, NEW m
    PROVE  ehlo_advertises_auth(<<l>>, m) <=>
              l # <<>> /\ l[1] = "AUTH" /\ m \in Range(Tail(l))
<1> DEFINE s == <<l>>
<1>1. DOMAIN s = {1} /\ s[1] = l
  OBVIOUS
<1> HIDE DEF s
<1>2. ehlo_advertises_auth(s, m) <=> l # <<>> /\ l[1] = "AUTH" /\ m \in Range(Tail(l))
  BY <1>1, Zenon DEF ehlo_advertises_auth
<1> QED
  BY <1>2 DEF s

LEMMA AllLinesOffer ==
    ASSUME NEW lines, NEW m
    PROVE  ehlo_advertises_auth(lines, m) <=>
              \E i \in DOMAIN lines : ehlo_advertises_auth(<<lines[i]>>, m)
<1>1. \A i : ehlo_advertises_auth(<<lines[i]>>, m) <=>
               lines[i] # <<>> /\ lines[i][1] = "AUTH" /\ m \in Range(Tail(lines[i]))
  BY OneLineOffers, Zenon
<1>2. ehlo_advertises_auth(lines, m) <=>
         \E i \in DOMAIN lines :
            lines[i] # <<>> /\ lines[i][1] = "AUTH" /\ m \in Range(Tail(lines[i]))
  BY Zenon DEF ehlo_advertises_auth
<1> QED
  BY <1>1, <1>2, Zenon

(* The mechanism taken, by the strongest offer.                            *)
LEMMA TakesStrongest ==
    ASSUME NEW lines
    PROVE  select_auth_mechanism(lines) =
              IF ehlo_advertises_auth(lines, "SCRAM-SHA-256") THEN "SCRAM-SHA-256"
              ELSE IF ehlo_advertises_auth(lines, "PLAIN") THEN "PLAIN"
              ELSE IF ehlo_advertises_auth(lines, "LOGIN") THEN "LOGIN" ELSE "none"
<1> DEFINE S == ehlo_advertises_auth(lines, "SCRAM-SHA-256")
           P == ehlo_advertises_auth(lines, "PLAIN")
           L == ehlo_advertises_auth(lines, "LOGIN")
<1> HIDE DEF S, P, L
<1>1. select_auth_mechanism(lines) =
         IF S THEN "SCRAM-SHA-256" ELSE IF P THEN "PLAIN" ELSE IF L THEN "LOGIN" ELSE "none"
  BY DEF select_auth_mechanism, S, P, L
<1> QED
  BY <1>1, Zenon DEF S, P, L

LEMMA Strengths ==
    /\ Strength("SCRAM-SHA-256") = 3 /\ Strength("PLAIN") = 2
    /\ Strength("LOGIN") = 1 /\ Strength("none") = 0
BY DEF Strength

(* However a server lays out its EHLO reply, the client takes the          *)
(* strongest mechanism that any line of it offers, and a service exactly   *)
(* if one line advertises it (select_auth_mechanism, and the               *)
(* ehlo_advertises_ functions).                                            *)
THEOREM OffersAddUp == InputSpec => []NoOfferIsLost
<1>1. InputOK => NoOfferIsLost
  <2> SUFFICES ASSUME InputOK, kind = "ehlo" PROVE NoOfferIsLost
    BY DEF NoOfferIsLost
  <2> DEFINE A(m) == ehlo_advertises_auth(one, m)
             B(i, m) == ehlo_advertises_auth(<<one[i]>>, m)
             Take(s, p, l) == IF s THEN "SCRAM-SHA-256" ELSE IF p THEN "PLAIN"
                              ELSE IF l THEN "LOGIN" ELSE "none"
             chosen == select_auth_mechanism(one)
             alone(i) == select_auth_mechanism(<<one[i]>>)
  <2>1. 1 \in DOMAIN one
    <3>1. one \in Seq(Seq(Words)) /\ one # <<>>
      BY DEF InputOK
    <3> QED
      BY <3>1, EmptySeq
  <2>2. chosen = Take(A("SCRAM-SHA-256"), A("PLAIN"), A("LOGIN"))
    BY TakesStrongest, Zenon
  <2>3. \A i : alone(i) = Take(B(i, "SCRAM-SHA-256"), B(i, "PLAIN"), B(i, "LOGIN"))
    BY TakesStrongest, Zenon
  <2>4. \A m : A(m) <=> \E i \in DOMAIN one : B(i, m)
    BY AllLinesOffer, Zenon
  <2>5. \A i, m : B(i, m) => one[i][1] = "AUTH" /\ m \in Range(Tail(one[i]))
    BY OneLineOffers, Zenon
  <2> HIDE DEF A, B, chosen, alone
  <2>6. \E i \in DOMAIN one :
          /\ alone(i) = chosen
          /\ chosen # "none" => one[i][1] = "AUTH" /\ chosen \in Range(Tail(one[i]))
    <3>1. CASE A("SCRAM-SHA-256")
      <4>1. PICK i \in DOMAIN one : B(i, "SCRAM-SHA-256")
        BY <3>1, <2>4
      <4>2. chosen = "SCRAM-SHA-256" /\ alone(i) = "SCRAM-SHA-256"
        BY <3>1, <4>1, <2>2, <2>3
      <4> QED
        BY <4>1, <4>2, <2>5
    <3>2. CASE ~A("SCRAM-SHA-256") /\ A("PLAIN")
      <4>1. PICK i \in DOMAIN one : B(i, "PLAIN")
        BY <3>2, <2>4
      <4>2. chosen = "PLAIN" /\ alone(i) = "PLAIN"
        BY <3>2, <4>1, <2>2, <2>3, <2>4
      <4> QED
        BY <4>1, <4>2, <2>5
    <3>3. CASE ~A("SCRAM-SHA-256") /\ ~A("PLAIN") /\ A("LOGIN")
      <4>1. PICK i \in DOMAIN one : B(i, "LOGIN")
        BY <3>3, <2>4
      <4>2. chosen = "LOGIN" /\ alone(i) = "LOGIN"
        BY <3>3, <4>1, <2>2, <2>3, <2>4
      <4> QED
        BY <4>1, <4>2, <2>5
    <3>4. CASE ~A("SCRAM-SHA-256") /\ ~A("PLAIN") /\ ~A("LOGIN")
      <4>1. chosen = "none" /\ alone(1) = "none"
        BY <3>4, <2>1, <2>2, <2>3, <2>4
      <4> QED
        BY <2>1, <4>1
    <3> QED
      BY <3>1, <3>2, <3>3, <3>4
  <2>7. ASSUME NEW i \in DOMAIN one PROVE Strength(alone(i)) <= Strength(chosen)
    <3>1. \A m : B(i, m) => A(m)
      BY <2>4
    <3> QED
      BY <3>1, <2>2, <2>3, Strengths
  <2>8. /\ ehlo_advertises_starttls(one)
              <=> \E i \in DOMAIN one : ehlo_advertises_starttls(<<one[i]>>)
        /\ ehlo_advertises_pipelining(one)
              <=> \E i \in DOMAIN one : ehlo_advertises_pipelining(<<one[i]>>)
    <3>1. \A l : DOMAIN <<l>> = {1} /\ <<l>>[1] = l
      OBVIOUS
    <3> QED
      BY <3>1, Zenon DEF ehlo_advertises_starttls, Advertises, ehlo_advertises_pipelining
  <2> QED
    BY <2>6, <2>7, <2>8 DEF NoOfferIsLost, alone, chosen
<1> QED
  BY <1>1, InputType, PTL

---------------------------------------------------------------------------
(* One command.  A line that holds neither CR nor LF, and its end.         *)
LEMMA OneLine ==
    ASSUME NEW C, NEW cmd \in Seq(C), cmd # <<>>,
           \A i \in 1 .. Len(cmd) : cmd[i] \notin {"CR", "LF"}
    PROVE  /\ CommandsIn(cmd \o CRLF) = {cmd}
           /\ SubSeq(cmd \o CRLF, 1, Len(cmd \o CRLF) - 2) = cmd
<1> DEFINE w == cmd \o CRLF
           n == Len(cmd)
           ends == {i \in DOMAIN w : w[i] \in {"CR", "LF"}}
           From(e) == IF \E b \in ends : b < e THEN Max({b \in ends : b < e}) + 1 ELSE 1
<1>1. n \in Nat /\ n > 0 /\ CRLF \in Seq({"CR", "LF"}) /\ Len(CRLF) = 2
  BY EmptySeq DEF CRLF
<1>2. w \in Seq(C \union {"CR", "LF"}) /\ Len(w) = n + 2 /\ DOMAIN w = 1 .. n + 2
  <2> DEFINE D == C \union {"CR", "LF"}
  <2>1. cmd \in Seq(D) /\ CRLF \in Seq(D)
    BY DEF CRLF
  <2> HIDE DEF D
  <2>2. w \in Seq(D) /\ Len(w) = n + 2
    <3>1. cmd \o CRLF \in Seq(D)
      BY <2>1, ConcatProperties
    <3>2. Len(cmd \o CRLF) = Len(cmd) + Len(CRLF)
      BY <2>1, ConcatProperties
    <3> QED
      BY <1>1, <3>1, <3>2
  <2>3. DOMAIN w = 1 .. Len(w)
    BY <2>2
  <2> QED
    BY <2>2, <2>3 DEF D
<1>3. /\ \A i \in 1 .. n : w[i] = cmd[i]
      /\ w[n + 1] = "CR" /\ w[n + 2] = "LF"
  BY <1>1 DEF CRLF
<1>4. ends = {n + 1, n + 2}
  BY <1>1, <1>2, <1>3
<1> HIDE DEF w, ends
<1>5. From(n + 1) = 1
  BY <1>1, <1>4
<1>6. From(n + 2) = n + 2
  <2>1. {b \in ends : b < n + 2} = {n + 1}
    <3>1. n + 1 < n + 2 /\ ~(n + 2 < n + 2)
      BY <1>1
    <3> QED
      BY <1>4, <3>1, Zenon
  <2>2. Max({n + 1}) = n + 1
    <3> DEFINE Q == {n + 1}
    <3>1. Q \subseteq Int /\ n + 1 \in Q /\ \A y \in Q : n + 1 >= y
      BY <1>1
    <3> HIDE DEF Q
    <3>2. Max(Q) = n + 1
      BY <3>1, MaxIs
    <3> QED
      BY <3>2 DEF Q
  <2>3. \E b \in ends : b < n + 2
    BY <1>1, <1>4
  <2>4. From(n + 2) = (n + 1) + 1
    BY <2>1, <2>2, <2>3
  <2> QED
    BY <1>1, <2>4
<1> HIDE DEF From
<1>7. SubSeq(w, 1, n) = cmd
  BY <1>1, <1>2, <1>3
<1>8. SubSeq(w, n + 2, n + 1) = <<>>
  BY <1>1, <1>2
<1>9. CommandsIn(w) = {SubSeq(w, From(e), e - 1) : e \in ends} \ {<<>>}
  BY DEF CommandsIn, ends, From
<1>10. {SubSeq(w, From(e), e - 1) : e \in ends} = {cmd, <<>>}
  <2>1. (n + 1) - 1 = n /\ (n + 2) - 1 = n + 1
    BY <1>1
  <2> QED
    BY <1>4, <1>5, <1>6, <1>7, <1>8, <2>1
<1>11. Len(w) - 2 = n
  BY <1>1, <1>2
<1> QED
  BY <1>7, <1>9, <1>10, <1>11 DEF w

LEMMA NoneOf ==
    ASSUME NEW C, NEW s \in Seq(C), NEW bad
    PROVE  ~HasAny(s, bad) <=> \A i \in 1 .. Len(s) : s[i] \notin bad
<1>1. DOMAIN s = 1 .. Len(s)
  OBVIOUS
<1>2. Range(s) = {s[i] : i \in 1 .. Len(s)}
  BY <1>1 DEF Range
<1> QED
  BY <1>2 DEF HasAny

(* A line around an address: a server finds the verb, the address and what *)
(* was put behind it.                                                      *)
LEMMA ReadsBack ==
    ASSUME one \in Seq(AddressChars), ~HasAny(one, {"CR", "LF", "<", ">"}),
           NEW verb \in {"MAIL-FROM:", "RCPT-TO:"},
           NEW tail \in Seq({">", "SP", "SMTPUTF8"}), tail # <<>>, tail[1] = ">"
    PROVE  ReadAs(<<verb, "<">> \o one \o tail \o CRLF, verb, SubSeq(tail, 2, Len(tail)))
<1> DEFINE n == Len(one)
           m == Len(tail)
           head == <<verb, "<">>
           cmd == head \o one \o tail
           C == AddressChars \union {verb, "SMTPUTF8"}
<1>1. n \in Nat /\ m \in Nat /\ m > 0 /\ Len(head) = 2
  BY EmptySeq
<1>2. \A i \in 1 .. n : one[i] \notin {"CR", "LF", "<", ">"}
  BY NoneOf
<1>3. head \in Seq(C) /\ one \in Seq(C) /\ tail \in Seq(C)
  <2>1. {"<", ">", "SP"} \subseteq AddressChars
    BY DEF AddressChars
  <2>2. head \in Seq(C)
    BY <2>1
  <2>3. one \in Seq(C)
    OBVIOUS
  <2>4. tail \in Seq(C)
    BY <2>1
  <2> QED
    BY <2>2, <2>3, <2>4
<1>4. C \in {C} /\ head[1] = verb /\ head[2] = "<" /\ verb \notin {"CR", "LF", "<", ">"}
  OBVIOUS
<1> HIDE DEF C, head
<1>5. head \o one \in Seq(C) /\ Len(head \o one) = n + 2
  <2>1. head \o one \in Seq(C)
    BY <1>3, ConcatProperties
  <2>2. Len(head \o one) = Len(head) + Len(one)
    BY <1>3, ConcatProperties
  <2> QED
    BY <1>1, <2>1, <2>2
<1>6. cmd \in Seq(C) /\ Len(cmd) = n + 2 + m
  <2>1. cmd \in Seq(C)
    BY <1>3, <1>5, ConcatProperties
  <2>2. Len(cmd) = Len(head \o one) + Len(tail)
    BY <1>3, <1>5, ConcatProperties
  <2> QED
    BY <1>1, <1>5, <2>1, <2>2
<1>7. /\ cmd[1] = verb /\ cmd[2] = "<"
      /\ \A i \in 1 .. n : cmd[i + 2] = one[i]
      /\ \A j \in 1 .. m : cmd[n + 2 + j] = tail[j]
  BY <1>1, <1>3, <1>4, <1>5
<1>8. cmd[n + 3] = ">"
  <2>1. 1 \in 1 .. m /\ n + 2 + 1 = n + 3
    BY <1>1
  <2> QED
    BY <1>7, <2>1
<1> HIDE DEF cmd
<1>9. \A j \in 1 .. m : tail[j] \notin {"CR", "LF"}
  OBVIOUS
<1>10. ASSUME NEW i \in 1 .. Len(cmd)
       PROVE  \/ i = 1 /\ cmd[i] = verb
              \/ i = 2 /\ cmd[i] = "<"
              \/ i \in 3 .. n + 2 /\ cmd[i] \notin {"CR", "LF", "<", ">"}
              \/ i \in n + 3 .. n + 2 + m /\ cmd[i] \notin {"CR", "LF"}
  <2>1. i \in 1 .. n + 2 + m
    BY <1>6
  <2>2. CASE i \in 3 .. n + 2
    <3>1. i - 2 \in 1 .. n /\ (i - 2) + 2 = i
      BY <1>1, <2>2
    <3> QED
      BY <1>2, <1>7, <2>2, <3>1
  <2>3. CASE i \in n + 3 .. n + 2 + m
    <3>1. i - n - 2 \in 1 .. m /\ n + 2 + (i - n - 2) = i
      BY <1>1, <2>3
    <3>2. cmd[i] = tail[i - n - 2]
      BY <1>7, <3>1
    <3> QED
      BY <1>9, <2>3, <3>1, <3>2
  <2>4. CASE i = 1 \/ i = 2
    BY <1>7, <2>4
  <2> QED
    BY <1>1, <2>1, <2>2, <2>3, <2>4
<1>11. cmd # <<>> /\ DOMAIN cmd = 1 .. n + 2 + m
  BY <1>1, <1>6
<1>12. CommandsIn(cmd \o CRLF) = {cmd} /\ SubSeq(cmd \o CRLF, 1, Len(cmd \o CRLF) - 2) = cmd
  <2>1. \A i \in 1 .. Len(cmd) : cmd[i] \notin {"CR", "LF"}
    BY <1>4, <1>10
  <2> QED
    BY <1>6, <1>11, <2>1, OneLine
<1>13. Path(cmd) = one
  <2> DEFINE A == {i \in DOMAIN cmd : cmd[i] = "<"}
             B == {i \in DOMAIN cmd : i > 2 /\ cmd[i] = ">"}
  <2>1. Min(A) = 2
    <3>1. 2 \in A /\ A \subseteq Int
      BY <1>1, <1>7, <1>11
    <3>2. \A i \in A : 2 <= i
      BY <1>4, <1>7, <1>11
    <3> HIDE DEF A
    <3> QED
      BY <3>1, <3>2, MinIs
  <2>2. Min(B) = n + 3
    <3>1. n + 3 \in B /\ B \subseteq Int
      BY <1>1, <1>8, <1>11
    <3>2. ASSUME NEW i \in B PROVE n + 3 <= i
      <4>1. i \in 1 .. n + 2 + m /\ i > 2 /\ cmd[i] = ">"
        BY <1>11
      <4>2. i \in n + 3 .. n + 2 + m
        BY <1>6, <1>10, <4>1
      <4> QED
        BY <1>1, <4>2
    <3> HIDE DEF B
    <3> QED
      BY <3>1, <3>2, MinIs
  <2>3. Path(cmd) = SubSeq(cmd, 2 + 1, (n + 3) - 1)
    BY <2>1, <2>2 DEF Path
  <2>4. SubSeq(cmd, 3, n + 2) = one
    <3> DEFINE z == SubSeq(cmd, 3, n + 2)
    <3>1. z \in Seq(C) /\ Len(z) = n /\ \A i \in 1 .. n : z[i] = cmd[i + 2]
      BY <1>1, <1>6
    <3> HIDE DEF z
    <3> QED
      BY <1>3, <1>7, <3>1, SeqEqual DEF z
  <2> QED
    BY <1>1, <2>3, <2>4
<1>14. Parameters(cmd) = SubSeq(tail, 2, m)
  <2> DEFINE B == {i \in DOMAIN cmd : cmd[i] = ">"}
  <2>1. Min(B) = n + 3
    <3>1. n + 3 \in B /\ B \subseteq Int
      BY <1>1, <1>8, <1>11
    <3>2. ASSUME NEW i \in B PROVE n + 3 <= i
      <4>1. i \in 1 .. n + 2 + m /\ cmd[i] = ">"
        BY <1>11
      <4>2. i \in n + 3 .. n + 2 + m
        BY <1>4, <1>6, <1>10, <4>1
      <4> QED
        BY <1>1, <4>2
    <3> HIDE DEF B
    <3> QED
      BY <3>1, <3>2, MinIs
  <2>2. Parameters(cmd) = SubSeq(cmd, (n + 3) + 1, n + 2 + m)
    BY <1>6, <2>1 DEF Parameters
  <2> DEFINE y == SubSeq(cmd, n + 4, n + 2 + m)
             z == SubSeq(tail, 2, m)
  <2>3. y \in Seq(C) /\ Len(y) = m - 1 /\ \A i \in 1 .. m - 1 : y[i] = cmd[n + 3 + i]
    <3>1. n + 4 \in 1 .. Len(cmd) + 1 /\ n + 2 + m \in (n + 4) - 1 .. Len(cmd)
      BY <1>1, <1>6
    <3>2. (n + 2 + m) - (n + 4) + 1 = m - 1 /\ \A i \in 1 .. m - 1 : (n + 4) + i - 1 = n + 3 + i
      BY <1>1
    <3>3. y \in Seq(C) /\ Len(y) = (n + 2 + m) - (n + 4) + 1
      BY <1>6, <3>1, SubSeqIs
    <3>4. \A i \in 1 .. (n + 2 + m) - (n + 4) + 1 : y[i] = cmd[(n + 4) + i - 1]
      BY <1>6, <3>1, SubSeqIs
    <3> QED
      BY <3>2, <3>3, <3>4
  <2>4. z \in Seq(C) /\ Len(z) = m - 1 /\ \A i \in 1 .. m - 1 : z[i] = tail[i + 1]
    <3>1. tail \in Seq(C)
      BY <1>3
    <3> QED
      BY <3>1, TailIs
  <2>5. ASSUME NEW i \in 1 .. m - 1 PROVE cmd[n + 3 + i] = tail[i + 1]
    <3>1. i + 1 \in 1 .. m /\ n + 2 + (i + 1) = n + 3 + i
      BY <1>1
    <3> QED
      BY <1>7, <3>1
  <2> HIDE DEF y, z
  <2>6. y = z
    <3>1. y \in Seq(C) /\ z \in Seq(C) /\ Len(y) = Len(z)
      BY <2>3, <2>4, Zenon
    <3>2. \A i \in 1 .. Len(y) : y[i] = z[i]
      BY <2>3, <2>4, <2>5, Zenon
    <3> QED
      BY <3>1, <3>2, SeqEqual, Zenon
  <2>7. (n + 3) + 1 = n + 4
    BY <1>1
  <2> QED
    BY <2>2, <2>6, <2>7 DEF y, z
<1> QED
  BY <1>7, <1>12, <1>13, <1>14 DEF ReadAs, cmd, head

(* Whatever address or domain a validator accepts, the server reads the    *)
(* line made of it as that one command about that very address             *)
(* (validate_address, validate_address_utf8, validate_ehlo_domain and the  *)
(* format_ functions).                                                     *)
THEOREM CommandsAreRead == InputSpec => []OneCommand
<1>1. InputOK => OneCommand
  <2> SUFFICES ASSUME kind = "address", one \in Seq(AddressChars) PROVE OneCommand
    BY DEF InputOK, OneCommand
  <2>0. SubSeq(<<">">>, 2, Len(<<">">>)) = <<>>
    OBVIOUS
  <2>1. ASSUME ~HasAny(one, {"CR", "LF", "<", ">"})
        PROVE  /\ ReadAs(format_mail_from(one), "MAIL-FROM:", <<>>)
               /\ ReadAs(format_rcpt_to(one), "RCPT-TO:", <<>>)
               /\ ReadAs(format_mail_from_smtputf8(one), "MAIL-FROM:", <<"SP", "SMTPUTF8">>)
    <3> DEFINE gt == <<">">>
               utf8 == <<">", "SP", "SMTPUTF8">>
    <3>1. gt \in Seq({">", "SP", "SMTPUTF8"}) /\ gt # <<>> /\ gt[1] = ">"
      OBVIOUS
    <3>2. utf8 \in Seq({">", "SP", "SMTPUTF8"}) /\ utf8 # <<>> /\ utf8[1] = ">"
      OBVIOUS
    <3>3. SubSeq(utf8, 2, Len(utf8)) = <<"SP", "SMTPUTF8">>
      <4> DEFINE z == SubSeq(utf8, 2, 3)
                 C == {">", "SP", "SMTPUTF8"}
      <4>1. Len(utf8) = 3 /\ utf8[2] = "SP" /\ utf8[3] = "SMTPUTF8"
        OBVIOUS
      <4> HIDE DEF utf8
      <4>2. z \in Seq(C) /\ Len(z) = 2 /\ \A i \in 1 .. 2 : z[i] = utf8[2 + i - 1]
        BY <3>2, <4>1, SubSeqIs
      <4>3. z[1] = "SP" /\ z[2] = "SMTPUTF8"
        BY <4>1, <4>2
      <4> HIDE DEF z, C
      <4>4. z = <<"SP", "SMTPUTF8">>
        BY <4>2, <4>3
      <4> QED
        BY <4>1, <4>4 DEF z
    <3>4. /\ format_mail_from(one) = <<"MAIL-FROM:", "<">> \o one \o gt \o CRLF
          /\ format_rcpt_to(one) = <<"RCPT-TO:", "<">> \o one \o gt \o CRLF
          /\ format_mail_from_smtputf8(one) = <<"MAIL-FROM:", "<">> \o one \o utf8 \o CRLF
      BY Zenon DEF format_mail_from, format_rcpt_to, format_mail_from_smtputf8
    <3>5. SubSeq(gt, 2, Len(gt)) = <<>>
      BY <2>0
    <3> HIDE DEF gt, utf8
    <3>6. ReadAs(<<"MAIL-FROM:", "<">> \o one \o gt \o CRLF, "MAIL-FROM:", SubSeq(gt, 2, Len(gt)))
      BY <2>1, <3>1, ReadsBack
    <3>7. ReadAs(<<"RCPT-TO:", "<">> \o one \o gt \o CRLF, "RCPT-TO:", SubSeq(gt, 2, Len(gt)))
      BY <2>1, <3>1, ReadsBack
    <3>8. ReadAs(<<"MAIL-FROM:", "<">> \o one \o utf8 \o CRLF, "MAIL-FROM:",
                 SubSeq(utf8, 2, Len(utf8)))
      BY <2>1, <3>2, ReadsBack
    <3> QED
      BY <3>3, <3>4, <3>5, <3>6, <3>7, <3>8
  <2>2. validate_address(one) => ~HasAny(one, {"CR", "LF", "<", ">"})
    BY DEF validate_address, HasAny
  <2>3. validate_address_utf8(one) => ~HasAny(one, {"CR", "LF", "<", ">"})
    BY DEF validate_address_utf8, HasAny
  <2>4. ASSUME validate_ehlo_domain(one)
        PROVE  CommandsIn(format_command_arg("EHLO", one)) = {<<"EHLO", "SP">> \o one}
    <3> DEFINE cmd == <<"EHLO", "SP">> \o one
               C == AddressChars \union {"EHLO"}
    <3>1. ~HasAny(one, {"CR", "LF"})
      BY <2>4 DEF validate_ehlo_domain, HasAny
    <3>2. \A i \in 1 .. Len(one) : one[i] \notin {"CR", "LF"}
      BY <3>1, NoneOf
    <3>3. <<"EHLO", "SP">> \in Seq(C) /\ one \in Seq(C)
      BY DEF AddressChars
    <3>4. cmd \in Seq(C) /\ cmd # <<>> /\ \A i \in 1 .. Len(cmd) : cmd[i] \notin {"CR", "LF"}
      <4> HIDE DEF C
      <4> QED
        BY <3>2, <3>3
    <3> HIDE DEF cmd, C
    <3>5. CommandsIn(cmd \o CRLF) = {cmd}
      BY <3>4, OneLine
    <3> QED
      BY <3>5 DEF cmd, format_command_arg
  <2> QED
    BY <2>1, <2>2, <2>3, <2>4 DEF OneCommand
<1> QED
  BY <1>1, InputType, PTL

---------------------------------------------------------------------------
(* The fields of a message.  Ascending numbers: p[j] has j of them below.  *)
Rises(k, p) == /\ k \in Nat /\ p \in [0 .. k -> Nat]
               /\ \A i, j \in 0 .. k : i < j => p[i] < p[j]

Lower(p, j) == {p[i] : i \in 0 .. j - 1}

LEMMA Ranks ==
    ASSUME NEW k, NEW p, Rises(k, p)
    PROVE  \A j \in 0 .. k + 1 : IsFiniteSet(Lower(p, j)) /\ Cardinality(Lower(p, j)) = j
<1> DEFINE T == {j \in Nat : j <= k + 1 => IsFiniteSet(Lower(p, j)) /\ Cardinality(Lower(p, j)) = j}
<1>0. k \in Nat /\ p \in [0 .. k -> Nat]
  BY DEF Rises
<1>1. 0 \in T
  <2>1. Lower(p, 0) = {}
    BY DEF Lower
  <2> QED
    BY <2>1, FS_EmptySet
<1>2. ASSUME NEW j \in T PROVE j + 1 \in T
  <2> SUFFICES ASSUME j + 1 <= k + 1
               PROVE  IsFiniteSet(Lower(p, j + 1)) /\ Cardinality(Lower(p, j + 1)) = j + 1
    OBVIOUS
  <2>1. j \in Nat /\ j <= k + 1 /\ j \in 0 .. k /\ IsFiniteSet(Lower(p, j)) /\ Cardinality(Lower(p, j)) = j
    BY <1>0
  <2>2. 0 .. (j + 1) - 1 = (0 .. j - 1) \union {j}
    BY <2>1
  <2>3. Lower(p, j + 1) = Lower(p, j) \union {p[j]}
    BY <2>2 DEF Lower
  <2>4. p[j] \notin Lower(p, j)
    <3>1. \A i \in 0 .. j - 1 : i \in 0 .. k /\ i < j /\ p[i] \in Nat
      BY <1>0, <2>1
    <3>2. \A i \in 0 .. j - 1 : p[i] # p[j]
      BY <1>0, <2>1, <3>1 DEF Rises
    <3> QED
      BY <3>2 DEF Lower
  <2> QED
    BY <2>1, <2>3, <2>4, FS_AddElement
<1> HIDE DEF T
<1>3. Nat \subseteq T
  BY <1>1, <1>2, SetInduction
<1>4. ASSUME NEW j \in 0 .. k + 1
      PROVE  IsFiniteSet(Lower(p, j)) /\ Cardinality(Lower(p, j)) = j
  <2>1. j \in T /\ j <= k + 1
    BY <1>0, <1>3
  <2> QED
    BY <2>1 DEF T
<1> QED
  BY <1>4

(* The fields are what lies between neighbours.                            *)
LEMMA FieldsAre ==
    ASSUME NEW msg, NEW sep, NEW k, NEW p, Rises(k, p),
           Separators(msg, sep) = Lower(p, k + 1)
    PROVE  /\ Fields(msg, sep) = [n \in 1 .. k |-> Fields(msg, sep)[n]]
           /\ \A n \in 1 .. k : Fields(msg, sep)[n] = SubSeq(msg, p[n - 1] + 1, p[n] - 1)
<1> DEFINE seps == Separators(msg, sep)
           nth(n) == CHOOSE s \in seps : Cardinality({t \in seps : t < s}) = n
<1>0. k \in Nat /\ p \in [0 .. k -> Nat]
  BY DEF Rises
<1>1. Fields(msg, sep)
        = [n \in 1 .. Cardinality(seps) - 1 |-> SubSeq(msg, nth(n - 1) + 1, nth(n) - 1)]
  BY DEF Fields
<1>2. seps = {p[j] : j \in 0 .. k}
  <2>1. (k + 1) - 1 = k
    BY <1>0
  <2> QED
    BY <2>1 DEF Lower
<1> HIDE DEF seps
<1>3. Cardinality(seps) = k + 1
  <2>1. k + 1 \in 0 .. k + 1
    BY <1>0
  <2> QED
    BY <2>1, Ranks DEF seps
<1>4. ASSUME NEW j \in 0 .. k PROVE Cardinality({t \in seps : t < p[j]}) = j
  <2>1. \A i \in 0 .. k : p[i] < p[j] <=> i \in 0 .. j - 1
    <3>1. ASSUME NEW i \in 0 .. k PROVE p[i] < p[j] <=> i < j
      <4>1. /\ p[i] \in Nat /\ p[j] \in Nat
            /\ i < j => p[i] < p[j]
            /\ j < i => p[j] < p[i]
        BY <1>0 DEF Rises
      <4> QED
        BY <1>0, <4>1
    <3> QED
      BY <1>0, <3>1
  <2>2. {t \in seps : t < p[j]} = Lower(p, j)
    <3>1. \A i \in 0 .. j - 1 : i \in 0 .. k
      BY <1>0
    <3> QED
      BY <1>0, <1>2, <2>1, <3>1 DEF Lower
  <2>3. j \in 0 .. k + 1
    BY <1>0
  <2>4. Cardinality(Lower(p, j)) = j
    BY <2>3, Ranks
  <2> QED
    BY <2>2, <2>4
<1>5. ASSUME NEW n \in 0 .. k PROVE nth(n) = p[n]
  <2>1. p[n] \in seps /\ Cardinality({t \in seps : t < p[n]}) = n
    BY <1>2, <1>4
  <2>2. \A s \in seps : Cardinality({t \in seps : t < s}) = n => s = p[n]
    BY <1>2, <1>4
  <2> QED
    BY <2>1, <2>2
<1> HIDE DEF nth
<1>6. (k + 1) - 1 = k /\ \A n \in 1 .. k : n \in 0 .. k /\ n - 1 \in 0 .. k
  BY <1>0
<1> QED
  BY <1>1, <1>3, <1>5, <1>6

(* A part that reads as u does.                                            *)
LEMMA PartIs ==
    ASSUME NEW C, NEW msg \in Seq(C), NEW u \in Seq(C), NEW a \in Nat, a + Len(u) <= Len(msg),
           \A i \in 1 .. Len(u) : msg[a + i] = u[i]
    PROVE  SubSeq(msg, a + 1, a + Len(u)) = u
<1> DEFINE n == Len(u)
           z == SubSeq(msg, a + 1, a + n)
<1>1. n \in Nat /\ a + 1 \in 1 .. Len(msg) + 1 /\ a + n \in (a + 1) - 1 .. Len(msg)
  OBVIOUS
<1>2. z \in Seq(C) /\ Len(z) = (a + n) - (a + 1) + 1
  BY <1>1, SubSeqIs
<1>3. \A i \in 1 .. (a + n) - (a + 1) + 1 : z[i] = msg[(a + 1) + i - 1]
  BY <1>1, SubSeqIs
<1>4. (a + n) - (a + 1) + 1 = n /\ \A i \in 1 .. n : (a + 1) + i - 1 = a + i
  BY <1>1
<1> HIDE DEF z
<1>5. Len(z) = Len(u) /\ \A i \in 1 .. Len(z) : z[i] = u[i]
  BY <1>2, <1>3, <1>4
<1>6. z = u
  BY <1>2, <1>5, SeqEqual
<1> QED
  BY <1>6 DEF z

(* PLAIN.                                                                  *)
LEMMA PlainFields ==
    ASSUME NEW C, NEW u \in Seq(C), NEW w \in Seq(C), "NUL" \in C,
           ~HasAny(u, {"NUL"}), ~HasAny(w, {"NUL"})
    PROVE  Fields(build_auth_plain_initial_response(u, w), "NUL") = <<<<>>, u, w>>
<1> DEFINE n == Len(u)
           m == Len(w)
           msg == <<"NUL">> \o u \o <<"NUL">> \o w
           p == [j \in 0 .. 3 |-> IF j = 0 THEN 0 ELSE IF j = 1 THEN 1
                                  ELSE IF j = 2 THEN n + 2 ELSE n + m + 3]
<1>1. n \in Nat /\ m \in Nat
  OBVIOUS
<1>2. /\ \A i \in 1 .. n : u[i] # "NUL"
      /\ \A i \in 1 .. m : w[i] # "NUL"
  BY NoneOf
<1>3. <<"NUL">> \in Seq(C) /\ Len(<<"NUL">>) = 1 /\ <<"NUL">>[1] = "NUL"
  OBVIOUS
<1>4. msg \in Seq(C) /\ Len(msg) = n + m + 2
  BY <1>1, <1>3
<1>5. /\ msg[1] = "NUL" /\ msg[n + 2] = "NUL"
      /\ \A i \in 1 .. n : msg[1 + i] = u[i]
      /\ \A i \in 1 .. m : msg[n + 2 + i] = w[i]
  BY <1>1, <1>3
<1> HIDE DEF msg
<1>6. Rises(3, p)
  BY <1>1 DEF Rises
<1>7. Separators(msg, "NUL") = Lower(p, 3 + 1)
  <2>1. Lower(p, 3 + 1) = {0, 1, n + 2, n + m + 3}
    <3>1. 0 .. (3 + 1) - 1 = {0, 1, 2, 3}
      OBVIOUS
    <3>2. p[0] = 0 /\ p[1] = 1 /\ p[2] = n + 2 /\ p[3] = n + m + 3
      BY <1>1
    <3> HIDE DEF p
    <3> QED
      BY <3>1, <3>2 DEF Lower
  <2>2. DOMAIN msg = 1 .. n + m + 2
    BY <1>4
  <2>3. ASSUME NEW i \in 1 .. n + m + 2, msg[i] = "NUL" PROVE i \in {1, n + 2}
    <3>1. i \notin 2 .. n + 1
      <4> SUFFICES ASSUME i \in 2 .. n + 1 PROVE FALSE
        OBVIOUS
      <4>1. i - 1 \in 1 .. n /\ 1 + (i - 1) = i
        BY <1>1
      <4>2. msg[1 + (i - 1)] = u[i - 1] /\ u[i - 1] # "NUL"
        BY <1>2, <1>5, <4>1, Zenon
      <4> QED
        BY <2>3, <4>1, <4>2, Zenon
    <3>2. i \notin n + 3 .. n + m + 2
      <4> SUFFICES ASSUME i \in n + 3 .. n + m + 2 PROVE FALSE
        OBVIOUS
      <4>1. i - n - 2 \in 1 .. m /\ n + 2 + (i - n - 2) = i
        BY <1>1
      <4>2. msg[n + 2 + (i - n - 2)] = w[i - n - 2] /\ w[i - n - 2] # "NUL"
        BY <1>2, <1>5, <4>1, Zenon
      <4> QED
        BY <2>3, <4>1, <4>2, Zenon
    <3> QED
      BY <1>1, <3>1, <3>2
  <2>4. {i \in DOMAIN msg : msg[i] = "NUL"} = {1, n + 2}
    BY <1>1, <1>5, <2>2, <2>3
  <2>5. Len(msg) + 1 = n + m + 3
    BY <1>1, <1>4
  <2> QED
    BY <2>1, <2>4, <2>5 DEF Separators
<1> DEFINE f == Fields(msg, "NUL")
<1>8. /\ f = [j \in 1 .. 3 |-> f[j]]
      /\ \A j \in 1 .. 3 : f[j] = SubSeq(msg, p[j - 1] + 1, p[j] - 1)
  <2> HIDE DEF p, f
  <2>1. PICK k : k = 3
    OBVIOUS
  <2>2. Rises(k, p) /\ Separators(msg, "NUL") = Lower(p, k + 1)
    BY <1>6, <1>7, <2>1
  <2>3. f = [j \in 1 .. k |-> f[j]]
    BY <2>2, FieldsAre DEF f
  <2>4. \A j \in 1 .. k : f[j] = SubSeq(msg, p[j - 1] + 1, p[j] - 1)
    BY <2>2, FieldsAre DEF f
  <2> QED
    BY <2>1, <2>3, <2>4
<1> HIDE DEF f
<1>9. f[1] = <<>>
  <2>1. p[1 - 1] + 1 = 1 /\ p[1] - 1 = 0
    OBVIOUS
  <2>2. SubSeq(msg, 1, 0) = <<>>
    BY SubSeqEmpty
  <2>3. 1 \in 1 .. 3
    OBVIOUS
  <2> HIDE DEF p
  <2> QED
    BY <1>8, <2>1, <2>2, <2>3
<1>10. f[2] = u
  <2>1. p[2 - 1] + 1 = 1 + 1 /\ p[2] - 1 = 1 + Len(u)
    BY <1>1
  <2>2. SubSeq(msg, 1 + 1, 1 + Len(u)) = u
    BY <1>1, <1>4, <1>5, PartIs
  <2>3. 2 \in 1 .. 3
    OBVIOUS
  <2> HIDE DEF p
  <2> QED
    BY <1>8, <2>1, <2>2, <2>3
<1>11. f[3] = w
  <2>1. p[3 - 1] + 1 = (n + 2) + 1 /\ p[3] - 1 = (n + 2) + Len(w)
    BY <1>1
  <2>2. SubSeq(msg, (n + 2) + 1, (n + 2) + Len(w)) = w
    BY <1>1, <1>4, <1>5, PartIs
  <2>3. 3 \in 1 .. 3
    OBVIOUS
  <2> HIDE DEF p
  <2> QED
    BY <1>8, <2>1, <2>2, <2>3
<1>12. f = <<f[1], f[2], f[3]>>
  BY <1>8
<1> QED
  BY <1>9, <1>10, <1>11, <1>12 DEF build_auth_plain_initial_response, msg, f

(* XOAUTH2.                                                                *)
LEMMA OauthFields ==
    ASSUME NEW u \in Seq(SaslChars), NEW w \in Seq(SaslChars),
           ~HasAny(u, {"SOH"}), ~HasAny(w, {"SOH"})
    PROVE  Fields(build_xoauth2_initial_response(u, w), "SOH")
             = <<<<"user=">> \o u, <<"auth=Bearer">> \o w, <<>>, <<>>>>
<1> DEFINE n == Len(u)
           m == Len(w)
           A == <<"user=">>
           B == <<"SOH", "auth=Bearer">>
           D == <<"SOH", "SOH">>
           G == <<"auth=Bearer">>
           msg == A \o u \o B \o w \o D
           C == SaslChars \union {"user=", "auth=Bearer"}
           p == [j \in 0 .. 4 |-> IF j = 0 THEN 0 ELSE IF j = 1 THEN n + 2
                                  ELSE IF j = 2 THEN n + m + 4
                                  ELSE IF j = 3 THEN n + m + 5 ELSE n + m + 6]
<1>1. n \in Nat /\ m \in Nat
  OBVIOUS
<1>2. /\ \A i \in 1 .. n : u[i] # "SOH"
      /\ \A i \in 1 .. m : w[i] # "SOH"
  BY NoneOf
<1>3. /\ A \in Seq(C) /\ Len(A) = 1 /\ A[1] = "user="
      /\ B \in Seq(C) /\ Len(B) = 2 /\ B[1] = "SOH" /\ B[2] = "auth=Bearer"
      /\ D \in Seq(C) /\ Len(D) = 2 /\ D[1] = "SOH" /\ D[2] = "SOH"
      /\ G \in Seq(C) /\ Len(G) = 1 /\ G[1] = "auth=Bearer"
  <2>1. "SOH" \in C
    BY DEF SaslChars
  <2> QED
    BY <2>1
<1>u. u \in Seq(C) /\ w \in Seq(C)
  OBVIOUS
<1> HIDE DEF A, B, D, G, C
<1> DEFINE x == A \o u
           y == x \o B
           z == y \o w
<1>x. /\ x \in Seq(C) /\ Len(x) = n + 1 /\ x[1] = "user="
      /\ \A i \in 1 .. n : x[1 + i] = u[i]
  <2>1. 1 \in 1 .. Len(A) /\ 1 + n = n + 1
    BY <1>1, <1>3
  <2>2. A \in Seq(C) /\ u \in Seq(C)
    BY <1>3, <1>u
  <2>3. /\ x \in Seq(C) /\ Len(x) = Len(A) + Len(u)
        /\ \A i \in 1 .. Len(A) : x[i] = A[i]
        /\ \A i \in 1 .. Len(u) : x[Len(A) + i] = u[i]
    BY <2>2, ConcatIs
  <2> HIDE DEF x
  <2> QED
    BY <1>3, <2>1, <2>3
<1> HIDE DEF x
<1>y. /\ y \in Seq(C) /\ Len(y) = n + 3
      /\ y[n + 2] = "SOH" /\ y[n + 3] = "auth=Bearer"
      /\ \A i \in 1 .. n + 1 : y[i] = x[i]
  <2>1. 1 \in 1 .. Len(B) /\ 2 \in 1 .. Len(B)
    BY <1>3
  <2>2. x \in Seq(C) /\ B \in Seq(C)
    BY <1>3, <1>x
  <2>3. /\ y \in Seq(C) /\ Len(y) = Len(x) + Len(B)
        /\ \A i \in 1 .. Len(x) : y[i] = x[i]
        /\ \A i \in 1 .. Len(B) : y[Len(x) + i] = B[i]
    BY <2>2, ConcatIs
  <2>4. y[Len(x) + 1] = B[1] /\ y[Len(x) + 2] = B[2]
    BY <2>1, <2>3
  <2>5. (n + 1) + 1 = n + 2 /\ (n + 1) + 2 = n + 3
    BY <1>1
  <2> HIDE DEF y
  <2> QED
    BY <1>3, <1>x, <2>2, <2>3, <2>4, <2>5
<1> HIDE DEF y
<1>z. /\ z \in Seq(C) /\ Len(z) = n + m + 3
      /\ \A i \in 1 .. m : z[n + 3 + i] = w[i]
      /\ \A i \in 1 .. n + 3 : z[i] = y[i]
  <2>1. (n + 3) + m = n + m + 3
    BY <1>1
  <2>0. y \in Seq(C) /\ w \in Seq(C)
    BY <1>u, <1>y
  <2>2. Len(z) = Len(y) + Len(w)
    BY <2>0, ConcatIs, Zenon
  <2>3. z \in Seq(C) /\ (\A i \in 1 .. Len(y) : z[i] = y[i])
        /\ \A i \in 1 .. Len(w) : z[Len(y) + i] = w[i]
    BY <2>0, ConcatIs
  <2> HIDE DEF z
  <2> QED
    BY <1>y, <2>1, <2>2, <2>3
<1> HIDE DEF z
<1>m. msg = z \o D
  BY DEF x, y, z
<1> HIDE DEF msg
<1>4. /\ msg \in Seq(C) /\ Len(msg) = n + m + 5
      /\ msg[n + m + 4] = "SOH" /\ msg[n + m + 5] = "SOH"
      /\ \A i \in 1 .. n + m + 3 : msg[i] = z[i]
  <2>1. 1 \in 1 .. Len(D) /\ 2 \in 1 .. Len(D)
    BY <1>3
  <2>2. z \in Seq(C) /\ D \in Seq(C)
    BY <1>3, <1>z
  <2>3. /\ msg \in Seq(C) /\ Len(msg) = Len(z) + Len(D)
        /\ \A i \in 1 .. Len(z) : msg[i] = z[i]
        /\ \A i \in 1 .. Len(D) : msg[Len(z) + i] = D[i]
    BY <1>m, <2>2, ConcatIs
  <2>4. msg[Len(z) + 1] = D[1] /\ msg[Len(z) + 2] = D[2]
    BY <2>1, <2>3
  <2>5. /\ (n + m + 3) + 1 = n + m + 4 /\ (n + m + 3) + 2 = n + m + 5
    BY <1>1
  <2> QED
    BY <1>3, <1>z, <2>2, <2>3, <2>4, <2>5
<1>v. \A i \in 1 .. n + 1 : msg[i] = x[i]
  <2>1. \A i \in 1 .. n + 1 : i \in 1 .. n + 3 /\ i \in 1 .. n + m + 3
    BY <1>1
  <2> QED
    BY <1>y, <1>z, <1>4, <2>1
<1>5. /\ msg[1] = "user=" /\ msg[n + 2] = "SOH" /\ msg[n + 3] = "auth=Bearer"
      /\ msg[n + m + 4] = "SOH" /\ msg[n + m + 5] = "SOH"
      /\ \A i \in 1 .. n : msg[1 + i] = u[i]
      /\ \A i \in 1 .. m : msg[n + 3 + i] = w[i]
  <2>1. /\ 1 \in 1 .. n + 1 /\ \A i \in 1 .. n : 1 + i \in 1 .. n + 1
        /\ \A i \in 1 .. m : n + 3 + i \in 1 .. n + m + 3
        /\ {n + 2, n + 3} \subseteq 1 .. n + 3 /\ {n + 2, n + 3} \subseteq 1 .. n + m + 3
    BY <1>1
  <2> QED
    BY <1>x, <1>y, <1>z, <1>4, <1>v, <2>1
<1>6. Rises(4, p)
  BY <1>1 DEF Rises
<1>7. Separators(msg, "SOH") = Lower(p, 4 + 1)
  <2>1. Lower(p, 4 + 1) = {0, n + 2, n + m + 4, n + m + 5, n + m + 6}
    <3>1. 0 .. (4 + 1) - 1 = {0, 1, 2, 3, 4}
      OBVIOUS
    <3>2. /\ p[0] = 0 /\ p[1] = n + 2 /\ p[2] = n + m + 4 /\ p[3] = n + m + 5
          /\ p[4] = n + m + 6
      BY <1>1
    <3> HIDE DEF p
    <3> QED
      BY <3>1, <3>2 DEF Lower
  <2>2. DOMAIN msg = 1 .. n + m + 5
    BY <1>4
  <2>3. ASSUME NEW i \in 1 .. n + m + 5, msg[i] = "SOH" PROVE i \in {n + 2, n + m + 4, n + m + 5}
    <3>1. i \notin 2 .. n + 1
      <4> SUFFICES ASSUME i \in 2 .. n + 1 PROVE FALSE
        OBVIOUS
      <4>1. i - 1 \in 1 .. n /\ 1 + (i - 1) = i
        BY <1>1
      <4>2. msg[1 + (i - 1)] = u[i - 1] /\ u[i - 1] # "SOH"
        BY <1>2, <1>5, <4>1, Zenon
      <4> QED
        BY <2>3, <4>1, <4>2, Zenon
    <3>2. i \notin n + 4 .. n + m + 3
      <4> SUFFICES ASSUME i \in n + 4 .. n + m + 3 PROVE FALSE
        OBVIOUS
      <4>1. i - n - 3 \in 1 .. m /\ n + 3 + (i - n - 3) = i
        BY <1>1
      <4>2. msg[n + 3 + (i - n - 3)] = w[i - n - 3] /\ w[i - n - 3] # "SOH"
        BY <1>2, <1>5, <4>1, Zenon
      <4> QED
        BY <2>3, <4>1, <4>2, Zenon
    <3>3. i # 1 /\ i # n + 3
      BY <1>5, <2>3
    <3> QED
      BY <1>1, <3>1, <3>2, <3>3
  <2>4. {i \in DOMAIN msg : msg[i] = "SOH"} = {n + 2, n + m + 4, n + m + 5}
    BY <1>1, <1>5, <2>2, <2>3
  <2>5. Len(msg) + 1 = n + m + 6
    BY <1>1, <1>4
  <2> QED
    BY <2>1, <2>4, <2>5 DEF Separators
<1> DEFINE f == Fields(msg, "SOH")
<1>8. /\ f = [j \in 1 .. 4 |-> f[j]]
      /\ \A j \in 1 .. 4 : f[j] = SubSeq(msg, p[j - 1] + 1, p[j] - 1)
  <2> HIDE DEF p, f
  <2>1. PICK k : k = 4
    OBVIOUS
  <2>2. Rises(k, p) /\ Separators(msg, "SOH") = Lower(p, k + 1)
    BY <1>6, <1>7, <2>1
  <2>3. f = [j \in 1 .. k |-> f[j]]
    BY <2>2, FieldsAre DEF f
  <2>4. \A j \in 1 .. k : f[j] = SubSeq(msg, p[j - 1] + 1, p[j] - 1)
    BY <2>2, FieldsAre DEF f
  <2> QED
    BY <2>1, <2>3, <2>4
<1> HIDE DEF f
<1>9. f[1] = x
  <2>1. p[1 - 1] + 1 = 0 + 1 /\ p[1] - 1 = 0 + (n + 1)
    BY <1>1
  <2>2. \A i \in 1 .. n + 1 : 0 + i = i
    BY <1>1
  <2>3. SubSeq(msg, 0 + 1, 0 + Len(x)) = x
    BY <1>1, <1>4, <1>x, <1>v, <2>2, PartIs
  <2>4. 1 \in 1 .. 4
    OBVIOUS
  <2> HIDE DEF p
  <2> QED
    BY <1>8, <1>x, <2>1, <2>3, <2>4
<1> DEFINE v == G \o w
<1>10. f[2] = v
  <2>1. p[2 - 1] + 1 = (n + 2) + 1 /\ p[2] - 1 = (n + 2) + (m + 1)
    BY <1>1
  <2>2. /\ v \in Seq(C) /\ Len(v) = m + 1
        /\ v[1] = "auth=Bearer" /\ \A i \in 1 .. m : v[1 + i] = w[i]
    <3>1. 1 \in 1 .. Len(G) /\ 1 + m = m + 1
      BY <1>1, <1>3
    <3>2. G \in Seq(C) /\ w \in Seq(C)
      BY <1>3, <1>u
    <3>3. /\ v \in Seq(C) /\ Len(v) = Len(G) + Len(w)
          /\ \A i \in 1 .. Len(G) : v[i] = G[i]
          /\ \A i \in 1 .. Len(w) : v[Len(G) + i] = w[i]
      BY <3>2, ConcatIs
    <3> HIDE DEF v
    <3> QED
      BY <1>3, <3>1, <3>3
  <2> HIDE DEF v
  <2>3. ASSUME NEW i \in 1 .. Len(v) PROVE msg[(n + 2) + i] = v[i]
    <3>1. CASE i = 1
      <4>1. (n + 2) + 1 = n + 3
        BY <1>1
      <4> QED
        BY <1>5, <2>2, <3>1, <4>1
    <3>2. CASE i # 1
      <4>1. i - 1 \in 1 .. m /\ 1 + (i - 1) = i /\ n + 3 + (i - 1) = (n + 2) + i
        BY <1>1, <2>2, <3>2
      <4>2. msg[n + 3 + (i - 1)] = w[i - 1] /\ v[1 + (i - 1)] = w[i - 1]
        BY <1>5, <2>2, <4>1, Zenon
      <4> QED
        BY <4>1, <4>2, Zenon
    <3> QED
      BY <3>1, <3>2
  <2>4. (n + 2) \in Nat /\ (n + 2) + Len(v) <= Len(msg)
    BY <1>1, <1>4, <2>2
  <2>5. SubSeq(msg, (n + 2) + 1, (n + 2) + Len(v)) = v
    BY <1>4, <2>2, <2>3, <2>4, PartIs
  <2>6. 2 \in 1 .. 4
    OBVIOUS
  <2> HIDE DEF p
  <2> QED
    BY <1>8, <2>1, <2>2, <2>5, <2>6
<1>11. f[3] = <<>> /\ f[4] = <<>>
  <2>1. /\ p[3 - 1] + 1 = n + m + 5 /\ p[3] - 1 = n + m + 4
        /\ p[4 - 1] + 1 = n + m + 6 /\ p[4] - 1 = n + m + 5
    BY <1>1
  <2>2. SubSeq(msg, n + m + 5, n + m + 4) = <<>> /\ SubSeq(msg, n + m + 6, n + m + 5) = <<>>
    BY <1>1, SubSeqEmpty
  <2>3. 3 \in 1 .. 4 /\ 4 \in 1 .. 4
    OBVIOUS
  <2> HIDE DEF p
  <2> QED
    BY <1>8, <2>1, <2>2, <2>3
<1>12. f = <<f[1], f[2], f[3], f[4]>>
  BY <1>8
<1> HIDE DEF v
<1>13. f = <<x, v, <<>>, <<>>>>
  BY <1>9, <1>10, <1>11, <1>12
<1>14. f = <<<<"user=">> \o u, <<"auth=Bearer">> \o w, <<>>, <<>>>>
  BY <1>13 DEF x, v, A, G
<1> QED
  BY <1>14 DEF build_xoauth2_initial_response, msg, f, A, B, D

(* What the client sends for PLAIN and XOAUTH2 is taken apart into the     *)
(* name and the secret the caller gave (build_auth_plain_initial_response, *)
(* build_xoauth2_initial_response and the validators of login_with).       *)
THEOREM CredentialsArrive == InputSpec => []CredentialsSurvive
<1>1. InputOK => CredentialsSurvive
  <2> SUFFICES ASSUME kind = "login", one \in Seq(SaslChars), two \in Seq(SaslChars)
               PROVE  CredentialsSurvive
    BY DEF InputOK, CredentialsSurvive
  <2>1. ASSUME Accepts("PLAIN", one, two)
        PROVE  Fields(build_auth_plain_initial_response(one, two), "NUL") = <<<<>>, one, two>>
    <3>1. ~HasAny(one, {"NUL"}) /\ ~HasAny(two, {"NUL"})
      BY <2>1 DEF Accepts, validate_plain_username, validate_plain_password
    <3>2. "NUL" \in SaslChars
      BY DEF SaslChars
    <3> QED
      BY <3>1, <3>2, PlainFields
  <2>2. ASSUME Accepts("XOAUTH2", one, two)
        PROVE  Fields(build_xoauth2_initial_response(one, two), "SOH")
                 = <<<<"user=">> \o one, <<"auth=Bearer">> \o two, <<>>, <<>>>>
    <3>1. validate_xoauth2_user(one) /\ validate_oauth2_token(two)
      BY <2>2 DEF Accepts
    <3>2. ~HasAny(one, {"SOH"}) /\ ~HasAny(two, {"SOH"})
      BY <3>1 DEF validate_xoauth2_user, validate_oauth2_token, HasAny
    <3> QED
      BY <3>2, OauthFields
  <2> QED
    BY <2>1, <2>2 DEF CredentialsSurvive
<1> QED
  BY <1>1, InputType, PTL

---------------------------------------------------------------------------
(* Base64: 24 bits are four groups of 6 and three of 8.                    *)
Fits24(n) == n \in Nat /\ n < 16777216
SixBits(a, b, c, d) == /\ a \in Nat /\ b \in Nat /\ c \in Nat /\ d \in Nat
                       /\ a < 64 /\ b < 64 /\ c < 64 /\ d < 64
Sixes(a, b, c, d) == 262144 * a + 4096 * b + 64 * c + d

LEMMA SixesJoined ==
    ASSUME NEW a, NEW b, NEW c, NEW d, NEW n,
           SixBits(a, b, c, d), n = Sixes(a, b, c, d)
    PROVE  /\ Fits24(n)
           /\ push_b64(n, 0) = a /\ push_b64(n, 1) = b /\ push_b64(n, 2) = c /\ push_b64(n, 3) = d
<1>0. /\ a \in Nat /\ b \in Nat /\ c \in Nat /\ d \in Nat
      /\ a < 64 /\ b < 64 /\ c < 64 /\ d < 64
      /\ n = 262144 * a + 4096 * b + 64 * c + d
  BY SMT DEF SixBits, Sixes
<1>1. n \in Nat /\ n < 16777216
  BY <1>0, SMT
<1>2. /\ (n \div 262144) % 64 = a /\ (n \div 4096) % 64 = b
      /\ (n \div 64) % 64 = c /\ n % 64 = d
  BY <1>0, <1>1, SMT
<1>3. /\ push_b64(n, 0) = (n \div 262144) % 64 /\ push_b64(n, 1) = (n \div 4096) % 64
      /\ push_b64(n, 2) = (n \div 64) % 64 /\ push_b64(n, 3) = n % 64
  BY <1>1, SMT DEF push_b64
<1> QED
  BY <1>1, <1>2, <1>3, SMT DEF Fits24

LEMMA FourSixes ==
    ASSUME NEW n \in Nat, n < 16777216
    PROVE  /\ n = 262144 * push_b64(n, 0) + 4096 * push_b64(n, 1) + 64 * push_b64(n, 2)
                     + push_b64(n, 3)
           /\ \A j \in 0 .. 3 : push_b64(n, j) \in Nat /\ push_b64(n, j) < 64
<1>1. /\ push_b64(n, 0) = (n \div 262144) % 64 /\ push_b64(n, 1) = (n \div 4096) % 64
      /\ push_b64(n, 2) = (n \div 64) % 64 /\ push_b64(n, 3) = n % 64
  BY SMT DEF push_b64
<1>2. n = 262144 * ((n \div 262144) % 64) + 4096 * ((n \div 4096) % 64)
             + 64 * ((n \div 64) % 64) + (n % 64)
  BY SMT
<1>3. \A m \in Nat : m % 64 \in Nat /\ m % 64 < 64
  BY SMT
<1>4. n \div 262144 \in Nat /\ n \div 4096 \in Nat /\ n \div 64 \in Nat
  BY SMT
<1>5. /\ push_b64(n, 0) \in Nat /\ push_b64(n, 0) < 64 /\ push_b64(n, 1) \in Nat /\ push_b64(n, 1) < 64
      /\ push_b64(n, 2) \in Nat /\ push_b64(n, 2) < 64 /\ push_b64(n, 3) \in Nat /\ push_b64(n, 3) < 64
  BY <1>1, <1>3, <1>4, SMT
<1>6. \A j \in 0 .. 3 : j = 0 \/ j = 1 \/ j = 2 \/ j = 3
  BY SMT
<1>7. \A j \in 0 .. 3 : push_b64(n, j) \in Nat /\ push_b64(n, j) < 64
  BY <1>5, <1>6, SMT
<1>8. n = 262144 * push_b64(n, 0) + 4096 * push_b64(n, 1) + 64 * push_b64(n, 2) + push_b64(n, 3)
  BY <1>1, <1>2, SMT
<1> QED
  BY <1>7, <1>8, SMT

(* The bytes of 24 bits.                                                   *)
Joined(a, b, c) == 65536 * a + 256 * b + c
Eight(n, m) == (n \div <<65536, 256, 1>>[1 + m]) % 256

LEMMA EightsJoined ==
    ASSUME NEW a \in Nat, NEW b \in Nat, NEW c \in Nat, a < 256, b < 256, c < 256,
           NEW n, n = Joined(a, b, c)
    PROVE  /\ n \in Nat /\ n < 16777216
           /\ Eight(n, 0) = a /\ Eight(n, 1) = b /\ Eight(n, 2) = c
           /\ c = 0 => push_b64(n, 3) = 0
           /\ b = 0 /\ c = 0 => push_b64(n, 2) = 0
<1>0. n = 65536 * a + 256 * b + c
  BY SMT DEF Joined
<1>1. n \in Nat /\ n < 16777216
  BY <1>0, SMT
<1>2. (n \div 65536) % 256 = a /\ (n \div 256) % 256 = b /\ n % 256 = c
  BY <1>0, <1>1, SMT
<1>3. Eight(n, 0) = (n \div 65536) % 256 /\ Eight(n, 1) = (n \div 256) % 256 /\ Eight(n, 2) = n % 256
  BY <1>1, SMT DEF Eight
<1>4. c = 0 => push_b64(n, 3) = 0
  BY <1>0, <1>1, SMT DEF push_b64
<1>5. b = 0 /\ c = 0 => push_b64(n, 2) = 0
  BY <1>0, <1>1, SMT DEF push_b64
<1> QED
  BY <1>1, <1>2, <1>3, <1>4, <1>5, SMT

LEMMA ThreeEights ==
    ASSUME NEW n \in Nat, n < 16777216
    PROVE  /\ n = 65536 * Eight(n, 0) + 256 * Eight(n, 1) + Eight(n, 2)
           /\ Eight(n, 0) \in Nat /\ Eight(n, 1) \in Nat /\ Eight(n, 2) \in Nat
<1>1. Eight(n, 0) = (n \div 65536) % 256 /\ Eight(n, 1) = (n \div 256) % 256 /\ Eight(n, 2) = n % 256
  BY SMT DEF Eight
<1>2. n = 65536 * ((n \div 65536) % 256) + 256 * ((n \div 256) % 256) + (n % 256)
  BY SMT
<1>3. (n \div 65536) % 256 \in Nat /\ (n \div 256) % 256 \in Nat /\ n % 256 \in Nat
  BY SMT
<1> QED
  BY <1>1, <1>2, <1>3, SMT

(* Position i is number j of chunk k, of length 4 or 3.                    *)
LEMMA Place4 ==
    ASSUME NEW i \in Nat, i > 0
    PROVE  /\ (i - 1) \div 4 \in Nat /\ (i - 1) % 4 \in 0 .. 3
           /\ i = 4 * ((i - 1) \div 4) + 1 + ((i - 1) % 4)
BY SMT

LEMMA Place3 ==
    ASSUME NEW i \in Nat, i > 0
    PROVE  /\ (i - 1) \div 3 \in Nat /\ (i - 1) % 3 \in 0 .. 2
           /\ i = 3 * ((i - 1) \div 3) + 1 + ((i - 1) % 3)
BY SMT

LEMMA InChunk4 ==
    ASSUME NEW k \in Nat, NEW j \in 0 .. 3
    PROVE  ((4 * k + 1 + j) - 1) \div 4 = k /\ ((4 * k + 1 + j) - 1) % 4 = j
BY SMT

LEMMA InChunk3 ==
    ASSUME NEW k \in Nat, NEW j \in 0 .. 2
    PROVE  ((3 * k + 1 + j) - 1) \div 3 = k /\ ((3 * k + 1 + j) - 1) % 3 = j
BY SMT

LEMMA ChunkCount ==
    ASSUME NEW n \in Nat
    PROVE  LET c == (n + 2) \div 3
           IN /\ c \in Nat /\ n <= 3 * c /\ 3 * c <= n + 2
              /\ (4 * c) % 4 = 0 /\ (4 * c) \div 4 = c
<1> DEFINE c == (n + 2) \div 3
<1>1. c \in Nat /\ n <= 3 * c /\ 3 * c <= n + 2
  BY SMT
<1> HIDE DEF c
<1>2. (4 * c) % 4 = 0 /\ (4 * c) \div 4 = c
  BY <1>1, SMT
<1> QED
  BY <1>1, <1>2 DEF c

(* The 24 bits of three bytes, of which the last may be missing.           *)
Three(x, k) == Joined(ByteAt(x, 3 * k + 1), ByteAt(x, 3 * k + 2), ByteAt(x, 3 * k + 3))

LEMMA EncodedIs ==
    ASSUME NEW x, Len(x) \in Nat,
           NEW k \in Nat, NEW j \in 0 .. 3, k < (Len(x) + 2) \div 3
    PROVE  /\ DOMAIN base64_encode(x) = 1 .. 4 * ((Len(x) + 2) \div 3)
           /\ base64_encode(x)[4 * k + 1 + j]
                = IF j > Len(x) - 3 * k THEN PAD ELSE push_b64(Three(x, k), j)
<1> DEFINE c == (Len(x) + 2) \div 3
           i == 4 * k + 1 + j
<1>1. c \in Nat
  BY ChunkCount
<1>2. i \in 1 .. 4 * c
  <2> HIDE DEF c
  <2>1. k < c
    BY DEF c
  <2> QED
    BY <1>1, <2>1, SMT
<1>3. (i - 1) \div 4 = k /\ (i - 1) % 4 = j
  BY InChunk4
<1> HIDE DEF c, i
<1>4. base64_encode(x) = [i_1 \in 1 .. 4 * c |->
        IF (i_1 - 1) % 4 > Len(x) - 3 * ((i_1 - 1) \div 4) THEN PAD
        ELSE push_b64(Three(x, (i_1 - 1) \div 4), (i_1 - 1) % 4)]
  BY SMT DEF base64_encode, Three, Joined, c
<1>5. base64_encode(x)[i] = IF (i - 1) % 4 > Len(x) - 3 * ((i - 1) \div 4) THEN PAD
        ELSE push_b64(Three(x, (i - 1) \div 4), (i - 1) % 4)
  BY <1>2, <1>4, Zenon
<1>6. base64_encode(x)[i] = IF j > Len(x) - 3 * k THEN PAD ELSE push_b64(Three(x, k), j)
  BY <1>3, <1>5, Zenon
<1>7. DOMAIN base64_encode(x) = 1 .. 4 * c
  BY <1>4, Zenon
<1> QED
  BY <1>6, <1>7 DEF c, i

IsBytes(x) == Len(x) \in Nat /\ DOMAIN x = 1 .. Len(x)
              /\ \A i \in 1 .. Len(x) : x[i] \in Nat /\ x[i] < 256

LEMMA ThreeIs ==
    ASSUME NEW x, IsBytes(x), NEW k \in Nat
    PROVE  /\ Three(x, k) \in Nat /\ Three(x, k) < 16777216
           /\ Eight(Three(x, k), 0) = ByteAt(x, 3 * k + 1)
           /\ Eight(Three(x, k), 1) = ByteAt(x, 3 * k + 2)
           /\ Eight(Three(x, k), 2) = ByteAt(x, 3 * k + 3)
           /\ ByteAt(x, 3 * k + 3) = 0 => push_b64(Three(x, k), 3) = 0
           /\ ByteAt(x, 3 * k + 2) = 0 /\ ByteAt(x, 3 * k + 3) = 0 => push_b64(Three(x, k), 2) = 0
<1> DEFINE a == ByteAt(x, 3 * k + 1)
           b == ByteAt(x, 3 * k + 2)
           c == ByteAt(x, 3 * k + 3)
           n == Three(x, k)
<1>1. \A i : ByteAt(x, i) \in Nat /\ ByteAt(x, i) < 256
  BY SMT DEF IsBytes, ByteAt
<1>2. a \in Nat /\ b \in Nat /\ c \in Nat /\ a < 256 /\ b < 256 /\ c < 256
  BY <1>1, SMT
<1>3. n = Joined(a, b, c)
  BY SMT DEF Three
<1> HIDE DEF a, b, c, n
<1>4. /\ n \in Nat /\ n < 16777216
      /\ Eight(n, 0) = a /\ Eight(n, 1) = b /\ Eight(n, 2) = c
      /\ c = 0 => push_b64(n, 3) = 0
      /\ b = 0 /\ c = 0 => push_b64(n, 2) = 0
  BY <1>2, <1>3, EightsJoined, SMT
<1> QED
  BY <1>4, SMT DEF a, b, c, n

(* The four characters of a chunk of an encoding.                          *)
LEMMA FourEncoded ==
    ASSUME NEW x, IsBytes(x), NEW k \in Nat, k < (Len(x) + 2) \div 3
    PROVE  LET e == base64_encode(x)
               n == Three(x, k)
               r == Len(x) - 3 * k
           IN /\ r \in Nat /\ r > 0
              /\ e[4 * k + 1] = push_b64(n, 0) /\ e[4 * k + 2] = push_b64(n, 1)
              /\ e[4 * k + 3] = IF r = 1 THEN PAD ELSE push_b64(n, 2)
              /\ e[4 * k + 4] = IF r = 1 \/ r = 2 THEN PAD ELSE push_b64(n, 3)
              /\ r = 1 => push_b64(n, 2) = 0
              /\ r = 1 \/ r = 2 => push_b64(n, 3) = 0
<1> DEFINE e == base64_encode(x)
           n == Three(x, k)
           r == Len(x) - 3 * k
           c == (Len(x) + 2) \div 3
<1>1. Len(x) \in Nat
  BY DEF IsBytes
<1>2. c \in Nat /\ 3 * c <= Len(x) + 2
  BY <1>1, ChunkCount
<1>3. k < c
  OBVIOUS
<1>4. \A j \in 0 .. 3 : e[4 * k + 1 + j] = IF j > r THEN PAD ELSE push_b64(n, j)
  BY <1>1, EncodedIs, Zenon
<1>5. ByteAt(x, 3 * k + 2) = IF r = 1 THEN 0 ELSE ByteAt(x, 3 * k + 2)
  <2> HIDE DEF c
  <2>1. r = 1 => 3 * k + 2 \notin 1 .. Len(x)
    BY <1>1, SMT
  <2>2. DOMAIN x = 1 .. Len(x)
    BY DEF IsBytes
  <2> HIDE DEF r
  <2> QED
    BY <2>1, <2>2, Zenon DEF ByteAt
<1>6. ByteAt(x, 3 * k + 3) = IF r = 1 \/ r = 2 THEN 0 ELSE ByteAt(x, 3 * k + 3)
  <2> HIDE DEF c
  <2>1. r = 1 \/ r = 2 => 3 * k + 3 \notin 1 .. Len(x)
    BY <1>1, SMT
  <2>2. DOMAIN x = 1 .. Len(x)
    BY DEF IsBytes
  <2> HIDE DEF r
  <2> QED
    BY <2>1, <2>2, Zenon DEF ByteAt
<1>7. /\ ByteAt(x, 3 * k + 3) = 0 => push_b64(n, 3) = 0
      /\ ByteAt(x, 3 * k + 2) = 0 /\ ByteAt(x, 3 * k + 3) = 0 => push_b64(n, 2) = 0
  BY ThreeIs
<1>8. /\ r = 1 => push_b64(n, 2) = 0
      /\ r = 1 \/ r = 2 => push_b64(n, 3) = 0
  <2> HIDE DEF n, r
  <2> QED
    BY <1>5, <1>6, <1>7
<1> HIDE DEF e, n, c
<1>9. r \in Nat /\ r > 0
  BY <1>1, <1>2, <1>3, SMT
<1> HIDE DEF r
<1>10. /\ 4 * k + 1 + 0 = 4 * k + 1 /\ 4 * k + 1 + 1 = 4 * k + 2 /\ 4 * k + 1 + 2 = 4 * k + 3
       /\ 4 * k + 1 + 3 = 4 * k + 4
  BY SMT
<1>11. /\ e[4 * k + 1 + 0] = IF 0 > r THEN PAD ELSE push_b64(n, 0)
       /\ e[4 * k + 1 + 1] = IF 1 > r THEN PAD ELSE push_b64(n, 1)
       /\ e[4 * k + 1 + 2] = IF 2 > r THEN PAD ELSE push_b64(n, 2)
       /\ e[4 * k + 1 + 3] = IF 3 > r THEN PAD ELSE push_b64(n, 3)
  <2>1. 0 \in 0 .. 3 /\ 1 \in 0 .. 3 /\ 2 \in 0 .. 3 /\ 3 \in 0 .. 3
    OBVIOUS
  <2> QED
    BY <1>4, <2>1, Zenon
<1>12. ~(0 > r) /\ ~(1 > r) /\ (2 > r <=> r = 1) /\ (3 > r <=> r = 1 \/ r = 2)
  BY <1>9, SMT
<1>13. /\ e[4 * k + 1] = push_b64(n, 0) /\ e[4 * k + 2] = push_b64(n, 1)
       /\ e[4 * k + 3] = IF r = 1 THEN PAD ELSE push_b64(n, 2)
       /\ e[4 * k + 4] = IF r = 1 \/ r = 2 THEN PAD ELSE push_b64(n, 3)
  BY <1>10, <1>11, <1>12, Zenon
<1> QED
  BY <1>8, <1>9, <1>13 DEF e, n, r

(* What base64_decode makes of them.                                       *)
LEMMA ChunkBack ==
    ASSUME NEW x, IsBytes(x), NEW k \in Nat, k < (Len(x) + 2) \div 3
    PROVE  LET e == base64_encode(x)
               r == Len(x) - 3 * k
           IN /\ Bits(e, k) = Three(x, k)
              /\ Pads(e, k) = IF r = 1 THEN 2 ELSE IF r = 2 THEN 1 ELSE 0
              /\ \A i \in 4 * k + 1 .. 4 * k + 4 : e[i] # BAD
<1> DEFINE e == base64_encode(x)
           n == Three(x, k)
           r == Len(x) - 3 * k
<1>1. /\ r \in Nat /\ r > 0
      /\ e[4 * k + 1] = push_b64(n, 0) /\ e[4 * k + 2] = push_b64(n, 1)
      /\ e[4 * k + 3] = IF r = 1 THEN PAD ELSE push_b64(n, 2)
      /\ e[4 * k + 4] = IF r = 1 \/ r = 2 THEN PAD ELSE push_b64(n, 3)
      /\ r = 1 => push_b64(n, 2) = 0
      /\ r = 1 \/ r = 2 => push_b64(n, 3) = 0
  BY FourEncoded
<1>2. n \in Nat /\ n < 16777216
  BY ThreeIs, SMT
<1> HIDE DEF e, n, r
<1>3. /\ n = 262144 * push_b64(n, 0) + 4096 * push_b64(n, 1) + 64 * push_b64(n, 2)
                + push_b64(n, 3)
      /\ \A j \in 0 .. 3 : push_b64(n, j) \in Nat /\ push_b64(n, j) < 64
  BY <1>2, FourSixes, SMT
<1> DEFINE p == push_b64(n, 0)
           q == push_b64(n, 1)
           s == push_b64(n, 2)
           t == push_b64(n, 3)
<1>4. /\ p \in Nat /\ q \in Nat /\ s \in Nat /\ t \in Nat
      /\ p < 64 /\ q < 64 /\ s < 64 /\ t < 64
  BY <1>3, SMT
<1>5. n = 262144 * p + 4096 * q + 64 * s + t
  BY <1>3, SMT
<1>a. /\ e[4 * k + 1] = p /\ e[4 * k + 2] = q
      /\ e[4 * k + 3] = IF r = 1 THEN PAD ELSE s
      /\ e[4 * k + 4] = IF r = 1 \/ r = 2 THEN PAD ELSE t
      /\ r = 1 => s = 0
      /\ r = 1 \/ r = 2 => t = 0
  BY <1>1
<1> HIDE DEF p, q, s, t
<1>6. \A v \in Nat : v < 64 => v % 64 = v
  BY SMT
<1>7. PAD % 64 = 0
  BY SMT DEF PAD
<1>8. /\ e[4 * k + 1] % 64 = p /\ e[4 * k + 2] % 64 = q
      /\ e[4 * k + 3] % 64 = s /\ e[4 * k + 4] % 64 = t
  BY <1>a, <1>4, <1>6, <1>7, Zenon
<1>9. Bits(e, k) = n
  BY <1>5, <1>8, SMT DEF Bits
<1>10. {i \in 4 * k + 1 .. 4 * k + 4 : e[i] = PAD}
         = IF r = 1 THEN {4 * k + 3, 4 * k + 4} ELSE IF r = 2 THEN {4 * k + 4} ELSE {}
  <2>1. \A i : i \in 4 * k + 1 .. 4 * k + 4
                <=> i = 4 * k + 1 \/ i = 4 * k + 2 \/ i = 4 * k + 3 \/ i = 4 * k + 4
    BY SMT
  <2>2. p # PAD /\ q # PAD /\ s # PAD /\ t # PAD
    BY <1>4, SMT DEF PAD
  <2>3. e[4 * k + 1] # PAD /\ e[4 * k + 2] # PAD /\ (e[4 * k + 3] = PAD <=> r = 1)
        /\ (e[4 * k + 4] = PAD <=> r = 1 \/ r = 2)
    BY <1>a, <2>2
  <2>4. ~(r = 1 /\ r = 2)
    BY <1>1, SMT
  <2> QED
    BY <2>1, <2>3, <2>4
<1>11. Cardinality({4 * k + 3, 4 * k + 4}) = 2 /\ Cardinality({4 * k + 4}) = 1 /\ Cardinality({}) = 0
  <2>1. Cardinality({4 * k + 4}) = 1 /\ IsFiniteSet({4 * k + 4})
    BY FS_Singleton
  <2>2. 4 * k + 3 \notin {4 * k + 4} /\ {4 * k + 3, 4 * k + 4} = {4 * k + 4} \union {4 * k + 3}
    BY SMT
  <2>3. Cardinality({4 * k + 4} \union {4 * k + 3}) = 1 + 1
    BY <2>1, <2>2, FS_AddElement
  <2>4. 1 + 1 = 2
    OBVIOUS
  <2> QED
    BY <2>1, <2>2, <2>3, <2>4, FS_EmptySet
<1>12. Pads(e, k) = IF r = 1 THEN 2 ELSE IF r = 2 THEN 1 ELSE 0
  BY <1>10, <1>11, Zenon DEF Pads
<1>13. \A i \in 4 * k + 1 .. 4 * k + 4 : e[i] # BAD
  <2>1. \A i \in 4 * k + 1 .. 4 * k + 4 :
                i = 4 * k + 1 \/ i = 4 * k + 2 \/ i = 4 * k + 3 \/ i = 4 * k + 4
    BY SMT
  <2>2. p # BAD /\ q # BAD /\ s # BAD /\ t # BAD /\ PAD # BAD
    BY <1>4, SMT DEF BAD, PAD
  <2> QED
    BY <1>a, <2>1, <2>2, Zenon
<1> QED
  BY <1>9, <1>12, <1>13 DEF e, n, r

(* The first k bytes of the chunks.                                        *)
Taken(e, k) == [i \in 1 .. k |-> Eight(Bits(e, (i - 1) \div 3), (i - 1) % 3)]

LEMMA DecodedIs ==
    ASSUME NEW e, NEW c \in Nat, NEW pad \in 0 .. 2, Len(e) \div 4 = c,
           c > 0 => Pads(e, c - 1) = pad, c = 0 => pad = 0
    PROVE  Decoded(e) = Taken(e, 3 * c - pad)
<1>1. (IF c = 0 THEN 0 ELSE Pads(e, c - 1)) = pad
  OBVIOUS
<1>2. (IF pad >= 2 THEN 2 ELSE pad) = pad
  OBVIOUS
<1> DEFINE pd == IF c = 0 THEN 0 ELSE Pads(e, c - 1)
<1>3. Decoded(e) = Taken(e, 3 * c - (IF pd >= 2 THEN 2 ELSE pd))
  BY SMT DEF Decoded, Eight, Taken
<1> HIDE DEF pd
<1>4. pd = pad
  BY <1>1 DEF pd
<1> QED
  BY <1>2, <1>3, <1>4, Zenon

(* Every position is in one of the chunks.                                 *)
LEMMA ChunkOf ==
    ASSUME NEW c \in Nat, NEW i \in 1 .. 4 * c
    PROVE  \E k \in Nat, j \in 0 .. 3 : k < c /\ i = 4 * k + 1 + j /\ (i - 1) \div 4 = k /\ (i - 1) % 4 = j
<1>1. /\ (i - 1) \div 4 \in Nat /\ (i - 1) % 4 \in 0 .. 3
      /\ i = 4 * ((i - 1) \div 4) + 1 + ((i - 1) % 4)
  BY Place4, SMT
<1>2. (i - 1) \div 4 < c
  BY <1>1, SMT
<1> QED
  BY <1>1, <1>2, Zenon

LEMMA ThirdOf ==
    ASSUME NEW c \in Nat, NEW i \in 1 .. 3 * c
    PROVE  \E k \in Nat, j \in 0 .. 2 : k < c /\ i = 3 * k + 1 + j /\ (i - 1) \div 3 = k /\ (i - 1) % 3 = j
<1>1. /\ (i - 1) \div 3 \in Nat /\ (i - 1) % 3 \in 0 .. 2
      /\ i = 3 * ((i - 1) \div 3) + 1 + ((i - 1) % 3)
  BY Place3, SMT
<1>2. (i - 1) \div 3 < c
  BY <1>1, SMT
<1> QED
  BY <1>1, <1>2, Zenon

LEMMA DecodeUndoes ==
    ASSUME NEW x, IsBytes(x), x = [i \in 1 .. Len(x) |-> x[i]]
    PROVE  base64_decode(base64_encode(x)) = [ok |-> TRUE, bytes |-> x]
<1> DEFINE e == base64_encode(x)
           c == (Len(x) + 2) \div 3
           L == Len(x)
<1>1. L \in Nat /\ DOMAIN x = 1 .. L
  BY DEF IsBytes
<1>2. c \in Nat /\ L <= 3 * c /\ 3 * c <= L + 2 /\ (4 * c) % 4 = 0 /\ (4 * c) \div 4 = c
  BY <1>1, ChunkCount
<1>3. DOMAIN e = 1 .. 4 * c /\ e \in [1 .. 4 * c -> Range(e)]
  <2>1. DOMAIN e = 1 .. 4 * c /\ e = [i \in 1 .. 4 * c |-> e[i]]
    BY SMT DEF base64_encode
  <2>2. \A i \in 1 .. 4 * c : e[i] \in Range(e)
    BY <2>1, Zenon DEF Range
  <2> HIDE DEF e, c
  <2> QED
    BY <2>1, <2>2
<1>4. \A k \in Nat : k < c =>
         /\ Bits(e, k) = Three(x, k)
         /\ Pads(e, k) = IF L - 3 * k = 1 THEN 2 ELSE IF L - 3 * k = 2 THEN 1 ELSE 0
         /\ \A i \in 4 * k + 1 .. 4 * k + 4 : e[i] # BAD
  BY ChunkBack
<1> HIDE DEF e, c
<1>5. e \in Seq(Range(e)) /\ Len(e) = 4 * c
  <2>1. 4 * c \in Nat
    BY <1>2, SMT
  <2> QED
    BY <1>3, <2>1
<1>6. BAD \notin Range(e)
  <2>1. ASSUME NEW i \in 1 .. 4 * c PROVE e[i] # BAD
    <3>1. PICK k \in Nat, j \in 0 .. 3 : k < c /\ i = 4 * k + 1 + j
      BY <1>2, ChunkOf
    <3>2. i \in 4 * k + 1 .. 4 * k + 4
      BY <3>1, SMT
    <3> QED
      BY <1>4, <3>1, <3>2
  <2> QED
    BY <1>3, <2>1 DEF Range
<1>7. \A k \in 0 .. c - 2 : Pads(e, k) = 0
  <2> SUFFICES ASSUME NEW k \in 0 .. c - 2 PROVE Pads(e, k) = 0
    OBVIOUS
  <2>1. k \in Nat /\ k < c /\ L - 3 * k # 1 /\ L - 3 * k # 2
    BY <1>1, <1>2, SMT
  <2> QED
    BY <1>4, <2>1, Zenon
<1> DEFINE pad == 3 * c - L
<1>8. pad \in 0 .. 2 /\ (c = 0 => pad = 0) /\ 3 * c - pad = L
  BY <1>1, <1>2, SMT
<1>9. c > 0 => Pads(e, c - 1) = pad
  <2> SUFFICES ASSUME c > 0 PROVE Pads(e, c - 1) = pad
    OBVIOUS
  <2>1. c - 1 \in Nat /\ c - 1 < c
    BY <1>2, SMT
  <2>2. Pads(e, c - 1) = IF L - 3 * (c - 1) = 1 THEN 2 ELSE IF L - 3 * (c - 1) = 2 THEN 1 ELSE 0
    BY <1>4, <2>1, Zenon
  <2> QED
    BY <1>1, <1>2, <2>2, SMT
<1>10. Len(e) \div 4 = c /\ Len(e) % 4 = 0
  BY <1>2, <1>5
<1> HIDE DEF pad
<1>11. Decoded(e) = [i \in 1 .. L |-> Eight(Bits(e, (i - 1) \div 3), (i - 1) % 3)]
  <2>1. Decoded(e) = Taken(e, 3 * c - pad)
    BY <1>2, <1>8, <1>9, <1>10, DecodedIs
  <2> QED
    BY <1>8, <2>1, Zenon DEF Taken
<1>12. ASSUME NEW i \in 1 .. L PROVE Eight(Bits(e, (i - 1) \div 3), (i - 1) % 3) = x[i]
  <2>1. i \in 1 .. 3 * c
    BY <1>1, <1>2, SMT
  <2>2. PICK k \in Nat, j \in 0 .. 2 : k < c /\ i = 3 * k + 1 + j /\ (i - 1) \div 3 = k /\ (i - 1) % 3 = j
    BY <1>2, <2>1, ThirdOf
  <2>3. Bits(e, k) = Three(x, k)
    BY <1>4, <2>2, Zenon
  <2>4. /\ Eight(Three(x, k), 0) = ByteAt(x, 3 * k + 1)
        /\ Eight(Three(x, k), 1) = ByteAt(x, 3 * k + 2)
        /\ Eight(Three(x, k), 2) = ByteAt(x, 3 * k + 3)
    BY ThreeIs
  <2>5. ByteAt(x, i) = x[i]
    BY <1>1 DEF ByteAt
  <2>6. Eight(Three(x, k), j) = ByteAt(x, 3 * k + 1 + j)
    <3>1. CASE j = 0
      BY <2>4, <3>1
    <3>2. CASE j = 1
      BY <2>4, <3>2
    <3>3. CASE j = 2
      BY <2>4, <3>3
    <3> QED
      BY <3>1, <3>2, <3>3
  <2> QED
    BY <2>2, <2>3, <2>5, <2>6, Zenon
<1>13. Decoded(e) = x
  <2>1. [i \in 1 .. L |-> Eight(Bits(e, (i - 1) \div 3), (i - 1) % 3)] = [i \in 1 .. L |-> x[i]]
    BY <1>12
  <2> QED
    BY <1>11, <2>1
<1> HIDE DEF L
<1>14. /\ Len(e) % 4 = 0 /\ BAD \notin Range(e)
       /\ \A k \in 0 .. Len(e) \div 4 - 2 : Pads(e, k) = 0
  BY <1>6, <1>7, <1>10, Zenon
<1> QED
  BY <1>13, <1>14 DEF base64_decode, e

LEMMA EncodeUndoes ==
    ASSUME NEW x, Len(x) \in Nat, x = [i \in 1 .. Len(x) |-> x[i]], Len(x) % 4 = 0,
           \A i \in 1 .. Len(x) : x[i] \in Nat /\ x[i] < 64
    PROVE  base64_encode(Decoded(x)) = x
<1> DEFINE c == Len(x) \div 4
           d == Decoded(x)
<1>1. c \in Nat /\ Len(x) = 4 * c
  <2>1. \A n \in Nat : n % 4 = 0 => n \div 4 \in Nat /\ n = 4 * (n \div 4)
    BY SMT
  <2> QED
    BY <2>1
<1> HIDE DEF c
<1>2. ASSUME NEW k \in Nat, k < c
      PROVE  /\ Fits24(Bits(x, k)) /\ Pads(x, k) = 0
             /\ \A j \in 0 .. 3 : push_b64(Bits(x, k), j) = x[4 * k + 1 + j]
  <2> DEFINE p == x[4 * k + 1]
             q == x[4 * k + 2]
             s == x[4 * k + 3]
             t == x[4 * k + 4]
             n == Bits(x, k)
  <2>1. \A i \in 4 * k + 1 .. 4 * k + 4 : i \in 1 .. Len(x)
    BY <1>1, <1>2, SMT
  <2>2. /\ 4 * k + 1 \in 4 * k + 1 .. 4 * k + 4 /\ 4 * k + 2 \in 4 * k + 1 .. 4 * k + 4
        /\ 4 * k + 3 \in 4 * k + 1 .. 4 * k + 4 /\ 4 * k + 4 \in 4 * k + 1 .. 4 * k + 4
    BY SMT
  <2>3. /\ p \in Nat /\ q \in Nat /\ s \in Nat /\ t \in Nat
        /\ p < 64 /\ q < 64 /\ s < 64 /\ t < 64
    BY <2>1, <2>2
  <2>4. Pads(x, k) = 0
    <3>1. \A v \in Nat : v < 64 => v # PAD
      BY SMT DEF PAD
    <3>2. {i \in 4 * k + 1 .. 4 * k + 4 : x[i] = PAD} = {}
      BY <2>1, <3>1
    <3> QED
      BY <3>2, FS_EmptySet DEF Pads
  <2>5. n = 262144 * p + 4096 * q + 64 * s + t
    <3>1. \A v \in Nat : v < 64 => v % 64 = v
      BY SMT
    <3>2. p % 64 = p /\ q % 64 = q /\ s % 64 = s /\ t % 64 = t
      BY <2>3, <3>1
    <3>3. n = 262144 * (p % 64) + 4096 * (q % 64) + 64 * (s % 64) + (t % 64)
      BY SMT DEF Bits
    <3> HIDE DEF n, p, q, s, t
    <3> QED
      BY <3>2, <3>3, SMT
  <2>6. /\ 4 * k + 1 + 0 = 4 * k + 1 /\ 4 * k + 1 + 1 = 4 * k + 2 /\ 4 * k + 1 + 2 = 4 * k + 3
        /\ 4 * k + 1 + 3 = 4 * k + 4
    BY SMT
  <2>7. /\ x[4 * k + 1 + 0] = p /\ x[4 * k + 1 + 1] = q
        /\ x[4 * k + 1 + 2] = s /\ x[4 * k + 1 + 3] = t
    BY <2>6
  <2> HIDE DEF p, q, s, t, n
  <2>a. SixBits(p, q, s, t)
    BY <2>3, SMT DEF SixBits
  <2>b. n = Sixes(p, q, s, t)
    <3>1. Sixes(p, q, s, t) = 262144 * p + 4096 * q + 64 * s + t
      BY SMT DEF Sixes
    <3> QED
      BY <2>5, <3>1, SMT
  <2>8. /\ Fits24(n)
        /\ push_b64(n, 0) = p /\ push_b64(n, 1) = q /\ push_b64(n, 2) = s /\ push_b64(n, 3) = t
    BY <2>a, <2>b, SixesJoined, SMT
  <2>9. \A j \in 0 .. 3 : push_b64(n, j) = x[4 * k + 1 + j]
    <3>1. \A j \in 0 .. 3 : j = 0 \/ j = 1 \/ j = 2 \/ j = 3
      OBVIOUS
    <3>2. /\ push_b64(n, 0) = x[4 * k + 1 + 0] /\ push_b64(n, 1) = x[4 * k + 1 + 1]
          /\ push_b64(n, 2) = x[4 * k + 1 + 2] /\ push_b64(n, 3) = x[4 * k + 1 + 3]
      BY <2>7, <2>8, SMT
    <3> QED
      BY <3>1, <3>2, Zenon
  <2> QED
    BY <2>4, <2>8, <2>9, Zenon DEF n
<1>3. d = [i \in 1 .. 3 * c |-> Eight(Bits(x, (i - 1) \div 3), (i - 1) % 3)]
  <2>1. c > 0 => c - 1 \in Nat /\ c - 1 < c
    BY <1>1, SMT
  <2>2. c > 0 => Pads(x, c - 1) = 0
    BY <1>2, <2>1, Zenon
  <2>3. Len(x) \div 4 = c /\ 0 \in 0 .. 2 /\ 3 * c - 0 = 3 * c
    BY <1>1, SMT DEF c
  <2>4. d = Taken(x, 3 * c - 0)
    BY <1>1, <2>2, <2>3, DecodedIs
  <2> QED
    BY <2>3, <2>4, Zenon DEF Taken
<1> HIDE DEF d
<1>4. Len(d) = 3 * c /\ DOMAIN d = 1 .. 3 * c
  BY <1>1, <1>3
<1>5. ASSUME NEW k \in Nat, k < c PROVE Three(d, k) = Bits(x, k)
  <2>1. /\ Bits(x, k) = 65536 * Eight(Bits(x, k), 0) + 256 * Eight(Bits(x, k), 1)
                           + Eight(Bits(x, k), 2)
    <3>1. Bits(x, k) \in Nat /\ Bits(x, k) < 16777216
      BY <1>2, <1>5, SMT DEF Fits24
    <3> DEFINE n == Bits(x, k)
    <3> HIDE DEF n
    <3>2. n \in Nat /\ n < 16777216
      BY <3>1, SMT DEF n
    <3>3. n = 65536 * Eight(n, 0) + 256 * Eight(n, 1) + Eight(n, 2)
      BY <3>2, ThreeEights, SMT
    <3> QED
      BY <3>3, SMT DEF n
  <2>2. ASSUME NEW j \in 0 .. 2 PROVE ByteAt(d, 3 * k + 1 + j) = Eight(Bits(x, k), j)
    <3>1. 3 * k + 1 + j \in 1 .. 3 * c
      BY <1>1, <1>5, SMT
    <3>2. ((3 * k + 1 + j) - 1) \div 3 = k /\ ((3 * k + 1 + j) - 1) % 3 = j
      BY InChunk3
    <3> DEFINE i == 3 * k + 1 + j
    <3>3. (i - 1) \div 3 = k /\ (i - 1) % 3 = j /\ i \in 1 .. 3 * c
      BY <3>1, <3>2, Zenon
    <3> HIDE DEF i
    <3>4. d[i] = Eight(Bits(x, k), j)
      BY <1>3, <3>3, Zenon
    <3>5. ByteAt(d, i) = d[i]
      BY <1>4, <3>3 DEF ByteAt
    <3> QED
      BY <3>4, <3>5 DEF i
  <2>3. 3 * k + 1 + 0 = 3 * k + 1 /\ 3 * k + 1 + 1 = 3 * k + 2 /\ 3 * k + 1 + 2 = 3 * k + 3
    BY SMT
  <2>4. 0 \in 0 .. 2 /\ 1 \in 0 .. 2 /\ 2 \in 0 .. 2
    OBVIOUS
  <2>5. /\ ByteAt(d, 3 * k + 1 + 0) = Eight(Bits(x, k), 0)
        /\ ByteAt(d, 3 * k + 1 + 1) = Eight(Bits(x, k), 1)
        /\ ByteAt(d, 3 * k + 1 + 2) = Eight(Bits(x, k), 2)
    BY <2>2, <2>4, Zenon
  <2>6. /\ ByteAt(d, 3 * k + 1) = Eight(Bits(x, k), 0)
        /\ ByteAt(d, 3 * k + 2) = Eight(Bits(x, k), 1)
        /\ ByteAt(d, 3 * k + 3) = Eight(Bits(x, k), 2)
    BY <2>3, <2>5, SMT
  <2> QED
    BY <2>1, <2>6, SMT DEF Three, Joined
<1>6. (3 * c + 2) \div 3 = c
  BY <1>1, SMT
<1>7. ASSUME NEW i \in 1 .. 4 * c PROVE base64_encode(d)[i] = x[i]
  <2>1. PICK k \in Nat, j \in 0 .. 3 : k < c /\ i = 4 * k + 1 + j
    BY <1>1, ChunkOf
  <2>2. Len(d) \in Nat /\ k < (Len(d) + 2) \div 3
    BY <1>1, <1>4, <1>6, <2>1, SMT
  <2>3. base64_encode(d)[4 * k + 1 + j] = IF j > Len(d) - 3 * k THEN PAD ELSE push_b64(Three(d, k), j)
    BY <2>2, EncodedIs
  <2>4. ~(j > Len(d) - 3 * k)
    <3>1. c \in Nat /\ k \in Nat /\ j \in 0 .. 3 /\ k < c
      BY <1>1, <2>1
    <3>2. ~(j > 3 * c - 3 * k)
      BY <3>1, SMT
    <3> QED
      BY <1>4, <3>2, Zenon
  <2>5. Three(d, k) = Bits(x, k) /\ push_b64(Bits(x, k), j) = x[4 * k + 1 + j]
    BY <1>2, <1>5, <2>1, Zenon
  <2> QED
    BY <2>1, <2>3, <2>4, <2>5, Zenon
<1>8. base64_encode(d) = [i \in 1 .. 4 * c |-> base64_encode(d)[i]]
  <2>1. base64_encode(d) = [i \in 1 .. 4 * ((Len(d) + 2) \div 3) |-> base64_encode(d)[i]]
    BY SMT DEF base64_encode
  <2> QED
    BY <1>4, <1>6, <2>1, Zenon
<1>9. base64_encode(d) = [i \in 1 .. 4 * c |-> x[i]]
  BY <1>7, <1>8
<1> QED
  BY <1>1, <1>9 DEF d

(* base64_decode undoes base64_encode, and base64_encode undoes            *)
(* base64_decode on every text without padding that it takes.              *)
THEOREM Base64RoundTrip == InputSpec => []RoundTrip
<1>1. InputOK => RoundTrip
  <2> SUFFICES ASSUME InputOK PROVE RoundTrip
    OBVIOUS
  <2>1. ASSUME kind = "raw" PROVE base64_decode(base64_encode(one)) = [ok |-> TRUE, bytes |-> one]
    <3>1. one \in Seq(RawBytes)
      BY <2>1 DEF InputOK
    <3>2. Len(one) \in Nat /\ DOMAIN one = 1 .. Len(one) /\ \A i \in 1 .. Len(one) : one[i] \in RawBytes
      BY <3>1
    <3>3. \A b \in RawBytes : b \in Nat /\ b < 256
      <4>1. \A b \in 0 .. 255 : b \in Nat /\ b < 256
        BY SMT
      <4> QED
        BY <4>1, InputAssumption, Zenon
    <3>4. IsBytes(one)
      BY <3>2, <3>3, Zenon DEF IsBytes
    <3>5. one = [i \in 1 .. Len(one) |-> one[i]]
      BY <3>1
    <3> QED
      BY <3>4, <3>5, DecodeUndoes
  <2>2. ASSUME kind = "encoded", PAD \notin Range(one), base64_decode(one).ok
        PROVE  base64_encode(base64_decode(one).bytes) = one
    <3>1. one \in Seq(EncodedChars)
      BY <2>2 DEF InputOK
    <3>2. Len(one) \in Nat /\ DOMAIN one = 1 .. Len(one) /\ \A i \in 1 .. Len(one) : one[i] \in EncodedChars
      BY <3>1
    <3>3. /\ Len(one) % 4 = 0 /\ BAD \notin Range(one)
          /\ base64_decode(one).bytes = Decoded(one)
      BY <2>2 DEF base64_decode
    <3>4. \A i \in 1 .. Len(one) : one[i] # PAD /\ one[i] # BAD
      BY <2>2, <3>2, <3>3 DEF Range
    <3>5. \A v \in EncodedChars : v # PAD /\ v # BAD => v \in Nat /\ v < 64
      <4>1. \A v \in 0 .. BAD : v # PAD /\ v # BAD => v \in Nat /\ v < 64
        BY SMT DEF BAD, PAD
      <4> QED
        BY <4>1, InputAssumption, Zenon
    <3>6. \A i \in 1 .. Len(one) : one[i] \in Nat /\ one[i] < 64
      BY <3>2, <3>4, <3>5, Zenon
    <3>7. one = [i \in 1 .. Len(one) |-> one[i]]
      BY <3>1
    <3> QED
      BY <3>2, <3>3, <3>6, <3>7, EncodeUndoes
  <2> QED
    BY <2>1, <2>2 DEF RoundTrip
<1> QED
  BY <1>1, InputType, PTL

---------------------------------------------------------------------------
(* The attributes of server-first.  After n of them: nothing that refuses  *)
(* the message has come, and each value is the last one given.             *)
AttrValues == {<<>>} \union {<<a[2]>> : a \in Attrs}
Parsing == [ok : BOOLEAN, nonce : AttrValues, salt : AttrValues, iterations : AttrValues]

Clean(n) == \A i \in 1 .. n : /\ one[i][1] \notin {"m", "no-key"}
                              /\ one[i][1] = "i" => one[i][2] # -1
LastOf(key, n, value) ==
    \/ value = <<>> /\ \A i \in 1 .. n : one[i][1] # key
    \/ \E j \in 1 .. n : /\ one[j][1] = key /\ value = <<one[j][2]>>
                         /\ \A i \in j + 1 .. n : one[i][1] # key

LEMMA AttrTurn ==
    ASSUME NEW acc \in Parsing, NEW attr \in Attrs
    PROVE  ParseAttr(acc, attr) \in Parsing
<1>1. <<attr[2]>> \in AttrValues
  BY DEF AttrValues
<1> HIDE DEF AttrValues
<1>2. CASE ~acc.ok
  BY <1>2 DEF ParseAttr
<1>3. CASE acc.ok /\ attr[1] = "r"
  BY <1>1, <1>3 DEF ParseAttr, Parsing
<1>4. CASE acc.ok /\ attr[1] = "s"
  BY <1>1, <1>4 DEF ParseAttr, Parsing
<1>5. CASE acc.ok /\ attr[1] = "i"
  BY <1>1, <1>5 DEF ParseAttr, Parsing
<1>6. CASE acc.ok /\ attr[1] \in {"m", "no-key"}
  BY <1>6 DEF ParseAttr, Parsing
<1>7. CASE acc.ok /\ attr[1] \notin {"r", "s", "i", "m", "no-key"}
  BY <1>7 DEF ParseAttr
<1> QED
  BY <1>2, <1>3, <1>4, <1>5, <1>6, <1>7

LEMMA AttrsRun ==
    ASSUME NEW attrs \in Seq(Attrs)
    PROVE  \E g \in [0 .. Len(attrs) -> Parsing] :
              /\ ParseAttrs(attrs) = g[Len(attrs)]
              /\ g[0] = [ok |-> TRUE, nonce |-> <<>>, salt |-> <<>>, iterations |-> <<>>]
              /\ \A n \in 1 .. Len(attrs) : g[n] = ParseAttr(g[n - 1], attrs[n])
<1> DEFINE m == Len(attrs)
           x == [ok |-> TRUE, nonce |-> <<>>, salt |-> <<>>, iterations |-> <<>>]
           F == [p \in (1 .. m) \X Parsing |-> ParseAttr(p[2], attrs[p[1]])]
           Def(g) == g = [n \in 0 .. m |-> IF n = 0 THEN x ELSE ParseAttr(g[n - 1], attrs[n])]
           f == CHOOSE g : Def(g)
<1>1. x \in Parsing
  BY DEF Parsing, AttrValues
<1>2. \A n \in 1 .. m : attrs[n] \in Attrs
  OBVIOUS
<1>3. F \in [(1 .. m) \X Parsing -> Parsing]
  BY <1>2, AttrTurn
<1>4. m \in Nat
  OBVIOUS
<1> HIDE DEF x
<1>a. F \in Turns(m, Parsing)
  BY <1>3 DEF Turns
<1>b. PICK g : RunOf(g, m, Parsing, x, F)
  <2> HIDE DEF F, m
  <2> QED
    BY <1>1, <1>a, <1>4, Loop
<1>5. g \in [0 .. m -> Parsing] /\ g[0] = x /\ \A n \in 1 .. m : g[n] = F[<<n, g[n - 1]>>]
  BY <1>b DEF RunOf
<1>6. \A n \in 1 .. m : g[n] = ParseAttr(g[n - 1], attrs[n])
  <2> SUFFICES ASSUME NEW n \in 1 .. m PROVE g[n] = ParseAttr(g[n - 1], attrs[n])
    OBVIOUS
  <2>1. n - 1 \in 0 .. m
    BY <1>4
  <2>2. g[n - 1] \in Parsing
    BY <1>5, <2>1
  <2>3. F[<<n, g[n - 1]>>] = ParseAttr(g[n - 1], attrs[n])
    BY <2>2
  <2> HIDE DEF F
  <2> QED
    BY <1>5, <2>3
<1>7. Def(g)
  BY <1>4, <1>5, <1>6
<1>8. Def(f)
  BY <1>7
<1>9. ParseAttrs(attrs) = f[m]
  BY DEF ParseAttrs, x
<1>10. \A n \in 0 .. m : f[n] = g[n]
  <2> HIDE DEF f
  <2> DEFINE T == {n \in Nat : n <= m => f[n] = g[n]}
  <2>1. 0 \in T
    BY <1>4, <1>5, <1>8
  <2>2. ASSUME NEW k \in T PROVE k + 1 \in T
    BY <1>4, <1>6, <1>8
  <2> HIDE DEF T
  <2>3. Nat \subseteq T
    BY <2>1, <2>2, SetInduction
  <2> QED
    BY <1>4, <2>3 DEF T
<1>11. ParseAttrs(attrs) = g[m] /\ m \in 0 .. m
  BY <1>4, <1>9, <1>10
<1> QED
  BY <1>5, <1>6, <1>11, Zenon DEF x

LEMMA AttrStep ==
    ASSUME NEW acc \in Parsing, NEW n \in Nat, n > 0, one[n] \in Attrs,
           acc.ok <=> Clean(n - 1),
           acc.ok => /\ LastOf("r", n - 1, acc.nonce) /\ LastOf("s", n - 1, acc.salt)
                     /\ LastOf("i", n - 1, acc.iterations),
           NEW new, new = ParseAttr(acc, one[n])
    PROVE  /\ new.ok <=> Clean(n)
           /\ new.ok => /\ LastOf("r", n, new.nonce) /\ LastOf("s", n, new.salt)
                        /\ LastOf("i", n, new.iterations)
<1>1. \A i : i \in 1 .. n <=> i \in 1 .. n - 1 \/ i = n
  OBVIOUS
<1>2. ASSUME NEW key, NEW value, LastOf(key, n - 1, value), one[n][1] # key
      PROVE  LastOf(key, n, value)
  <2>1. CASE \A i \in 1 .. n - 1 : one[i][1] # key
    BY <1>1, <1>2, <2>1 DEF LastOf
  <2>2. ASSUME NEW j \in 1 .. n - 1, one[j][1] = key, value = <<one[j][2]>>,
               \A i \in j + 1 .. n - 1 : one[i][1] # key
        PROVE  LastOf(key, n, value)
    <3>1. \A i \in j + 1 .. n : i \in j + 1 .. n - 1 \/ i = n
      OBVIOUS
    <3>2. j \in 1 .. n
      OBVIOUS
    <3>3. \A i \in j + 1 .. n : one[i][1] # key
      BY <1>2, <2>2, <3>1
    <3> QED
      BY <2>2, <3>2, <3>3 DEF LastOf
  <2> QED
    BY <1>2, <2>1, <2>2 DEF LastOf
<1>3. ASSUME NEW key, one[n][1] = key
      PROVE  LastOf(key, n, <<one[n][2]>>)
  <2>1. n \in 1 .. n /\ n + 1 .. n = {}
    OBVIOUS
  <2> QED
    BY <1>3, <2>1 DEF LastOf
<1>4. Clean(n) <=> /\ Clean(n - 1) /\ one[n][1] \notin {"m", "no-key"}
                   /\ one[n][1] = "i" => one[n][2] # -1
  BY <1>1 DEF Clean
<1> HIDE DEF Clean, LastOf
<1>5. CASE ~acc.ok
  BY <1>4, <1>5 DEF ParseAttr
<1>6. CASE acc.ok /\ one[n][1] = "r"
  BY <1>2, <1>3, <1>4, <1>6 DEF ParseAttr, Parsing
<1>7. CASE acc.ok /\ one[n][1] = "s"
  BY <1>2, <1>3, <1>4, <1>7 DEF ParseAttr, Parsing
<1>8. CASE acc.ok /\ one[n][1] = "i"
  BY <1>2, <1>3, <1>4, <1>8 DEF ParseAttr, Parsing
<1>9. CASE acc.ok /\ one[n][1] \in {"m", "no-key"}
  BY <1>4, <1>9 DEF ParseAttr, Parsing
<1>10. CASE acc.ok /\ one[n][1] \notin {"r", "s", "i", "m", "no-key"}
  BY <1>2, <1>4, <1>10 DEF ParseAttr
<1> QED
  BY <1>5, <1>6, <1>7, <1>8, <1>9, <1>10

LEMMA AttrsInv ==
    ASSUME one \in Seq(Attrs)
    PROVE  LET p == ParseAttrs(one)
           IN /\ p \in Parsing
              /\ p.ok <=> Clean(Len(one))
              /\ p.ok => /\ LastOf("r", Len(one), p.nonce) /\ LastOf("s", Len(one), p.salt)
                         /\ LastOf("i", Len(one), p.iterations)
<1> DEFINE m == Len(one)
           Holds(p, n) == /\ p.ok <=> Clean(n)
                          /\ p.ok => /\ LastOf("r", n, p.nonce) /\ LastOf("s", n, p.salt)
                                     /\ LastOf("i", n, p.iterations)
<1>1. PICK g \in [0 .. m -> Parsing] :
              /\ ParseAttrs(one) = g[m]
              /\ g[0] = [ok |-> TRUE, nonce |-> <<>>, salt |-> <<>>, iterations |-> <<>>]
              /\ \A n \in 1 .. m : g[n] = ParseAttr(g[n - 1], one[n])
  BY AttrsRun
<1>2. m \in Nat /\ \A n \in 1 .. m : one[n] \in Attrs
  OBVIOUS
<1> HIDE DEF m
<1> DEFINE T == {n \in Nat : n <= m => Holds(g[n], n)}
<1>3. 0 \in T
  BY <1>1 DEF Clean, LastOf
<1>4. ASSUME NEW k \in T PROVE k + 1 \in T
  <2> SUFFICES ASSUME k + 1 <= m PROVE Holds(g[k + 1], k + 1)
    OBVIOUS
  <2>1. k \in Nat /\ Holds(g[k], k)
    BY <1>2
  <2>2. k + 1 \in 1 .. m /\ (k + 1) - 1 = k /\ k \in 0 .. m /\ k + 1 \in Nat /\ k + 1 > 0
    BY <1>2, <2>1
  <2>3. g[k] \in Parsing /\ g[k + 1] = ParseAttr(g[k], one[k + 1]) /\ one[k + 1] \in Attrs
    BY <1>1, <1>2, <2>2
  <2> QED
    BY <2>1, <2>2, <2>3, AttrStep
<1> HIDE DEF T
<1>5. m \in T
  BY <1>2, <1>3, <1>4, SetInduction
<1>6. Holds(g[m], m) /\ g[m] \in Parsing
  BY <1>1, <1>2, <1>5 DEF T
<1> QED
  BY <1>1, <1>6 DEF m

(* The value kept is the one the specification names.                      *)
LEMMA GivenIs ==
    ASSUME one \in Seq(Attrs), NEW key, NEW value, LastOf(key, Len(one), value)
    PROVE  /\ value # <<>> <=> Places(key) # {}
           /\ Places(key) # {} => value = <<Given(key)>> /\ \E j \in Places(key) : Given(key) = one[j][2]
<1>1. DOMAIN one = 1 .. Len(one) /\ Len(one) \in Nat
  OBVIOUS
<1>2. CASE value = <<>> /\ \A i \in 1 .. Len(one) : one[i][1] # key
  BY <1>1, <1>2 DEF Places
<1>3. ASSUME NEW j \in 1 .. Len(one), one[j][1] = key, value = <<one[j][2]>>,
             \A i \in j + 1 .. Len(one) : one[i][1] # key
      PROVE  Places(key) # {} /\ value = <<Given(key)>> /\ Given(key) = one[j][2] /\ j \in Places(key)
  <2>1. j \in Places(key) /\ Places(key) \subseteq Int
    BY <1>1, <1>3 DEF Places
  <2>2. \A i \in Places(key) : j >= i
    BY <1>1, <1>3 DEF Places
  <2>3. Max(Places(key)) = j
    BY <2>1, <2>2, MaxIs
  <2> QED
    BY <1>3, <2>1, <2>3 DEF Given
<1>4. ASSUME NEW j \in 1 .. Len(one), value = <<one[j][2]>> PROVE value # <<>>
  BY <1>4
<1> QED
  BY <1>2, <1>3, <1>4 DEF LastOf

(* parse_server_first accepts what the specification accepts, and nothing  *)
(* else, and returns the last values given.                                *)
THEOREM ParsingIsAsSpecified == InputSpec => []ParsedAsSpecified
<1>1. InputOK => ParsedAsSpecified
  <2> SUFFICES ASSUME InputOK, kind = "first" PROVE ParsedAsSpecified
    BY SMT DEF ParsedAsSpecified
  <2> DEFINE a == ParseAttrs(one)
             p == parse_server_first(one, ClientNonce)
             clean == /\ Places("m") = {} /\ Places("no-key") = {}
                      /\ \A i \in Places("i") : one[i][2] >= 0
             accept == /\ clean
                       /\ Places("r") # {} /\ Places("s") # {} /\ Places("i") # {}
                       /\ Given("r")[1] = ClientNonce /\ Given("s") # "not-base64"
                       /\ Given("i") >= MinIterations /\ Given("i") <= MaxIterations
  <2>1. one \in Seq(Attrs)
    BY DEF InputOK
  <2>2. /\ a \in Parsing /\ (a.ok <=> Clean(Len(one)))
        /\ a.ok => /\ LastOf("r", Len(one), a.nonce) /\ LastOf("s", Len(one), a.salt)
                   /\ LastOf("i", Len(one), a.iterations)
    BY <2>1, AttrsInv
  <2>3. \A i \in DOMAIN one : one[i][1] = "i" => one[i][2] \in Nat \union {-1}
    BY <2>1, InputAssumption
  <2>4. Clean(Len(one)) <=> clean
    <3>1. DOMAIN one = 1 .. Len(one)
      BY <2>1
    <3>2. \A v \in Nat \union {-1} : v # -1 <=> v >= 0
      OBVIOUS
    <3>3. (\A i \in 1 .. Len(one) : one[i][1] \notin {"m", "no-key"})
            <=> Places("m") = {} /\ Places("no-key") = {}
      BY <3>1 DEF Places
    <3>4. (\A i \in 1 .. Len(one) : one[i][1] = "i" => one[i][2] # -1)
            <=> \A i \in Places("i") : one[i][2] >= 0
      <4>1. \A i \in 1 .. Len(one) : one[i][1] = "i" => (one[i][2] # -1 <=> one[i][2] >= 0)
        BY <2>3, <3>1, <3>2
      <4> QED
        BY <3>1, <4>1 DEF Places
    <3> QED
      BY <3>3, <3>4 DEF Clean
  <2> HIDE DEF a
  <2>5. /\ p.ok <=> /\ a.ok
                    /\ a.nonce # <<>> /\ a.salt # <<>> /\ a.iterations # <<>>
                    /\ a.nonce[1][1] = ClientNonce
                    /\ a.iterations[1] \in MinIterations .. MaxIterations
                    /\ a.salt[1] # "not-base64"
        /\ p.nonce = a.nonce /\ p.iterations = a.iterations
    <3> DEFINE ok == /\ a.ok
                     /\ a.nonce # <<>> /\ a.salt # <<>> /\ a.iterations # <<>>
                     /\ a.nonce[1][1] = ClientNonce
                     /\ a.iterations[1] \in MinIterations .. MaxIterations
                     /\ a.salt[1] # "not-base64"
    <3>1. p = [a EXCEPT !.ok = ok]
      BY DEF parse_server_first, a
    <3> HIDE DEF ok
    <3>2. p.ok = ok /\ p.nonce = a.nonce /\ p.iterations = a.iterations
      BY <2>2, <3>1 DEF Parsing
    <3> QED
      BY <3>2 DEF ok
  <2>6. ASSUME a.ok
        PROVE  /\ a.nonce # <<>> <=> Places("r") # {}
               /\ a.salt # <<>> <=> Places("s") # {}
               /\ a.iterations # <<>> <=> Places("i") # {}
               /\ Places("r") # {} => a.nonce = <<Given("r")>>
               /\ Places("s") # {} => a.salt = <<Given("s")>>
               /\ Places("i") # {} => /\ a.iterations = <<Given("i")>>
                                      /\ Given("i") \in Int
    <3>2. (a.nonce # <<>> <=> Places("r") # {}) /\ (Places("r") # {} => a.nonce = <<Given("r")>>)
      BY <2>1, <2>2, <2>6, GivenIs
    <3>3. (a.salt # <<>> <=> Places("s") # {}) /\ (Places("s") # {} => a.salt = <<Given("s")>>)
      BY <2>1, <2>2, <2>6, GivenIs
    <3>4. /\ a.iterations # <<>> <=> Places("i") # {}
          /\ Places("i") # {} => /\ a.iterations = <<Given("i")>>
                                 /\ \E j \in Places("i") : Given("i") = one[j][2]
      BY <2>1, <2>2, <2>6, GivenIs
    <3>5. Places("i") # {} => Given("i") \in Int
      BY <2>3, <3>4 DEF Places
    <3> QED
      BY <3>2, <3>3, <3>4, <3>5
  <2>7. p.ok <=> accept
    <3> HIDE DEF clean, p
    <3>1. CASE ~a.ok
      BY <2>2, <2>4, <2>5, <3>1
    <3>2. CASE a.ok /\ (Places("r") = {} \/ Places("s") = {} \/ Places("i") = {})
      BY <2>5, <2>6, <3>2
    <3>3. CASE a.ok /\ Places("r") # {} /\ Places("s") # {} /\ Places("i") # {}
      <4>1. /\ a.nonce[1] = Given("r") /\ a.salt[1] = Given("s")
            /\ a.iterations[1] = Given("i")
        BY <2>6, <3>3
      <4>2. Given("i") \in MinIterations .. MaxIterations
              <=> Given("i") >= MinIterations /\ Given("i") <= MaxIterations
        <5>1. Given("i") \in Int
          BY <2>6, <3>3
        <5>2. MinIterations \in Int /\ MaxIterations \in Int
          BY SMT DEF MinIterations, MaxIterations
        <5> QED
          BY <5>1, <5>2
      <4> QED
        BY <2>2, <2>4, <2>5, <2>6, <3>3, <4>1, <4>2
    <3> QED
      BY <3>1, <3>2, <3>3
  <2>8. accept => p.nonce = <<Given("r")>> /\ p.iterations = <<Given("i")>>
    <3> HIDE DEF p
    <3> QED
      BY <2>5, <2>6, <2>7
  <2> QED
    BY <2>7, <2>8, SMT DEF ParsedAsSpecified, MinIterations, MaxIterations
<1> QED
  BY <1>1, InputType, PTL

---------------------------------------------------------------------------
(* The name in client-first.                                               *)
EscapedChars == NameChars \union {"=", "2", "C", "3", "D"}
Reading == [pos : Nat \ {0}, out : Seq(EscapedChars \union {"comma"})]

LEMMA EscapeIs ==
    ASSUME NEW c \in NameChars
    PROVE  /\ Escape(c) \in Seq(EscapedChars)
           /\ c = "comma" => Escape(c) = <<"=", "2", "C">>
           /\ c = "=" => Escape(c) = <<"=", "3", "D">>
           /\ c \notin {"comma", "="} => Escape(c) = <<c>>
           /\ Len(Escape(c)) \in Nat /\ Len(Escape(c)) > 0
           /\ \A i \in 1 .. Len(Escape(c)) : Escape(c)[i] # "comma"
<1>1. CASE c = "comma"
  BY <1>1 DEF Escape, EscapedChars
<1>2. CASE c = "="
  BY <1>2 DEF Escape, EscapedChars
<1>3. CASE c \notin {"comma", "="}
  <2>1. Escape(c) = <<c>>
    BY <1>3 DEF Escape
  <2> QED
    BY <1>3, <2>1 DEF EscapedChars
<1> QED
  BY <1>1, <1>2, <1>3

LEMMA EscapeRun ==
    ASSUME NEW name \in Seq(NameChars)
    PROVE  \E f : /\ escape_saslname(name) = f[Len(name)]
                  /\ f[0] = <<>>
                  /\ \A n \in 1 .. Len(name) : f[n] = f[n - 1] \o Escape(name[n])
<1> DEFINE m == Len(name)
           S == Seq(EscapedChars)
           F == [p \in (1 .. m) \X S |-> p[2] \o Escape(name[p[1]])]
           Def(g) == g = [n \in 0 .. m |-> IF n = 0 THEN <<>> ELSE g[n - 1] \o Escape(name[n])]
           f == CHOOSE g : Def(g)
<1>1. m \in Nat /\ \A n \in 1 .. m : name[n] \in NameChars
  OBVIOUS
<1>2. F \in Turns(m, S)
  <2>1. \A n \in 1 .. m : Escape(name[n]) \in S
    BY <1>1, EscapeIs
  <2>2. \A s \in S, t \in S : s \o t \in S
    BY ConcatProperties
  <2> HIDE DEF m, S
  <2> QED
    BY <2>1, <2>2 DEF Turns
<1>3. <<>> \in S
  OBVIOUS
<1>4. PICK g : RunOf(g, m, S, <<>>, F)
  <2> HIDE DEF F, m, S
  <2> QED
    BY <1>1, <1>2, <1>3, Loop
<1>5. g \in [0 .. m -> S] /\ g[0] = <<>> /\ \A n \in 1 .. m : g[n] = F[<<n, g[n - 1]>>]
  BY <1>4 DEF RunOf
<1>6. \A n \in 1 .. m : g[n] = g[n - 1] \o Escape(name[n])
  <2> SUFFICES ASSUME NEW n \in 1 .. m PROVE g[n] = g[n - 1] \o Escape(name[n])
    OBVIOUS
  <2>1. n - 1 \in 0 .. m
    BY <1>1
  <2>2. g[n - 1] \in S
    BY <1>5, <2>1
  <2> HIDE DEF S
  <2>3. F[<<n, g[n - 1]>>] = g[n - 1] \o Escape(name[n])
    BY <2>2
  <2> HIDE DEF F
  <2> QED
    BY <1>5, <2>3
<1>7. Def(g)
  <2> HIDE DEF S, F, m
  <2> QED
    BY <1>1, <1>5, <1>6
<1>8. Def(f)
  BY <1>7
<1>9. escape_saslname(name) = f[m]
  BY DEF escape_saslname
<1> HIDE DEF f
<1>10. f[0] = <<>> /\ \A n \in 1 .. m : f[n] = f[n - 1] \o Escape(name[n])
  <2> HIDE DEF m
  <2> QED
    BY <1>1, <1>8
<1> QED
  BY <1>9, <1>10

(* What the loop has put out after n characters: the escapes of the first  *)
(* n, one behind the other.                                                *)
EscapedTo(f, name, n) ==
    /\ f[n] \in Seq(EscapedChars) /\ Len(f[n]) >= n
    /\ \A i \in 1 .. Len(f[n]) : f[n][i] # "comma"
    /\ \A j \in 1 .. n :
          /\ Len(f[j - 1]) \in Nat
          /\ Len(f[j]) = Len(f[j - 1]) + Len(Escape(name[j]))
          /\ Len(f[j]) <= Len(f[n])
          /\ \A i \in 1 .. Len(Escape(name[j])) : f[n][Len(f[j - 1]) + i] = Escape(name[j])[i]

LEMMA EscapedStep ==
    ASSUME NEW f, NEW name \in Seq(NameChars), NEW n \in 1 .. Len(name),
           EscapedTo(f, name, n - 1), f[n] = f[n - 1] \o Escape(name[n])
    PROVE  EscapedTo(f, name, n)
<1> DEFINE a == f[n - 1]
           b == Escape(name[n])
<1>1. name[n] \in NameChars /\ n \in Nat /\ n - 1 \in Nat
  OBVIOUS
<1>2. a \in Seq(EscapedChars) /\ Len(a) >= n - 1 /\ \A i \in 1 .. Len(a) : a[i] # "comma"
  BY DEF EscapedTo
<1>3. /\ b \in Seq(EscapedChars) /\ Len(b) \in Nat /\ Len(b) > 0
      /\ \A i \in 1 .. Len(b) : b[i] # "comma"
  BY <1>1, EscapeIs
<1>4. /\ f[n] \in Seq(EscapedChars) /\ Len(f[n]) = Len(a) + Len(b)
      /\ \A i \in 1 .. Len(a) : f[n][i] = a[i]
      /\ \A i \in 1 .. Len(b) : f[n][Len(a) + i] = b[i]
  <2> HIDE DEF a, b
  <2>1. f[n] = a \o b
    BY DEF a, b
  <2> QED
    BY <1>2, <1>3, <2>1, ConcatIs
<1> HIDE DEF a, b
<1>5. Len(a) \in Nat /\ Len(f[n]) >= n
  BY <1>1, <1>2, <1>3, <1>4
<1>6. \A i \in 1 .. Len(f[n]) : f[n][i] # "comma"
  <2> SUFFICES ASSUME NEW i \in 1 .. Len(f[n]) PROVE f[n][i] # "comma"
    OBVIOUS
  <2>1. CASE i <= Len(a)
    <3>1. i \in 1 .. Len(a)
      BY <1>5, <2>1
    <3> QED
      BY <1>2, <1>4, <3>1
  <2>2. CASE i > Len(a)
    <3>1. i - Len(a) \in 1 .. Len(b) /\ Len(a) + (i - Len(a)) = i
      BY <1>3, <1>4, <1>5, <2>2
    <3> QED
      BY <1>3, <1>4, <3>1
  <2> QED
    BY <1>5, <2>1, <2>2
<1>7. ASSUME NEW j \in 1 .. n
      PROVE  /\ Len(f[j - 1]) \in Nat
             /\ Len(f[j]) = Len(f[j - 1]) + Len(Escape(name[j]))
             /\ Len(f[j]) <= Len(f[n])
             /\ \A i \in 1 .. Len(Escape(name[j])) : f[n][Len(f[j - 1]) + i] = Escape(name[j])[i]
  <2>1. CASE j = n
    <3>1. f[j - 1] = a /\ Escape(name[j]) = b /\ f[j] = f[n]
      BY <2>1 DEF a, b
    <3>2. Len(f[n]) <= Len(f[n])
      BY <1>3, <1>4, <1>5
    <3> QED
      BY <1>4, <1>5, <3>1, <3>2, Zenon
  <2>2. CASE j # n
    <3>1. j \in 1 .. n - 1
      BY <2>2
    <3>2. name[j] \in NameChars
      OBVIOUS
    <3>3. /\ Len(f[j - 1]) \in Nat
          /\ Len(f[j]) = Len(f[j - 1]) + Len(Escape(name[j]))
          /\ Len(f[j]) <= Len(a)
          /\ \A i \in 1 .. Len(Escape(name[j])) : a[Len(f[j - 1]) + i] = Escape(name[j])[i]
      BY <3>1 DEF EscapedTo, a
    <3>4. Len(Escape(name[j])) \in Nat
      BY <3>2, EscapeIs
    <3> DEFINE l == Len(f[j - 1])
               k == Len(Escape(name[j]))
               t == Len(f[j])
               u == Len(a)
    <3>a. l \in Nat /\ k \in Nat /\ t = l + k /\ t <= u /\ u \in Nat
      BY <1>5, <3>3, <3>4
    <3> HIDE DEF l, k, t, u
    <3>b. \A i \in 1 .. k : l + i \in 1 .. u
      BY <3>a
    <3>5. \A i \in 1 .. Len(Escape(name[j])) : Len(f[j - 1]) + i \in 1 .. Len(a)
      BY <3>b DEF l, k, u
    <3>6. \A i \in 1 .. Len(Escape(name[j])) : f[n][Len(f[j - 1]) + i] = Escape(name[j])[i]
      BY <1>4, <3>3, <3>5
    <3>7. Len(f[j]) <= Len(f[n])
      <4>1. Len(f[n]) = u + Len(b)
        BY <1>4 DEF u
      <4>2. t <= u + Len(b)
        BY <1>3, <3>a
      <4> QED
        BY <4>1, <4>2 DEF t
    <3> QED
      BY <3>3, <3>6, <3>7
  <2> QED
    BY <2>1, <2>2
<1> QED
  BY <1>4, <1>5, <1>6, <1>7 DEF EscapedTo

LEMMA Three3 ==
    ASSUME NEW C, NEW e \in Seq(C), NEW i \in 1 .. Len(e), NEW a, NEW b, NEW c
    PROVE  At3(e, i, <<a, b, c>>)
              <=> i + 2 <= Len(e) /\ e[i] = a /\ e[i + 1] = b /\ e[i + 2] = c
<1> DEFINE t == SubSeq(e, i, i + 2)
<1> SUFFICES ASSUME i + 2 <= Len(e)
             PROVE  t = <<a, b, c>> <=> e[i] = a /\ e[i + 1] = b /\ e[i + 2] = c
  BY DEF At3
<1>1. i \in 1 .. Len(e) + 1 /\ i + 2 \in i - 1 .. Len(e) /\ (i + 2) - i + 1 = 3
  OBVIOUS
<1>2. t \in Seq(C) /\ Len(t) = 3 /\ \A k \in 1 .. 3 : t[k] = e[i + k - 1]
  BY <1>1, SubSeqIs
<1>3. 1 \in 1 .. 3 /\ 2 \in 1 .. 3 /\ 3 \in 1 .. 3 /\ i + 1 - 1 = i /\ i + 2 - 1 = i + 1 /\ i + 3 - 1 = i + 2
  OBVIOUS
<1>4. t[1] = e[i] /\ t[2] = e[i + 1] /\ t[3] = e[i + 2]
  BY <1>2, <1>3
<1> HIDE DEF t
<1>5. t = <<t[1], t[2], t[3]>>
  BY <1>2
<1>6. \A u, v, w : <<u, v, w>> = <<a, b, c>> <=> u = a /\ v = b /\ w = c
  OBVIOUS
<1> QED
  BY <1>4, <1>5, <1>6

LEMMA ReadTurnType ==
    ASSUME NEW s \in Reading, NEW e \in Seq(EscapedChars)
    PROVE  ReadTurn(s, e) \in Reading
<1> DEFINE C == EscapedChars \union {"comma"}
<1>1. s.pos \in Nat /\ s.pos # 0 /\ s.out \in Seq(C)
  BY DEF Reading
<1>2. ASSUME NEW k \in Nat, k # 0, NEW c \in C
      PROVE  [pos |-> s.pos + k, out |-> Append(s.out, c)] \in Reading
  <2>1. s.pos + k \in Nat \ {0}
    BY <1>1, <1>2
  <2>2. Append(s.out, c) \in Seq(C)
    <3> HIDE DEF C
    <3> QED
      BY <1>1, <1>2
  <2> QED
    BY <2>1, <2>2 DEF Reading
<1>3. "comma" \in C /\ "=" \in C
  BY DEF EscapedChars
<1>4. CASE s.pos > Len(e)
  BY <1>4 DEF ReadTurn
<1>5. CASE ~(s.pos > Len(e))
  <2>1. s.pos \in 1 .. Len(e)
    BY <1>1, <1>5
  <2>2. e[s.pos] \in C
    BY <2>1
  <2>3. 3 \in Nat /\ 3 # 0 /\ 1 \in Nat /\ 1 # 0
    OBVIOUS
  <2> HIDE DEF C
  <2> QED
    BY <1>2, <1>3, <1>5, <2>2, <2>3, Zenon DEF ReadTurn
<1> QED
  BY <1>4, <1>5

LEMMA UnescapeRun ==
    ASSUME NEW e \in Seq(EscapedChars)
    PROVE  \E f : /\ Unescape(e) = f[Len(e)].out
                  /\ f[0] = [pos |-> 1, out |-> <<>>]
                  /\ \A n \in 1 .. Len(e) : f[n] = ReadTurn(f[n - 1], e)
<1> DEFINE m == Len(e)
           x == [pos |-> 1, out |-> <<>>]
           F == [p \in (1 .. m) \X Reading |-> ReadTurn(p[2], e)]
           Def(g) == g = [n \in 0 .. m |-> IF n = 0 THEN x ELSE ReadTurn(g[n - 1], e)]
           f == CHOOSE g : Def(g)
<1>1. m \in Nat /\ x \in Reading
  BY DEF Reading
<1>2. F \in Turns(m, Reading)
  BY ReadTurnType DEF Turns
<1> HIDE DEF x
<1>4. PICK g : RunOf(g, m, Reading, x, F)
  <2> HIDE DEF F, m
  <2> QED
    BY <1>1, <1>2, Loop
<1>5. g \in [0 .. m -> Reading] /\ g[0] = x /\ \A n \in 1 .. m : g[n] = F[<<n, g[n - 1]>>]
  BY <1>4 DEF RunOf
<1>6. \A n \in 1 .. m : g[n] = ReadTurn(g[n - 1], e)
  <2> SUFFICES ASSUME NEW n \in 1 .. m PROVE g[n] = ReadTurn(g[n - 1], e)
    OBVIOUS
  <2>1. n - 1 \in 0 .. m
    BY <1>1
  <2>2. g[n - 1] \in Reading
    BY <1>5, <2>1
  <2>3. F[<<n, g[n - 1]>>] = ReadTurn(g[n - 1], e)
    BY <2>2
  <2> HIDE DEF F
  <2> QED
    BY <1>5, <2>3
<1>7. Def(g)
  <2> HIDE DEF F, m
  <2> QED
    BY <1>1, <1>5, <1>6
<1>8. Def(f)
  BY <1>7
<1>9. Unescape(e) = f[m].out
  BY DEF Unescape, x
<1> HIDE DEF f
<1>10. f[0] = x /\ \A n \in 1 .. m : f[n] = ReadTurn(f[n - 1], e)
  <2> HIDE DEF m
  <2> QED
    BY <1>1, <1>8
<1> QED
  BY <1>9, <1>10 DEF x

LEMMA NameIsBack ==
    ASSUME NEW name \in Seq(NameChars)
    PROVE  /\ \A i \in DOMAIN escape_saslname(name) : escape_saslname(name)[i] # "comma"
           /\ Unescape(escape_saslname(name)) = name
<1> DEFINE m == Len(name)
           e == escape_saslname(name)
<1>1. PICK f : /\ e = f[m] /\ f[0] = <<>>
               /\ \A n \in 1 .. m : f[n] = f[n - 1] \o Escape(name[n])
  BY EscapeRun
<1>2. m \in Nat /\ \A n \in 1 .. m : name[n] \in NameChars
  OBVIOUS
<1>3. EscapedTo(f, name, m)
  <2> DEFINE T == {n \in Nat : n <= m => EscapedTo(f, name, n)}
  <2>1. 0 \in T
    <3>1. f[0] \in Seq(EscapedChars) /\ Len(f[0]) = 0 /\ 1 .. 0 = {}
      BY <1>1
    <3>2. EscapedTo(f, name, 0)
      BY <3>1 DEF EscapedTo
    <3> QED
      BY <3>2
  <2>2. ASSUME NEW k \in T PROVE k + 1 \in T
    <3> SUFFICES ASSUME k + 1 <= m PROVE EscapedTo(f, name, k + 1)
      OBVIOUS
    <3>1. k + 1 \in 1 .. m /\ (k + 1) - 1 = k /\ EscapedTo(f, name, k)
      BY <1>2
    <3>2. f[k + 1] = f[(k + 1) - 1] \o Escape(name[k + 1])
      BY <1>1, <3>1
    <3>3. \E n \in 1 .. Len(name) : n = k + 1 /\ EscapedTo(f, name, n - 1)
            /\ f[n] = f[n - 1] \o Escape(name[n])
      BY <3>1, <3>2
    <3> QED
      BY <3>3, EscapedStep, Zenon
  <2> HIDE DEF T
  <2>3. m \in T
    BY <1>2, <2>1, <2>2, SetInduction
  <2> QED
    BY <1>2, <2>3 DEF T
<1>4. /\ e \in Seq(EscapedChars) /\ Len(e) \in Nat /\ Len(e) >= m
      /\ \A i \in 1 .. Len(e) : e[i] # "comma"
  BY <1>1, <1>3 DEF EscapedTo
<1>5. ASSUME NEW j \in 1 .. m
      PROVE  /\ Len(f[j - 1]) \in Nat
             /\ Len(f[j]) = Len(f[j - 1]) + Len(Escape(name[j]))
             /\ Len(f[j]) <= Len(e)
             /\ \A i \in 1 .. Len(Escape(name[j])) : e[Len(f[j - 1]) + i] = Escape(name[j])[i]
  BY <1>1, <1>3 DEF EscapedTo
<1> HIDE DEF e
<1>6. PICK g : /\ Unescape(e) = g[Len(e)].out
               /\ g[0] = [pos |-> 1, out |-> <<>>]
               /\ \A n \in 1 .. Len(e) : g[n] = ReadTurn(g[n - 1], e)
  BY <1>4, UnescapeRun
<1> DEFINE ReadTo(n) == [pos |-> Len(f[n]) + 1, out |-> SubSeq(name, 1, n)]
<1>7. ASSUME NEW j \in 1 .. m, g[j - 1] = ReadTo(j - 1) PROVE g[j] = ReadTo(j)
  <2> DEFINE l == Len(f[j - 1])
             c == name[j]
             b == Escape(c)
             s == ReadTo(j - 1)
  <2>1. c \in NameChars
    BY <1>2
  <2>2. /\ l \in Nat /\ Len(f[j]) = l + Len(b) /\ l + Len(b) <= Len(e)
        /\ \A i \in 1 .. Len(b) : e[l + i] = b[i]
    BY <1>5
  <2>3. /\ c = "comma" => b = <<"=", "2", "C">>
        /\ c = "=" => b = <<"=", "3", "D">>
        /\ c \notin {"comma", "="} => b = <<c>>
    BY <2>1, EscapeIs
  <2>4. g[j] = ReadTurn(s, e)
    BY <1>4, <1>6, <1>7
  <2>5. s.pos = l + 1 /\ s.out = SubSeq(name, 1, j - 1)
    OBVIOUS
  <2>6. Append(SubSeq(name, 1, j - 1), c) = SubSeq(name, 1, j)
    OBVIOUS
  <2> HIDE DEF l, b, s, c
  <2>7. ASSUME l + 1 <= Len(e) PROVE ~(s.pos > Len(e)) /\ s.pos \in 1 .. Len(e)
    BY <1>4, <2>2, <2>5, <2>7
  <2>8. CASE c = "comma"
    <3>1. Len(b) = 3 /\ b[1] = "=" /\ b[2] = "2" /\ b[3] = "C"
      BY <2>3, <2>8
    <3>2. e[l + 1] = "=" /\ e[l + 2] = "2" /\ e[l + 3] = "C" /\ l + 3 <= Len(e)
      BY <2>2, <3>1
    <3>3. s.pos + 2 <= Len(e) /\ e[s.pos] = "=" /\ e[s.pos + 1] = "2" /\ e[s.pos + 2] = "C"
          /\ l + 1 <= Len(e)
      BY <1>4, <2>2, <2>5, <3>2
    <3>4. At3(e, s.pos, <<"=", "2", "C">>)
      BY <1>4, <2>7, <3>3, Three3
    <3>5. g[j] = [pos |-> s.pos + 3, out |-> Append(s.out, "comma")]
      BY <2>4, <2>7, <3>3, <3>4, Zenon DEF ReadTurn
    <3>6. s.pos + 3 = Len(f[j]) + 1
      BY <2>2, <2>5, <3>1
    <3> QED
      BY <2>5, <2>6, <2>8, <3>5, <3>6, Zenon
  <2>9. CASE c = "="
    <3>1. Len(b) = 3 /\ b[1] = "=" /\ b[2] = "3" /\ b[3] = "D"
      BY <2>3, <2>9
    <3>2. e[l + 1] = "=" /\ e[l + 2] = "3" /\ e[l + 3] = "D" /\ l + 3 <= Len(e)
      BY <2>2, <3>1
    <3>3. s.pos + 2 <= Len(e) /\ e[s.pos] = "=" /\ e[s.pos + 1] = "3" /\ e[s.pos + 2] = "D"
          /\ l + 1 <= Len(e)
      BY <1>4, <2>2, <2>5, <3>2
    <3>4. At3(e, s.pos, <<"=", "3", "D">>)
      BY <1>4, <2>7, <3>3, Three3
    <3>a. ~At3(e, s.pos, <<"=", "2", "C">>)
      <4>1. At3(e, s.pos, <<"=", "2", "C">>) => e[s.pos + 1] = "2"
        BY <1>4, <2>7, <3>3, Three3
      <4> QED
        BY <3>3, <4>1
    <3>5. g[j] = [pos |-> s.pos + 3, out |-> Append(s.out, "=")]
      BY <2>4, <2>7, <3>3, <3>4, <3>a, Zenon DEF ReadTurn
    <3>6. s.pos + 3 = Len(f[j]) + 1
      BY <2>2, <2>5, <3>1
    <3> QED
      BY <2>5, <2>6, <2>9, <3>5, <3>6, Zenon
  <2>10. CASE c \notin {"comma", "="}
    <3>1. Len(b) = 1 /\ b[1] = c
      BY <2>3, <2>10
    <3>2. e[l + 1] = c /\ l + 1 <= Len(e)
      BY <2>2, <3>1
    <3>3. e[s.pos] = c /\ c # "="
      BY <2>5, <2>10, <3>2
    <3>4. ~At3(e, s.pos, <<"=", "2", "C">>) /\ ~At3(e, s.pos, <<"=", "3", "D">>)
      <4>1. At3(e, s.pos, <<"=", "2", "C">>) => e[s.pos] = "="
        BY <1>4, <2>7, <3>2, Three3
      <4>2. At3(e, s.pos, <<"=", "3", "D">>) => e[s.pos] = "="
        BY <1>4, <2>7, <3>2, Three3
      <4> QED
        BY <3>3, <4>1, <4>2
    <3>5. g[j] = [pos |-> s.pos + 1, out |-> Append(s.out, c)]
      BY <2>4, <2>7, <3>2, <3>3, <3>4, Zenon DEF ReadTurn
    <3>6. s.pos + 1 = Len(f[j]) + 1
      BY <2>2, <2>5, <3>1
    <3> QED
      BY <2>5, <2>6, <3>5, <3>6, Zenon
  <2> QED
    BY <2>8, <2>9, <2>10
<1>8. g[m] = ReadTo(m)
  <2> DEFINE T == {n \in Nat : n <= m => g[n] = ReadTo(n)}
  <2>1. 0 \in T
    BY <1>1, <1>6
  <2>2. ASSUME NEW k \in T PROVE k + 1 \in T
    <3>1. k \in Nat
      OBVIOUS
    <3>2. (k + 1) - 1 = k
      BY <3>1
    <3> HIDE DEF ReadTo
    <3>3. k + 1 <= m => k + 1 \in 1 .. m /\ g[(k + 1) - 1] = ReadTo((k + 1) - 1)
      BY <1>2, <3>1, <3>2
    <3>4. k + 1 <= m => g[k + 1] = ReadTo(k + 1)
      BY <1>7, <3>3, Zenon
    <3> QED
      BY <3>1, <3>4
  <2> HIDE DEF T, ReadTo
  <2>3. m \in T
    BY <1>2, <2>1, <2>2, SetInduction
  <2> QED
    BY <1>2, <2>3 DEF T
<1>9. g[Len(e)] = ReadTo(m)
  <2> DEFINE T == {n \in Nat : m + n <= Len(e) => g[m + n] = ReadTo(m)}
  <2>0. ReadTo(m).pos > Len(e)
    BY <1>1, <1>4 DEF e
  <2> HIDE DEF ReadTo
  <2>1. 0 \in T
    BY <1>2, <1>8
  <2>2. ASSUME NEW k \in T PROVE k + 1 \in T
    <3> SUFFICES ASSUME m + (k + 1) <= Len(e) PROVE g[m + (k + 1)] = ReadTo(m)
      OBVIOUS
    <3>1. m + k <= Len(e) /\ m + (k + 1) \in 1 .. Len(e) /\ (m + (k + 1)) - 1 = m + k
      BY <1>2, <1>4
    <3>2. g[m + (k + 1)] = ReadTurn(g[m + k], e)
      BY <1>6, <3>1
    <3>3. g[m + k] = ReadTo(m)
      BY <3>1
    <3> QED
      BY <2>0, <3>2, <3>3 DEF ReadTurn
  <2> HIDE DEF T
  <2>3. Len(e) - m \in Nat /\ m + (Len(e) - m) = Len(e)
    BY <1>2, <1>4
  <2>4. Len(e) - m \in T
    BY <2>1, <2>2, <2>3, SetInduction
  <2> QED
    BY <2>3, <2>4 DEF T
<1>10. SubSeq(name, 1, m) = name
  OBVIOUS
<1> QED
  BY <1>4, <1>6, <1>9, <1>10 DEF e

(* Whatever the user name, escape_saslname leaves no comma in it, and      *)
(* reading the escapes back gives the name.                                *)
THEOREM NamesSurvive == InputSpec => []NameSurvives
<1>1. InputOK => NameSurvives
  <2> SUFFICES ASSUME InputOK, kind = "name" PROVE NameSurvives
    BY DEF NameSurvives
  <2>1. one \in Seq(NameChars)
    BY DEF InputOK
  <2>2. /\ \A i \in DOMAIN escape_saslname(one) : escape_saslname(one)[i] # "comma"
        /\ Unescape(escape_saslname(one)) = one
    BY <2>1, NameIsBack
  <2> QED
    BY <2>2 DEF NameSurvives, Contains
<1> QED
  BY <1>1, InputType, PTL

---------------------------------------------------------------------------
(* The queue id: where a long enough token stands behind a marker, and     *)
(* what the search for a marker may have found.                            *)
LongHits(text, marker) ==
    {q \in Hits(text, marker, 1) : Chars(TokenAt(text, q + Len(marker))) >= 6}
LongTokens(text, marker) == {TokenAt(text, p + Len(marker)) : p \in LongHits(text, marker)}
Searching(text, marker) ==
    [idx : Nat \ {0}, id : {<<>>} \union {<<t>> : t \in LongTokens(text, marker)}]

LEMMA SearchTurn ==
    ASSUME NEW text, Len(text) \in Nat, NEW marker, Len(marker) \in Nat,
           NEW s \in Searching(text, marker)
    PROVE  ScanTurn(s, text, marker) \in Searching(text, marker)
<1> DEFINE hits == Hits(text, marker, s.idx)
           p == Min(hits)
           start == p + Len(marker)
           token == TokenAt(text, start)
<1>1. s.idx \in Nat /\ s.idx # 0 /\ s = [idx |-> s.idx, id |-> s.id]
      /\ s.id \in {<<>>} \union {<<t>> : t \in LongTokens(text, marker)}
  BY DEF Searching
<1>2. CASE s.id # <<>> \/ hits = {}
  BY <1>2 DEF ScanTurn
<1>3. CASE s.id = <<>> /\ hits # {}
  <2>1. hits \subseteq Nat /\ hits \subseteq Hits(text, marker, 1)
    BY <1>1 DEF Hits
  <2>2. p \in hits
    <3> HIDE DEF hits
    <3> QED
      BY <1>3, <2>1, MinExists
  <2>3. start \in Nat \ {0} /\ p \in Hits(text, marker, 1)
    <3>1. p \in Nat /\ p # 0
      <4>1. \A q \in hits : q \in Nat /\ q # 0
        BY <1>1 DEF Hits
      <4> HIDE DEF hits
      <4> QED
        BY <2>2, <4>1
    <3> QED
      BY <2>1, <2>2, <3>1
  <2> HIDE DEF hits, p
  <2>4. CASE Chars(token) >= 6
    <3>1. token \in LongTokens(text, marker)
      BY <2>3, <2>4 DEF LongTokens, LongHits
    <3>2. ScanTurn(s, text, marker) = [s EXCEPT !.id = <<token>>]
      BY <1>3, <2>4, Zenon DEF ScanTurn, hits, p
    <3> HIDE DEF token
    <3> QED
      BY <1>1, <3>1, <3>2 DEF Searching
  <2>5. CASE ~(Chars(token) >= 6)
    <3>1. ScanTurn(s, text, marker) = [s EXCEPT !.idx = start]
      BY <1>3, <2>5, Zenon DEF ScanTurn, hits, p
    <3> HIDE DEF start
    <3> QED
      BY <1>1, <2>3, <3>1 DEF Searching
  <2> QED
    BY <2>4, <2>5
<1> QED
  BY <1>2, <1>3

(* The run of the search.                                                  *)
IsSearch(f, text, marker) ==
    /\ f[0] = [idx |-> 1, id |-> <<>>]
    /\ \A n \in 1 .. Len(text) : f[n] = ScanTurn(f[n - 1], text, marker)
    /\ \A n \in 0 .. Len(text) : f[n] \in Searching(text, marker)
    /\ scan_after(text, marker) = f[Len(text)].id

LEMMA SearchRuns ==
    ASSUME NEW text, Len(text) \in Nat, NEW marker, Len(marker) \in Nat
    PROVE  \E f : IsSearch(f, text, marker)
<1> DEFINE m == Len(text)
           S == Searching(text, marker)
           x == [idx |-> 1, id |-> <<>>]
           F == [q \in (1 .. m) \X S |-> ScanTurn(q[2], text, marker)]
           Def(g) == g = [n \in 0 .. m |-> IF n = 0 THEN x ELSE ScanTurn(g[n - 1], text, marker)]
           f == CHOOSE g : Def(g)
<1>1. m \in Nat /\ x \in S
  BY DEF Searching
<1>2. F \in Turns(m, S)
  BY SearchTurn DEF Turns
<1> HIDE DEF x
<1>3. PICK g : RunOf(g, m, S, x, F)
  <2> HIDE DEF F, m, S
  <2> QED
    BY <1>1, <1>2, Loop
<1>4. g \in [0 .. m -> S] /\ g[0] = x /\ \A n \in 1 .. m : g[n] = F[<<n, g[n - 1]>>]
  BY <1>3 DEF RunOf
<1>5. \A n \in 1 .. m : g[n] = ScanTurn(g[n - 1], text, marker)
  <2> SUFFICES ASSUME NEW n \in 1 .. m PROVE g[n] = ScanTurn(g[n - 1], text, marker)
    OBVIOUS
  <2>1. n - 1 \in 0 .. m
    BY <1>1
  <2>2. g[n - 1] \in S
    BY <1>4, <2>1
  <2> HIDE DEF S
  <2>3. F[<<n, g[n - 1]>>] = ScanTurn(g[n - 1], text, marker)
    BY <2>2
  <2> HIDE DEF F
  <2> QED
    BY <1>4, <2>3
<1>6. Def(g)
  <2> HIDE DEF F, m, S
  <2> QED
    BY <1>1, <1>4, <1>5
<1>7. Def(f)
  BY <1>6
<1>8. scan_after(text, marker) = f[m].id
  BY DEF scan_after, x
<1> HIDE DEF f
<1>9. f[0] = x /\ \A n \in 1 .. m : f[n] = ScanTurn(f[n - 1], text, marker)
  <2> HIDE DEF m
  <2> QED
    BY <1>1, <1>7
<1>10. \A n \in Nat : n <= m => f[n] \in S
  <2> DEFINE T == {n \in Nat : n <= m => f[n] \in S}
  <2>1. 0 \in T
    BY <1>1, <1>9
  <2>2. ASSUME NEW k \in T PROVE k + 1 \in T
    <3> SUFFICES ASSUME k + 1 <= m PROVE f[k + 1] \in S
      OBVIOUS
    <3>1. k + 1 \in 1 .. m /\ (k + 1) - 1 = k /\ f[k] \in S
      BY <1>1
    <3>2. f[k + 1] = ScanTurn(f[k], text, marker)
      BY <1>9, <3>1
    <3> QED
      BY <3>1, <3>2, SearchTurn
  <2> HIDE DEF T
  <2>3. Nat \subseteq T
    BY <2>1, <2>2, SetInduction
  <2> QED
    BY <2>3 DEF T
<1>11. IsSearch(f, text, marker)
  <2> HIDE DEF S
  <2>1. \A n \in 0 .. m : f[n] \in S
    BY <1>1, <1>10
  <2> QED
    BY <1>8, <1>9, <2>1 DEF IsSearch, x, S
<1> QED
  BY <1>11

LEMMA FoundIsLong ==
    ASSUME NEW text, Len(text) \in Nat, NEW marker, Len(marker) \in Nat,
           scan_after(text, marker) # <<>>
    PROVE  \E t \in LongTokens(text, marker) : scan_after(text, marker) = <<t>>
<1>1. PICK f : IsSearch(f, text, marker)
  BY SearchRuns
<1>2. f[Len(text)] \in Searching(text, marker)
  BY <1>1 DEF IsSearch
<1> QED
  BY <1>1, <1>2 DEF IsSearch, Searching

(* Two places of a marker never share a character.                         *)
NoOverlap(text, marker) ==
    \A p, q \in Hits(text, marker, 1) : p < q => p + Len(marker) <= q

(* The search has passed over no long token, and when it stops at one it   *)
(* is the first.                                                           *)
NothingMissed(s, text, marker) ==
    IF s.id = <<>> THEN \A q \in LongHits(text, marker) : s.idx <= q
    ELSE \E p \in LongHits(text, marker) :
            /\ s.id = <<TokenAt(text, p + Len(marker))>>
            /\ \A q \in LongHits(text, marker) : p <= q

LEMMA MissesNothing ==
    ASSUME NEW text, Len(text) \in Nat, NEW marker, Len(marker) \in Nat \ {0},
           NoOverlap(text, marker),
           NEW s \in Searching(text, marker), NothingMissed(s, text, marker)
    PROVE  LET t == ScanTurn(s, text, marker)
           IN /\ NothingMissed(t, text, marker)
              /\ t.id # <<>> \/ t.idx > s.idx \/ Hits(text, marker, t.idx) = {}
<1> DEFINE L == LongHits(text, marker)
           hits == Hits(text, marker, s.idx)
           p == Min(hits)
           start == p + Len(marker)
           token == TokenAt(text, start)
           t == ScanTurn(s, text, marker)
<1>1. s.idx \in Nat /\ s.idx # 0 /\ s = [idx |-> s.idx, id |-> s.id]
  BY DEF Searching
<1>2. \A q \in L : q \in Nat /\ q \in Hits(text, marker, 1) /\ (s.idx <= q => q \in hits)
  BY <1>1 DEF LongHits, Hits
<1>3. CASE s.id # <<>> \/ hits = {}
  <2>1. t = s
    BY <1>3 DEF ScanTurn
  <2> HIDE DEF t, hits
  <2> QED
    BY <1>3, <2>1 DEF t, hits
<1>4. CASE s.id = <<>> /\ hits # {}
  <2>1. hits \subseteq Nat /\ \A q \in hits : q \in Hits(text, marker, 1) /\ s.idx <= q
    BY <1>1 DEF Hits
  <2>2. p \in hits /\ \A q \in hits : p <= q
    <3> HIDE DEF hits
    <3> QED
      BY <1>4, <2>1, MinExists
  <2>3. p \in Nat /\ p \in Hits(text, marker, 1) /\ s.idx <= p /\ start > p
    BY <2>1, <2>2
  <2>4. \A q \in L : p <= q
    BY <1>2, <1>4, <2>2 DEF NothingMissed
  <2> HIDE DEF hits, p, t, L
  <2>5. CASE Chars(token) >= 6
    <3>1. t = [s EXCEPT !.id = <<token>>]
      BY <1>4, <2>5, Zenon DEF ScanTurn, hits, p, t
    <3>2. p \in L
      BY <2>3, <2>5 DEF LongHits, L
    <3>3. t.id = <<token>> /\ t.id # <<>>
      <4> HIDE DEF token
      <4>1. t.id = <<token>>
        BY <1>1, <3>1
      <4> QED
        BY <4>1
    <3>4. \E r \in L : t.id = <<TokenAt(text, r + Len(marker))>> /\ \A q \in L : r <= q
      BY <2>4, <3>2, <3>3
    <3> QED
      BY <3>3, <3>4, Zenon DEF NothingMissed, L, t
  <2>6. CASE ~(Chars(token) >= 6)
    <3>1. t = [s EXCEPT !.idx = start]
      BY <1>4, <2>6, Zenon DEF ScanTurn, hits, p, t
    <3>2. p \notin L
      BY <2>6 DEF LongHits, L
    <3> HIDE DEF start
    <3>3. t.id = <<>> /\ t.idx = start
      BY <1>1, <1>4, <3>1
    <3>4. \A q \in L : start <= q
      <4> SUFFICES ASSUME NEW q \in L PROVE start <= q
        OBVIOUS
      <4>1. q \in Nat /\ q \in Hits(text, marker, 1) /\ p <= q /\ q # p
        BY <1>2, <2>4, <3>2
      <4>2. p < q
        BY <2>3, <4>1
      <4> QED
        BY <2>3, <4>1, <4>2 DEF NoOverlap, start
    <3>5. start > s.idx
      BY <1>1, <2>3 DEF start
    <3> QED
      BY <3>3, <3>4, <3>5 DEF NothingMissed, L, t
  <2> QED
    BY <2>5, <2>6
<1> QED
  BY <1>3, <1>4

(* So where markers do not overlap, the search finds the first long token. *)
LEMMA FirstLongIsFound ==
    ASSUME NEW text, Len(text) \in Nat, NEW marker, Len(marker) \in Nat \ {0},
           NoOverlap(text, marker)
    PROVE  LET id == scan_after(text, marker)
           IN IF id = <<>> THEN LongHits(text, marker) = {}
              ELSE \E p \in LongHits(text, marker) :
                      /\ id = <<TokenAt(text, p + Len(marker))>>
                      /\ \A q \in LongHits(text, marker) : p <= q
<1> DEFINE m == Len(text)
           L == LongHits(text, marker)
<1>1. PICK f : IsSearch(f, text, marker)
  BY SearchRuns
<1>2. /\ f[0] = [idx |-> 1, id |-> <<>>]
      /\ \A n \in 1 .. m : f[n] = ScanTurn(f[n - 1], text, marker)
      /\ \A n \in 0 .. m : f[n] \in Searching(text, marker)
      /\ scan_after(text, marker) = f[m].id
  BY <1>1 DEF IsSearch
<1>3. \A q \in L : q \in Nat /\ 1 <= q /\ q <= m /\ q \in Hits(text, marker, q)
  BY DEF LongHits, Hits
<1>4. ASSUME NEW i \in Nat, NEW j \in Nat, i <= j, Hits(text, marker, i) = {}
      PROVE  Hits(text, marker, j) = {}
  BY <1>4 DEF Hits
<1> DEFINE Fine(n) == /\ NothingMissed(f[n], text, marker)
                      /\ \/ f[n].id # <<>> \/ f[n].idx > n
                         \/ Hits(text, marker, f[n].idx) = {}
           T == {n \in Nat : n <= m => Fine(n)}
<1>5. 0 \in T
  <2>1. f[0].idx = 1 /\ f[0].id = <<>>
    BY <1>2
  <2> QED
    BY <1>3, <2>1 DEF NothingMissed
<1>6. ASSUME NEW k \in T PROVE k + 1 \in T
  <2> SUFFICES ASSUME k + 1 <= m PROVE Fine(k + 1)
    OBVIOUS
  <2>1. k \in Nat /\ k + 1 \in 1 .. m /\ (k + 1) - 1 = k /\ k \in 0 .. m /\ Fine(k)
    OBVIOUS
  <2>2. f[k + 1] = ScanTurn(f[k], text, marker) /\ f[k] \in Searching(text, marker)
    BY <1>2, <2>1
  <2>3. f[k + 1] \in Searching(text, marker)
    BY <1>2, <2>1
  <2>4. f[k].idx \in Nat /\ f[k + 1].idx \in Nat
    BY <2>2, <2>3 DEF Searching
  <2>5. /\ NothingMissed(f[k + 1], text, marker)
        /\ \/ f[k + 1].id # <<>> \/ f[k + 1].idx > f[k].idx
           \/ Hits(text, marker, f[k + 1].idx) = {}
    BY <2>1, <2>2, MissesNothing
  <2>6. f[k].id # <<>> \/ Hits(text, marker, f[k].idx) = {} => f[k + 1] = f[k]
    BY <2>2 DEF ScanTurn
  <2>7. CASE f[k].id # <<>> \/ Hits(text, marker, f[k].idx) = {}
    BY <2>1, <2>5, <2>6, <2>7
  <2>8. CASE f[k].idx > k /\ f[k].id = <<>>
    BY <2>1, <2>4, <2>5, <2>8
  <2> QED
    BY <2>1, <2>7, <2>8
<1>7. Fine(m)
  <2> HIDE DEF T
  <2>1. m \in T
    BY <1>5, <1>6, SetInduction
  <2> QED
    BY <2>1 DEF T
<1>8. CASE f[m].id # <<>>
  BY <1>2, <1>7, <1>8 DEF NothingMissed
<1>9. CASE f[m].id = <<>>
  <2>1. \A q \in L : f[m].idx <= q
    BY <1>7, <1>9 DEF NothingMissed
  <2>2. f[m].idx \in Nat
    BY <1>2 DEF Searching
  <2>3. L = {}
    <3> SUFFICES ASSUME NEW q \in L PROVE FALSE
      OBVIOUS
    <3>1. f[m].idx <= q /\ q \in Nat /\ q <= m /\ q \in Hits(text, marker, q)
      BY <1>3, <2>1
    <3> QED
      BY <1>4, <1>7, <1>9, <2>2, <3>1
  <2> QED
    BY <1>2, <1>9, <2>3
<1> QED
  BY <1>8, <1>9

(* Neither "queued as " nor " id=" can begin in one of its own kind.       *)
LEMMA NoneOverlap ==
    ASSUME NEW text \in Seq(ReplyChars)
    PROVE  NoOverlap(text, Markers[1]) /\ NoOverlap(text, Markers[2])
<1>1. ASSUME NEW marker \in Seq(ReplyChars), NEW p \in Hits(text, marker, 1)
      PROVE  p \in Nat /\ \A k \in 1 .. Len(marker) : text[(p + k) - 1] = marker[k]
  <2>1. /\ p \in Nat /\ p >= 1 /\ p + Len(marker) - 1 <= Len(text)
        /\ SubSeq(text, p, p + Len(marker) - 1) = marker
    BY <1>1 DEF Hits
  <2> SUFFICES ASSUME NEW k \in 1 .. Len(marker) PROVE text[(p + k) - 1] = marker[k]
    BY <2>1
  <2>2. SubSeq(text, p, p + Len(marker) - 1)[k] = text[(p + k) - 1]
    BY <2>1
  <2> QED
    BY <2>1, <2>2
<1>2. NoOverlap(text, Markers[1])
  <2> DEFINE M == Markers[1]
  <2>1. /\ M \in Seq(ReplyChars) /\ Len(M) = 4
        /\ M[1] = "queued" /\ M[2] = "SP" /\ M[3] = "as" /\ M[4] = "SP"
    BY DEF Markers, ReplyChars, IdChars
  <2> HIDE DEF M
  <2>a. ASSUME NEW r \in Hits(text, M, 1)
        PROVE  r \in Nat /\ \A k \in 1 .. 4 : text[(r + k) - 1] = M[k]
    BY <1>1, <2>1
  <2> SUFFICES ASSUME NEW p \in Hits(text, M, 1), NEW q \in Hits(text, M, 1),
                      p < q, ~(p + 4 <= q)
               PROVE  FALSE
    BY <2>1 DEF NoOverlap, M
  <2>2. p \in Nat /\ q \in Nat /\ text[q] = "queued"
    <3>1. q \in Nat /\ text[(q + 1) - 1] = M[1] /\ p \in Nat
      BY <2>a
    <3>2. (q + 1) - 1 = q
      BY <3>1
    <3> QED
      BY <2>1, <3>1, <3>2
  <2>3. text[p + 1] = "SP" /\ text[p + 2] = "as" /\ text[p + 3] = "SP"
    <3>1. text[(p + 2) - 1] = M[2] /\ text[(p + 3) - 1] = M[3] /\ text[(p + 4) - 1] = M[4]
      BY <2>a
    <3>2. (p + 2) - 1 = p + 1 /\ (p + 3) - 1 = p + 2 /\ (p + 4) - 1 = p + 3
      BY <2>2
    <3> QED
      BY <2>1, <3>1, <3>2
  <2>4. q = p + 1 \/ q = p + 2 \/ q = p + 3
    BY <2>2
  <2> QED
    BY <2>2, <2>3, <2>4
<1>3. NoOverlap(text, Markers[2])
  <2> DEFINE M == Markers[2]
  <2>1. /\ M \in Seq(ReplyChars) /\ Len(M) = 3
        /\ M[1] = "SP" /\ M[2] = "id" /\ M[3] = "="
    BY DEF Markers, ReplyChars, IdChars
  <2> HIDE DEF M
  <2>a. ASSUME NEW r \in Hits(text, M, 1)
        PROVE  r \in Nat /\ \A k \in 1 .. 3 : text[(r + k) - 1] = M[k]
    BY <1>1, <2>1
  <2> SUFFICES ASSUME NEW p \in Hits(text, M, 1), NEW q \in Hits(text, M, 1),
                      p < q, ~(p + 3 <= q)
               PROVE  FALSE
    BY <2>1 DEF NoOverlap, M
  <2>2. p \in Nat /\ q \in Nat /\ text[q] = "SP"
    <3>1. q \in Nat /\ text[(q + 1) - 1] = M[1] /\ p \in Nat
      BY <2>a
    <3>2. (q + 1) - 1 = q
      BY <3>1
    <3> QED
      BY <2>1, <3>1, <3>2
  <2>3. text[p + 1] = "id" /\ text[p + 2] = "="
    <3>1. text[(p + 2) - 1] = M[2] /\ text[(p + 3) - 1] = M[3]
      BY <2>a
    <3>2. (p + 2) - 1 = p + 1 /\ (p + 3) - 1 = p + 2
      BY <2>2
    <3> QED
      BY <2>1, <3>1, <3>2
  <2>4. q = p + 1 \/ q = p + 2
    BY <2>2
  <2> QED
    BY <2>2, <2>3, <2>4
<1> QED
  BY <1>2, <1>3

(* A queue id is a long enough token right behind a marker, the first such *)
(* of the first kind of marker that has one, and none is lost behind       *)
(* "queued as " or " id=" (extract_queue_id).                              *)
THEOREM QueueIdsAreReal == InputSpec => []QueueIdIsReal
<1>1. InputOK => QueueIdIsReal
  <2> DEFINE text == one[1]
             Scan(i) == scan_after(text, Markers[i])
             id == extract_queue_id(text)
             found == {i \in DOMAIN Markers : Scan(i) # <<>>}
             First(i, p) == \A q \in LongAt(i) : p <= q
  <2> SUFFICES ASSUME InputOK, kind = "final"
               PROVE  IF id = <<>> THEN LongAt(1) = {} /\ LongAt(2) = {}
                      ELSE \E i \in DOMAIN Markers : \E p \in LongAt(i) :
                              /\ id[1] = Behind(i, p)
                              /\ \A j \in 1 .. i - 1 : LongAt(j) = {}
                              /\ i # 3 => First(i, p)
    BY DEF QueueIdIsReal
  <2>1. text \in Seq(ReplyChars) /\ Len(text) \in Nat
    <3>1. one \in Seq(Seq(ReplyChars)) /\ one # <<>>
      BY DEF InputOK
    <3>2. 1 \in 1 .. Len(one)
      BY <3>1, EmptySeq
    <3>3. text \in Seq(ReplyChars)
      BY <3>1, <3>2
    <3> QED
      BY <3>3
  <2>2. DOMAIN Markers = 1 .. 3 /\ \A i \in 1 .. 3 : Len(Markers[i]) \in Nat \ {0}
    BY DEF Markers
  <2>3. \A i : LongAt(i) = LongHits(text, Markers[i])
    BY DEF LongAt, LongHits, Behind
  <2>4. \A i, p : Behind(i, p) = TokenAt(text, p + Len(Markers[i]))
    BY DEF Behind
  <2> HIDE DEF text
  <2>5. ASSUME NEW i \in {1, 2}
        PROVE  IF Scan(i) = <<>> THEN LongAt(i) = {}
               ELSE \E p \in LongAt(i) : Scan(i) = <<Behind(i, p)>> /\ First(i, p)
    <3>1. NoOverlap(text, Markers[i]) /\ Len(Markers[i]) \in Nat \ {0}
      BY <2>1, <2>2, NoneOverlap
    <3> QED
      BY <2>1, <2>3, <2>4, <3>1, FirstLongIsFound
  <2>6. Scan(3) # <<>> => \E p \in LongAt(3) : Scan(3) = <<Behind(3, p)>>
    <3> SUFFICES ASSUME Scan(3) # <<>> PROVE \E p \in LongAt(3) : Scan(3) = <<Behind(3, p)>>
      OBVIOUS
    <3>1. Len(Markers[3]) \in Nat
      BY <2>2
    <3>2. PICK t \in LongTokens(text, Markers[3]) : Scan(3) = <<t>>
      BY <2>1, <3>1, FoundIsLong
    <3> QED
      BY <2>3, <2>4, <3>2 DEF LongTokens
  <2>7. id = IF found = {} THEN <<>> ELSE Scan(Min(found))
    BY DEF extract_queue_id
  <2> HIDE DEF id, Scan, First
  <2>8. CASE found = {}
    <3>1. id = <<>> /\ Scan(1) = <<>> /\ Scan(2) = <<>>
      BY <2>2, <2>7, <2>8
    <3> QED
      BY <2>5, <3>1
  <2>9. CASE found # {}
    <3>1. Min(found) \in found /\ \A y \in found : Min(found) <= y
      <4>1. found \subseteq Nat
        BY <2>2
      <4> HIDE DEF found
      <4> QED
        BY <2>9, <4>1, MinExists
    <3> DEFINE i == Min(found)
    <3>2. i \in 1 .. 3 /\ Scan(i) # <<>> /\ id = Scan(i)
      BY <2>2, <2>7, <2>9, <3>1
    <3>3. \A j \in 1 .. 3 : Scan(j) # <<>> => i <= j
      BY <2>2, <3>1
    <3> HIDE DEF i, found
    <3>4. \A j \in 1 .. i - 1 : LongAt(j) = {}
      <4> SUFFICES ASSUME NEW j \in 1 .. i - 1 PROVE LongAt(j) = {}
        OBVIOUS
      <4>1. j \in {1, 2} /\ j \in 1 .. 3 /\ ~(i <= j)
        BY <3>2
      <4>2. Scan(j) = <<>>
        BY <3>3, <4>1
      <4> QED
        BY <2>5, <4>1, <4>2
    <3>5. \E p \in LongAt(i) : id = <<Behind(i, p)>> /\ (i # 3 => First(i, p))
      <4>1. CASE i = 3
        BY <2>6, <3>2, <4>1
      <4>2. CASE i \in {1, 2}
        BY <2>5, <3>2, <4>2
      <4> QED
        BY <3>2, <4>1, <4>2
    <3>6. PICK p \in LongAt(i) : id = <<Behind(i, p)>> /\ (i # 3 => First(i, p))
      BY <3>5
    <3>7. id # <<>> /\ id[1] = Behind(i, p)
      BY <3>6
    <3> QED
      BY <2>2, <3>2, <3>4, <3>6, <3>7
  <2> QED
    BY <2>8, <2>9 DEF First
<1> QED
  BY <1>1, InputType, PTL

---------------------------------------------------------------------------
(* Enhanced status codes: a digit, and a number.                           *)
LEMMA DigitValue ==
    ASSUME NEW d \in Digits
    PROVE  Value(d) \in Nat
<1>1. DOMAIN Numerals = 1 .. 10
  BY DEF Numerals
<1>2. \E i \in 1 .. 10 : Numerals[i] = d
  BY <1>1 DEF Digits, Range
<1>3. PICK i \in 1 .. 10 : i = CHOOSE j \in DOMAIN Numerals : Numerals[j] = d
  BY <1>1, <1>2, Zenon
<1>4. Value(d) = i - 1
  BY <1>3 DEF Value
<1> QED
  BY <1>4

LEMMA ClassValue ==
    ASSUME NEW d \in {"2", "4", "5"}
    PROVE  Value(d) \in {2, 4, 5} /\ d \in Digits
<1>1. DOMAIN Numerals = 1 .. 10
  BY DEF Numerals
<1>2. Numerals[3] = "2" /\ Numerals[5] = "4" /\ Numerals[6] = "5"
  BY DEF Numerals
<1>3. \A i \in 1 .. 10 : /\ Numerals[i] = "2" => i = 3
                         /\ Numerals[i] = "4" => i = 5
                         /\ Numerals[i] = "5" => i = 6
  BY DEF Numerals
<1>4. 3 \in 1 .. 10 /\ 5 \in 1 .. 10 /\ 6 \in 1 .. 10
  OBVIOUS
<1>5. PICK i : i = CHOOSE j \in DOMAIN Numerals : Numerals[j] = d
  OBVIOUS
<1>6. i \in 1 .. 10 /\ Numerals[i] = d
  BY <1>1, <1>2, <1>4, <1>5, Zenon
<1>7. i \in {3, 5, 6}
  BY <1>3, <1>6
<1>8. Value(d) = i - 1
  BY <1>5 DEF Value
<1>9. d \in Digits
  BY <1>1, <1>6 DEF Digits, Range
<1> QED
  BY <1>7, <1>8, <1>9

LEMMA NumberType ==
    ASSUME NEW u \in Seq(Digits)
    PROVE  Number(u) \in Nat
<1> DEFINE m == Len(u)
           F == [p \in (1 .. m) \X Nat |-> 10 * p[2] + Value(u[p[1]])]
           Def(g) == g = [n \in 0 .. m |-> IF n = 0 THEN 0 ELSE 10 * g[n - 1] + Value(u[n])]
           f == CHOOSE g : Def(g)
<1>1. m \in Nat /\ \A n \in 1 .. m : Value(u[n]) \in Nat
  BY DigitValue
<1>2. F \in Turns(m, Nat)
  <2> HIDE DEF m
  <2> QED
    BY <1>1 DEF Turns
<1>3. PICK g : RunOf(g, m, Nat, 0, F)
  <2>1. 0 \in Nat
    OBVIOUS
  <2> HIDE DEF F, m
  <2> QED
    BY <1>1, <1>2, <2>1, Loop
<1>4. g \in [0 .. m -> Nat] /\ g[0] = 0 /\ \A n \in 1 .. m : g[n] = F[<<n, g[n - 1]>>]
  BY <1>3 DEF RunOf
<1>5. \A n \in 1 .. m : g[n] = 10 * g[n - 1] + Value(u[n])
  <2> SUFFICES ASSUME NEW n \in 1 .. m PROVE g[n] = 10 * g[n - 1] + Value(u[n])
    OBVIOUS
  <2>1. n - 1 \in 0 .. m
    BY <1>1
  <2>2. g[n - 1] \in Nat
    BY <1>4, <2>1
  <2>3. F[<<n, g[n - 1]>>] = 10 * g[n - 1] + Value(u[n])
    BY <2>2
  <2> HIDE DEF F
  <2> QED
    BY <1>4, <2>3
<1>6. Def(g)
  <2> HIDE DEF F, m
  <2> QED
    BY <1>1, <1>4, <1>5
<1>7. Def(f)
  BY <1>6
<1>8. Number(u) = f[m]
  BY DEF Number
<1> HIDE DEF f
<1>9. f[0] = 0 /\ \A n \in 1 .. m : f[n] = 10 * f[n - 1] + Value(u[n])
  <2> HIDE DEF m
  <2> QED
    BY <1>1, <1>7
<1>10. f[m] \in Nat
  <2> DEFINE T == {n \in Nat : n <= m => f[n] \in Nat}
  <2>1. 0 \in T
    BY <1>9
  <2>2. ASSUME NEW k \in T PROVE k + 1 \in T
    <3> SUFFICES ASSUME k + 1 <= m PROVE f[k + 1] \in Nat
      OBVIOUS
    <3>1. k + 1 \in 1 .. m /\ (k + 1) - 1 = k /\ f[k] \in Nat
      BY <1>1
    <3>2. f[k + 1] = 10 * f[k] + Value(u[k + 1]) /\ Value(u[k + 1]) \in Nat
      BY <1>1, <1>9, <3>1
    <3> QED
      BY <3>1, <3>2
  <2> HIDE DEF T
  <2>3. m \in T
    BY <1>1, <2>1, <2>2, SetInduction
  <2> QED
    BY <1>1, <2>3 DEF T
<1> QED
  BY <1>8, <1>10

(* The digits from a position on.                                          *)
LEMMA DigitsRun ==
    ASSUME NEW t, Len(t) \in Nat, NEW i \in 1 .. Len(t) + 1
    PROVE  /\ DigitsEnd(t, i) \in i .. Len(t) + 1
           /\ \A j \in i .. DigitsEnd(t, i) - 1 : t[j] \in Digits
<1> DEFINE S == {j \in i .. Len(t) + 1 : j = Len(t) + 1 \/ t[j] \notin Digits}
           e == DigitsEnd(t, i)
<1>1. S \subseteq Nat /\ Len(t) + 1 \in S
  OBVIOUS
<1>2. e = Min(S)
  BY DEF DigitsEnd
<1>3. e \in S /\ \A y \in S : e <= y
  <2> HIDE DEF S, e
  <2> QED
    BY <1>1, <1>2, MinExists
<1>4. e \in i .. Len(t) + 1
  BY <1>3
<1> HIDE DEF e
<1>5. ASSUME NEW j \in i .. e - 1 PROVE t[j] \in Digits
  <2>1. j \in i .. Len(t) + 1 /\ j # Len(t) + 1 /\ ~(e <= j)
    BY <1>4
  <2>2. j \notin S
    BY <1>3, <2>1
  <2> QED
    BY <2>1, <2>2
<1> QED
  BY <1>4, <1>5 DEF e

(* A part of a beginning is a part of the whole.                           *)
LEMMA PartOfStart ==
    ASSUME NEW C, NEW t \in Seq(C), NEW n \in 0 .. Len(t), NEW a \in 1 .. n + 1, NEW b \in a - 1 .. n
    PROVE  SubSeq(SubSeq(t, 1, n), a, b) = SubSeq(t, a, b)
<1> DEFINE p == SubSeq(t, 1, n)
           u == SubSeq(p, a, b)
           w == SubSeq(t, a, b)
<1>1. 1 \in 1 .. Len(t) + 1 /\ n \in 1 - 1 .. Len(t) /\ n - 1 + 1 = n
  OBVIOUS
<1>2. p \in Seq(C) /\ Len(p) = n /\ \A i \in 1 .. n : p[i] = t[i]
  <2>1. p \in Seq(C) /\ Len(p) = n - 1 + 1
    BY <1>1, SubSeqIs
  <2>2. \A i \in 1 .. n - 1 + 1 : p[i] = t[1 + i - 1]
    BY <1>1, SubSeqIs
  <2>3. \A i \in 1 .. n : 1 + i - 1 = i
    OBVIOUS
  <2> QED
    BY <1>1, <2>1, <2>2, <2>3
<1> HIDE DEF p
<1>3. a \in 1 .. Len(p) + 1 /\ b \in a - 1 .. Len(p) /\ a \in 1 .. Len(t) + 1 /\ b \in a - 1 .. Len(t)
  BY <1>2
<1>4. u \in Seq(C) /\ Len(u) = b - a + 1 /\ \A i \in 1 .. b - a + 1 : u[i] = p[a + i - 1]
  BY <1>2, <1>3, SubSeqIs
<1>5. w \in Seq(C) /\ Len(w) = b - a + 1 /\ \A i \in 1 .. b - a + 1 : w[i] = t[a + i - 1]
  BY <1>3, SubSeqIs
<1>6. \A i \in 1 .. b - a + 1 : a + i - 1 \in 1 .. n
  OBVIOUS
<1> HIDE DEF u, w
<1>7. Len(u) = Len(w) /\ \A i \in 1 .. Len(u) : u[i] = w[i]
  BY <1>2, <1>4, <1>5, <1>6
<1>8. u = w
  BY <1>4, <1>5, <1>7, SeqEqual
<1> QED
  BY <1>8 DEF u, w, p

BareOf(p) == IF p # <<>> /\ Last(p) \in {"SP", "TAB"} THEN Front(p) ELSE p

LEMMA Halves ==
    ASSUME NEW C, NEW t \in Seq(C), NEW n \in 0 .. Len(t)
    PROVE  /\ Len(SubSeq(t, n + 1, Len(t))) = Len(t) - n
           /\ SubSeq(t, 1, n) \o SubSeq(t, n + 1, Len(t)) = t
<1> DEFINE a == SubSeq(t, 1, n)
           b == SubSeq(t, n + 1, Len(t))
           l == Len(t)
<1>1. /\ l \in Nat /\ 1 \in 1 .. l + 1 /\ n \in 1 - 1 .. l /\ n - 1 + 1 = n
      /\ n + 1 \in 1 .. l + 1 /\ l \in (n + 1) - 1 .. l /\ l - (n + 1) + 1 = l - n
  OBVIOUS
<1>2. a \in Seq(C) /\ Len(a) = n /\ \A i \in 1 .. n : a[i] = t[i]
  <2>1. a \in Seq(C) /\ Len(a) = n - 1 + 1 /\ \A i \in 1 .. n - 1 + 1 : a[i] = t[1 + i - 1]
    BY <1>1, SubSeqIs
  <2>2. \A i \in 1 .. n : 1 + i - 1 = i
    OBVIOUS
  <2> QED
    BY <1>1, <2>1, <2>2
<1>3. b \in Seq(C) /\ Len(b) = l - n /\ \A i \in 1 .. l - n : b[i] = t[n + i]
  <2>1. b \in Seq(C) /\ Len(b) = l - (n + 1) + 1
        /\ \A i \in 1 .. l - (n + 1) + 1 : b[i] = t[(n + 1) + i - 1]
    BY <1>1, SubSeqIs
  <2>2. \A i \in 1 .. l - n : (n + 1) + i - 1 = n + i
    OBVIOUS
  <2> QED
    BY <1>1, <2>1, <2>2
<1> HIDE DEF a, b
<1>4. /\ a \o b \in Seq(C) /\ Len(a \o b) = Len(a) + Len(b)
      /\ \A i \in 1 .. Len(a) : (a \o b)[i] = a[i]
      /\ \A i \in 1 .. Len(b) : (a \o b)[Len(a) + i] = b[i]
  <2>1. a \in Seq(C) /\ b \in Seq(C)
    BY <1>2, <1>3, Zenon
  <2>2. a \o b \in Seq(C) /\ Len(a \o b) = Len(a) + Len(b)
    BY <2>1, ConcatProperties
  <2>3. \A i \in 1 .. Len(a) : (a \o b)[i] = a[i]
    BY <2>1, ConcatIs
  <2>4. \A i \in 1 .. Len(b) : (a \o b)[Len(a) + i] = b[i]
    BY <2>1, ConcatIs
  <2> QED
    BY <2>2, <2>3, <2>4
<1>5. Len(a \o b) = Len(t)
  BY <1>1, <1>2, <1>3, <1>4
<1>6. ASSUME NEW i \in 1 .. l PROVE (a \o b)[i] = t[i]
  <2>1. CASE i <= n
    <3>1. i \in 1 .. n
      BY <1>1, <2>1
    <3> QED
      BY <1>2, <1>4, <3>1
  <2>2. CASE i > n
    <3>1. i - n \in 1 .. l - n /\ n + (i - n) = i
      BY <1>1, <2>2
    <3>2. i - n \in 1 .. Len(b) /\ Len(a) + (i - n) = i
      BY <1>2, <1>3, <3>1, Zenon
    <3>3. (a \o b)[i] = b[i - n]
      BY <1>4, <3>2
    <3>4. b[i - n] = t[i]
      BY <1>3, <3>1
    <3> QED
      BY <3>3, <3>4, Zenon
  <2>3. i <= n \/ i > n
    BY <1>1
  <2> QED
    BY <2>1, <2>2, <2>3, Zenon
<1>7. a \o b = t
  BY <1>4, <1>5, <1>6, SeqEqual
<1> QED
  BY <1>3, <1>7 DEF a, b

LEMMA PrefixSpells ==
    ASSUME NEW C, NEW t \in Seq(C)
    PROVE  LET p == parse_enhanced_status_prefix(t)
           IN /\ p.some \in BOOLEAN /\ p.prefix_len \in 0 .. Len(t)
              /\ ~p.some => p.prefix_len = 0
              /\ p.some => /\ Spells(BareOf(SubSeq(t, 1, p.prefix_len)), p.status)
                           /\ \E c \in {2, 4, 5}, n, m \in 0 .. U16_MAX : p.status = <<c, n, m>>
<1> DEFINE p == parse_enhanced_status_prefix(t)
           s == DigitsEnd(t, 3)
           d == DigitsEnd(t, s + 1)
           subject == Number(SubSeq(t, 3, s - 1))
           detail == Number(SubSeq(t, s + 1, d - 1))
           good == /\ Len(t) >= 5
                   /\ t[1] \in {"2", "4", "5"} /\ t[2] = "."
                   /\ s > 3 /\ s <= Len(t) /\ t[s] = "." /\ subject <= U16_MAX
                   /\ d > s + 1 /\ detail <= U16_MAX
           len == IF d <= Len(t) /\ t[d] \in {"SP", "TAB"} THEN d ELSE d - 1
<1>1. p = IF good THEN [some |-> TRUE, status |-> <<Value(t[1]), subject, detail>>,
                        prefix_len |-> len]
          ELSE NoStatus
  BY DEF parse_enhanced_status_prefix
<1>2. Len(t) \in Nat
  OBVIOUS
<1>3. CASE ~good
  <2> HIDE DEF good
  <2> QED
    BY <1>1, <1>2, <1>3 DEF NoStatus
<1>4. CASE good
  <2>1. /\ Len(t) >= 5 /\ t[1] \in {"2", "4", "5"} /\ t[2] = "."
        /\ s > 3 /\ s <= Len(t) /\ t[s] = "." /\ subject <= U16_MAX
        /\ d > s + 1 /\ detail <= U16_MAX
    BY <1>4
  <2>2. s \in 3 .. Len(t) + 1 /\ \A j \in 3 .. s - 1 : t[j] \in Digits
    <3>1. 3 \in 1 .. Len(t) + 1
      BY <1>2, <2>1
    <3> QED
      BY <1>2, <3>1, DigitsRun
  <2>3. d \in s + 1 .. Len(t) + 1 /\ \A j \in s + 1 .. d - 1 : t[j] \in Digits
    <3> HIDE DEF s
    <3>1. s + 1 \in 1 .. Len(t) + 1
      BY <1>2, <2>1, <2>2
    <3> QED
      BY <1>2, <3>1, DigitsRun
  <2>4. p.some = TRUE /\ p.status = <<Value(t[1]), subject, detail>> /\ p.prefix_len = len
    <3> HIDE DEF good, len, subject, detail
    <3> QED
      BY <1>1, <1>4
  <2> HIDE DEF p, s, d, good
  <2> DEFINE B == SubSeq(t, 1, d - 1)
             P == SubSeq(t, 1, len)
  <2>5. /\ d \in Nat /\ s \in Nat /\ d - 1 \in 0 .. Len(t) /\ len \in 1 .. Len(t)
        /\ d - 1 >= s + 1 /\ d <= Len(t) + 1
    BY <1>2, <2>1, <2>2, <2>3
  <2>6. B \in Seq(C) /\ Len(B) = d - 1 /\ \A i \in 1 .. d - 1 : B[i] = t[i]
    <3>1. 1 \in 1 .. Len(t) + 1 /\ d - 1 \in 1 - 1 .. Len(t) /\ (d - 1) - 1 + 1 = d - 1
          /\ \A i \in 1 .. d - 1 : 1 + i - 1 = i
      BY <1>2, <2>5
    <3>2. B \in Seq(C) /\ Len(B) = (d - 1) - 1 + 1
          /\ \A i \in 1 .. (d - 1) - 1 + 1 : B[i] = t[1 + i - 1]
      BY <3>1, SubSeqIs
    <3> HIDE DEF B
    <3> QED
      BY <3>1, <3>2
  <2>7. BareOf(P) = B
    <3>1. P \in Seq(C) /\ Len(P) = len /\ P[len] = t[len]
      <4> HIDE DEF len
      <4>1. 1 \in 1 .. Len(t) + 1 /\ len \in 1 - 1 .. Len(t) /\ len - 1 + 1 = len
            /\ len \in 1 .. len /\ 1 + len - 1 = len
        BY <1>2, <2>5
      <4>2. P \in Seq(C) /\ Len(P) = len - 1 + 1
            /\ \A i \in 1 .. len - 1 + 1 : P[i] = t[1 + i - 1]
        BY <4>1, SubSeqIs
      <4> HIDE DEF P
      <4> QED
        BY <4>1, <4>2
    <3>2. P # <<>> /\ Last(P) = t[len]
      <4> HIDE DEF len, P
      <4> QED
        BY <2>5, <3>1 DEF Last
    <3>3. CASE d <= Len(t) /\ t[d] \in {"SP", "TAB"}
      <4>1. len = d
        BY <3>3
      <4>2. BareOf(P) = Front(P)
        <5> HIDE DEF P, len
        <5> QED
          BY <3>2, <3>3, <4>1 DEF BareOf
      <4>3. Front(P) = SubSeq(SubSeq(t, 1, d), 1, d - 1)
        <5> HIDE DEF len
        <5> QED
          BY <3>1, <4>1 DEF Front
      <4>4. d \in 0 .. Len(t) /\ 1 \in 1 .. d + 1 /\ d - 1 \in 1 - 1 .. d
        BY <2>5, <3>3
      <4>5. SubSeq(SubSeq(t, 1, d), 1, d - 1) = SubSeq(t, 1, d - 1)
        BY <4>4, PartOfStart
      <4> QED
        BY <4>2, <4>3, <4>5
    <3>4. CASE ~(d <= Len(t) /\ t[d] \in {"SP", "TAB"})
      <4>1. len = d - 1
        BY <3>4
      <4>2. t[d - 1] \in Digits
        <5>1. d - 1 \in s + 1 .. d - 1
          BY <2>5
        <5> QED
          BY <2>3, <5>1
      <4>3. "SP" \notin Digits /\ "TAB" \notin Digits
        BY DEF Digits, Numerals, Range
      <4> HIDE DEF len
      <4>4. Last(P) \notin {"SP", "TAB"}
        <5> HIDE DEF P
        <5> QED
          BY <3>2, <4>1, <4>2, <4>3
      <4>5. BareOf(P) = P
        <5> HIDE DEF P
        <5> QED
          BY <4>4 DEF BareOf
      <4> QED
        BY <4>1, <4>5
    <3> QED
      BY <3>3, <3>4
  <2>8. SubSeq(B, 3, s - 1) = SubSeq(t, 3, s - 1)
    <3>1. d - 1 \in 0 .. Len(t) /\ 3 \in 1 .. (d - 1) + 1 /\ s - 1 \in 3 - 1 .. d - 1
      BY <2>1, <2>5
    <3> QED
      BY <3>1, PartOfStart
  <2>9. SubSeq(B, s + 1, d - 1) = SubSeq(t, s + 1, d - 1)
    <3>1. d - 1 \in 0 .. Len(t) /\ s + 1 \in 1 .. (d - 1) + 1 /\ d - 1 \in (s + 1) - 1 .. d - 1
      BY <2>1, <2>5
    <3> QED
      BY <3>1, PartOfStart
  <2>10. ASSUME NEW a \in 1 .. Len(t), NEW b \in a .. Len(t), \A j \in a .. b : t[j] \in Digits
         PROVE  Number(SubSeq(t, a, b)) \in Nat
    <3> DEFINE u == SubSeq(t, a, b)
    <3>1. a \in 1 .. Len(t) + 1 /\ b \in a - 1 .. Len(t) /\ b - a + 1 \in Nat
          /\ \A i \in 1 .. b - a + 1 : a + i - 1 \in a .. b
      OBVIOUS
    <3>2. u \in Seq(C) /\ Len(u) = b - a + 1 /\ \A i \in 1 .. b - a + 1 : u[i] = t[a + i - 1]
      BY <3>1, SubSeqIs
    <3> HIDE DEF u
    <3>3. \A i \in 1 .. Len(u) : u[i] \in Digits
      BY <2>10, <3>1, <3>2
    <3>4. u \in Seq(Digits)
      <4>1. u \in [1 .. Len(u) -> Digits] /\ Len(u) \in Nat
        BY <3>2, <3>3
      <4> QED
        BY <4>1
    <3> QED
      BY <3>4, NumberType DEF u
  <2>11. subject \in Nat /\ detail \in Nat
    <3>1. 3 \in 1 .. Len(t) /\ s - 1 \in 3 .. Len(t)
      BY <2>1, <2>5
    <3>2. s + 1 \in 1 .. Len(t) /\ d - 1 \in s + 1 .. Len(t)
      BY <2>1, <2>5
    <3>3. subject \in Nat
      BY <2>2, <2>10, <3>1
    <3>4. detail \in Nat
      BY <2>3, <2>10, <3>2
    <3> QED
      BY <3>3, <3>4
  <2> HIDE DEF B, P, len
  <2>12. Spells(B, <<Value(t[1]), subject, detail>>)
    <3>1. s \in 1 .. Len(B) /\ s > 3 /\ Len(B) > s
      BY <2>1, <2>5, <2>6
    <3>2. B[1] = t[1] /\ B[2] = t[2] /\ B[s] = t[s]
      <4>1. 1 \in 1 .. d - 1 /\ 2 \in 1 .. d - 1 /\ s \in 1 .. d - 1
        BY <2>1, <2>5
      <4> QED
        BY <2>6, <4>1
    <3>3. DOMAIN B = 1 .. d - 1
      BY <2>6
    <3>4. \A i \in DOMAIN B \ {2, s} : B[i] \in Digits
      <4> SUFFICES ASSUME NEW i \in 1 .. d - 1, i # 2, i # s PROVE t[i] \in Digits
        BY <2>6, <3>3
      <4>1. i = 1 \/ i \in 3 .. s - 1 \/ i \in s + 1 .. d - 1
        BY <2>5
      <4>2. t[1] \in Digits
        BY <2>1, ClassValue
      <4> QED
        BY <2>2, <2>3, <4>1, <4>2
    <3>5. <<Value(t[1]), subject, detail>> =
             <<Value(B[1]), Number(SubSeq(B, 3, s - 1)), Number(SubSeq(B, s + 1, Len(B)))>>
      BY <2>6, <2>8, <2>9, <3>2
    <3> HIDE DEF subject, detail
    <3> QED
      BY <2>1, <3>1, <3>2, <3>4, <3>5 DEF Spells
  <2>13. \E c \in {2, 4, 5}, n, m \in 0 .. U16_MAX : <<Value(t[1]), subject, detail>> = <<c, n, m>>
    <3>1. Value(t[1]) \in {2, 4, 5}
      BY <2>1, ClassValue
    <3> HIDE DEF subject, detail
    <3>2. subject \in 0 .. U16_MAX /\ detail \in 0 .. U16_MAX
      BY <2>1, <2>11, U16Assumption
    <3> QED
      BY <3>1, <3>2, Zenon
  <2>14. len \in 0 .. Len(t)
    BY <1>2, <2>5
  <2> HIDE DEF subject, detail
  <2> QED
    BY <2>4, <2>7, <2>12, <2>13, <2>14 DEF P, p
<1> QED
  BY <1>3, <1>4

(* The code of a reply is what its first line spells out, and message_text *)
(* takes nothing off a line but such a code and the blank behind it        *)
(* (parse_enhanced_status_prefix).                                         *)
THEOREM CodesAreSpelledOut == InputSpec => []CodeIsSpelledOut
<1>1. InputOK => CodeIsSpelledOut
  <2> SUFFICES ASSUME InputOK, kind = "text" PROVE CodeIsSpelledOut
    BY DEF CodeIsSpelledOut
  <2> DEFINE e == enhanced(one, TRUE)
             text == message_text(one, TRUE)
             Cut(i) == SubSeq(one[i], 1, Len(one[i]) - Len(text[i]))
             P(i) == parse_enhanced_status_prefix(one[i])
             Some(q, st) == Spells(BareOf(q), st)
  <2>1. one \in Seq(Seq(TextChars)) /\ one # <<>>
    BY DEF InputOK
  <2>2. /\ 1 \in DOMAIN one /\ \A i \in DOMAIN one : one[i] \in Seq(TextChars)
    BY <2>1, EmptySeq
  <2>3. message_text(one, FALSE) = one
    BY DEF message_text, enhanced, NoStatus
  <2>4. e = P(1)
    BY <2>1 DEF enhanced
  <2>5. ASSUME NEW i \in DOMAIN one
        PROVE  /\ P(i).some \in BOOLEAN /\ P(i).prefix_len \in 0 .. Len(one[i])
               /\ ~P(i).some => P(i).prefix_len = 0
               /\ P(i).some => /\ Some(SubSeq(one[i], 1, P(i).prefix_len), P(i).status)
                               /\ \E c \in {2, 4, 5}, n, m \in 0 .. U16_MAX : P(i).status = <<c, n, m>>
    <3>1. one[i] \in Seq(TextChars)
      BY <2>2
    <3> QED
      BY <3>1, PrefixSpells
  <2>6. ASSUME NEW i \in DOMAIN one
        PROVE  /\ e.some => Cut(i) = SubSeq(one[i], 1, P(i).prefix_len)
               /\ ~e.some => Cut(i) = <<>>
               /\ Cut(i) \o text[i] = one[i]
    <3> DEFINE t == one[i]
               k == P(i).prefix_len
    <3>1. t \in Seq(TextChars) /\ k \in 0 .. Len(t)
      BY <2>2, <2>5
    <3> HIDE DEF t, k
    <3>2. ASSUME NEW n \in 0 .. Len(t)
          PROVE  /\ Len(SubSeq(t, n + 1, Len(t))) = Len(t) - n
                 /\ SubSeq(t, 1, n) \o SubSeq(t, n + 1, Len(t)) = t
      BY <3>1, Halves
    <3>3. CASE e.some
      <4>1. text[i] = SubSeq(t, k + 1, Len(t))
        BY <3>3 DEF message_text, t, k
      <4>2. Len(t) - (Len(t) - k) = k
        BY <3>1
      <4> HIDE DEF text
      <4>3. SubSeq(t, 1, Len(t) - Len(text[i])) = SubSeq(t, 1, k)
        BY <3>1, <3>2, <4>1, <4>2
      <4> QED
        BY <3>1, <3>2, <3>3, <4>1, <4>3 DEF t, k
    <3>4. CASE ~e.some
      <4>1. text[i] = t
        BY <3>4 DEF message_text, t
      <4>2. SubSeq(t, 1, Len(t) - Len(t)) = <<>> /\ <<>> \o t = t
        BY <3>1
      <4> HIDE DEF text
      <4> QED
        BY <3>4, <4>1, <4>2 DEF t
    <3> QED
      BY <3>3, <3>4
  <2> HIDE DEF P, Cut, text, e, Some
  <2>7. e.some => Some(Cut(1), e.status)
    BY <2>2, <2>4, <2>5, <2>6
  <2>8. ASSUME NEW i \in DOMAIN one, Cut(i) # <<>>
        PROVE  e.some /\ \E c \in {2, 4, 5}, n, m \in 0 .. U16_MAX : Some(Cut(i), <<c, n, m>>)
    <3>1. e.some /\ Cut(i) = SubSeq(one[i], 1, P(i).prefix_len)
      <4>1. e.some \in BOOLEAN
        BY <2>2, <2>4, <2>5
      <4> QED
        BY <2>6, <2>8, <4>1
    <3>2. P(i).some
      <4>1. SubSeq(one[i], 1, 0) = <<>>
        BY <2>2
      <4> QED
        BY <2>5, <2>8, <3>1, <4>1
    <3>3. PICK c \in {2, 4, 5}, n \in 0 .. U16_MAX, m \in 0 .. U16_MAX : P(i).status = <<c, n, m>>
      BY <2>5, <3>2
    <3>4. Some(Cut(i), <<c, n, m>>)
      BY <2>5, <3>1, <3>2, <3>3
    <3> QED
      BY <3>1, <3>4
  <2> QED
    BY <2>3, <2>6, <2>7, <2>8 DEF CodeIsSpelledOut, e, text, Cut, Some, BareOf
<1> QED
  BY <1>1, InputType, PTL

---------------------------------------------------------------------------
(* The trust anchors: a line, and what the scan keeps.                     *)
Reasons == {"MalformedBase64", "RejectedByRootStore", "MisplacedBoundary", "TooManyBlocks",
            "NotACertificate", "Unterminated"}
Bodies == Seq({l[2] : l \in PemLines})
Errors == {At(b, r) : b \in Nat, r \in Reasons}
ScanStates == [blocks : Nat, open : BOOLEAN, body : Bodies, store : SUBSET Certificates,
               error : {NoError} \union Errors]

LEMMA LineIs ==
    ASSUME NEW l \in PemLines
    PROVE  /\ l[1] \in {"text", "begin", "end", "misplaced"}
           /\ l[1] = "end" <=> l = <<"end">>
           /\ l[1] = "begin" => l = <<"begin", l[2]>>
<1>1. IsLine(l)
  BY InputAssumption
<1>2. CASE l \in {<<"end">>, <<"misplaced">>}
  BY <1>2
<1>3. CASE l[1] \in {"text", "begin"} /\ l = <<l[1], l[2]>>
  <2>1. <<"end">>[1] = "end"
    OBVIOUS
  <2> QED
    BY <1>3, <2>1
<1> QED
  BY <1>1, <1>2, <1>3 DEF IsLine

LEMMA FailedIs ==
    ASSUME NEW s \in ScanStates, NEW b \in Nat, NEW r \in Reasons
    PROVE  /\ Failed(s, b, r) \in ScanStates
           /\ Failed(s, b, r).error = At(b, r) /\ At(b, r) # NoError /\ At(b, r)[1].block = b
<1>1. At(b, r) \in Errors
  BY DEF Errors
<1>2. At(b, r) # NoError /\ At(b, r)[1].block = b
  BY DEF At, NoError
<1> HIDE DEF At, NoError
<1> QED
  BY <1>1, <1>2 DEF Failed, ScanStates

LEMMA OutsideIs ==
    ASSUME NEW s \in ScanStates, NEW l \in PemLines
    PROVE  /\ l[1] = "text" => OutsideLine(s, l) = s
           /\ l[1] \in {"end", "misplaced"} =>
                 OutsideLine(s, l) = Failed(s, s.blocks + 1, "MisplacedBoundary")
           /\ l[1] = "begin" /\ s.blocks >= MAX_BLOCKS =>
                 OutsideLine(s, l) = Failed(s, s.blocks + 1, "TooManyBlocks")
           /\ l[1] = "begin" /\ s.blocks < MAX_BLOCKS /\ l[2] # "CERTIFICATE" =>
                 OutsideLine(s, l) = Failed(s, s.blocks + 1, "NotACertificate")
           /\ l[1] = "begin" /\ s.blocks < MAX_BLOCKS /\ l[2] = "CERTIFICATE" =>
                 OutsideLine(s, l) = [s EXCEPT !.blocks = @ + 1, !.open = TRUE, !.body = <<>>]
<1>1. s.blocks \in Nat /\ MAX_BLOCKS \in Nat
  BY TrustAssumption DEF ScanStates
<1>2. ~(s.blocks >= MAX_BLOCKS /\ s.blocks < MAX_BLOCKS)
  BY <1>1
<1>3. CASE l[1] = "text"
  BY <1>3 DEF OutsideLine
<1>4. CASE l[1] \in {"end", "misplaced"}
  BY <1>4 DEF OutsideLine
<1>5. CASE l[1] = "begin"
  BY <1>2, <1>5 DEF OutsideLine
<1>6. CASE l[1] \notin {"text", "end", "misplaced", "begin"}
  BY <1>6, LineIs
<1> QED
  BY <1>3, <1>4, <1>5, <1>6

LEMMA InsideIs ==
    ASSUME NEW s \in ScanStates, NEW l \in PemLines
    PROVE  /\ l[1] = "text" => InsideLine(s, l) = [s EXCEPT !.body = Append(@, l[2])]
           /\ l[1] = "end" /\ ~DecodesBase64(s.body) =>
                 InsideLine(s, l) = Failed(s, s.blocks, "MalformedBase64")
           /\ l[1] = "end" /\ DecodesBase64(s.body) /\ ~RootStoreTakes(s.body) =>
                 InsideLine(s, l) = Failed(s, s.blocks, "RejectedByRootStore")
           /\ l[1] = "end" /\ DecodesBase64(s.body) /\ RootStoreTakes(s.body) =>
                 InsideLine(s, l) = [s EXCEPT !.open = FALSE, !.store = @ \union {s.body[1]}]
           /\ l[1] = "begin" => InsideLine(s, l) = Failed(s, s.blocks, "Unterminated")
           /\ l[1] = "misplaced" => InsideLine(s, l) = Failed(s, s.blocks, "MisplacedBoundary")
<1>1. CASE l[1] = "text"
  BY <1>1 DEF InsideLine
<1>2. CASE l[1] = "end"
  <2>1. InsideLine(s, l) = EndBlock(s)
    BY <1>2 DEF InsideLine
  <2> QED
    BY <1>2, <2>1 DEF EndBlock
<1>3. CASE l[1] = "begin"
  BY <1>3 DEF InsideLine
<1>4. CASE l[1] = "misplaced"
  BY <1>4 DEF InsideLine
<1>5. CASE l[1] \notin {"text", "end", "misplaced", "begin"}
  BY <1>5, LineIs
<1> QED
  BY <1>1, <1>2, <1>3, <1>4, <1>5

LEMMA ScanLineType ==
    ASSUME NEW s \in ScanStates, NEW l \in PemLines
    PROVE  ScanLine(s, l) \in ScanStates
<1>1. s.blocks \in Nat /\ s.blocks + 1 \in Nat /\ MAX_BLOCKS \in Nat
  BY TrustAssumption DEF ScanStates
<1>2. l[1] \in {"text", "begin", "end", "misplaced"}
  BY LineIs
<1>3. \A b \in Nat, r \in Reasons : Failed(s, b, r) \in ScanStates
  BY FailedIs
<1>4. "MalformedBase64" \in Reasons /\ "RejectedByRootStore" \in Reasons /\ "MisplacedBoundary" \in Reasons
      /\ "TooManyBlocks" \in Reasons /\ "NotACertificate" \in Reasons /\ "Unterminated" \in Reasons
  BY DEF Reasons
<1>5. [s EXCEPT !.blocks = @ + 1, !.open = TRUE, !.body = <<>>] \in ScanStates
  <2>1. <<>> \in Bodies
    BY DEF Bodies
  <2> QED
    BY <1>1, <2>1 DEF ScanStates
<1>6. OutsideLine(s, l) \in ScanStates
  <2>1. s.blocks >= MAX_BLOCKS \/ s.blocks < MAX_BLOCKS
    BY <1>1
  <2>2. CASE l[1] = "text"
    BY <2>2, OutsideIs
  <2>3. CASE l[1] \in {"end", "misplaced"}
    <3>1. OutsideLine(s, l) = Failed(s, s.blocks + 1, "MisplacedBoundary")
      BY <2>3, OutsideIs
    <3>2. Failed(s, s.blocks + 1, "MisplacedBoundary") \in ScanStates
      BY <1>1, <1>3, <1>4
    <3> QED
      BY <3>1, <3>2
  <2>4. CASE l[1] = "begin" /\ s.blocks >= MAX_BLOCKS
    <3>1. OutsideLine(s, l) = Failed(s, s.blocks + 1, "TooManyBlocks")
      BY <2>4, OutsideIs
    <3>2. Failed(s, s.blocks + 1, "TooManyBlocks") \in ScanStates
      BY <1>1, <1>3, <1>4
    <3> QED
      BY <3>1, <3>2
  <2>5. CASE l[1] = "begin" /\ s.blocks < MAX_BLOCKS /\ l[2] # "CERTIFICATE"
    <3>1. OutsideLine(s, l) = Failed(s, s.blocks + 1, "NotACertificate")
      BY <2>5, OutsideIs
    <3>2. Failed(s, s.blocks + 1, "NotACertificate") \in ScanStates
      BY <1>1, <1>3, <1>4
    <3> QED
      BY <3>1, <3>2
  <2>6. CASE l[1] = "begin" /\ s.blocks < MAX_BLOCKS /\ l[2] = "CERTIFICATE"
    BY <1>5, <2>6, OutsideIs, Zenon
  <2> QED
    BY <1>2, <2>1, <2>2, <2>3, <2>4, <2>5, <2>6
<1>7. [s EXCEPT !.body = Append(@, l[2])] \in ScanStates
  <2>1. Append(s.body, l[2]) \in Bodies
    BY DEF ScanStates, Bodies
  <2> HIDE DEF Bodies
  <2> QED
    BY <2>1 DEF ScanStates
<1>8. RootStoreTakes(s.body) => [s EXCEPT !.open = FALSE, !.store = @ \union {s.body[1]}] \in ScanStates
  <2>1. RootStoreTakes(s.body) => s.body[1] \in Certificates
    BY DEF RootStoreTakes
  <2> QED
    BY <2>1 DEF ScanStates
<1>9. InsideLine(s, l) \in ScanStates
  <2>1. CASE l[1] = "text"
    BY <1>7, <2>1, InsideIs, Zenon
  <2>2. CASE l[1] = "end" /\ ~DecodesBase64(s.body)
    <3>1. InsideLine(s, l) = Failed(s, s.blocks, "MalformedBase64")
      BY <2>2, InsideIs
    <3>2. Failed(s, s.blocks, "MalformedBase64") \in ScanStates
      BY <1>1, <1>3, <1>4
    <3> QED
      BY <3>1, <3>2
  <2>3. CASE l[1] = "end" /\ DecodesBase64(s.body) /\ ~RootStoreTakes(s.body)
    <3>1. InsideLine(s, l) = Failed(s, s.blocks, "RejectedByRootStore")
      BY <2>3, InsideIs
    <3>2. Failed(s, s.blocks, "RejectedByRootStore") \in ScanStates
      BY <1>1, <1>3, <1>4
    <3> QED
      BY <3>1, <3>2
  <2>4. CASE l[1] = "end" /\ DecodesBase64(s.body) /\ RootStoreTakes(s.body)
    BY <1>8, <2>4, InsideIs, Zenon
  <2>5. CASE l[1] = "begin"
    <3>1. InsideLine(s, l) = Failed(s, s.blocks, "Unterminated")
      BY <2>5, InsideIs
    <3>2. Failed(s, s.blocks, "Unterminated") \in ScanStates
      BY <1>1, <1>3, <1>4
    <3> QED
      BY <3>1, <3>2
  <2>6. CASE l[1] = "misplaced"
    <3>1. InsideLine(s, l) = Failed(s, s.blocks, "MisplacedBoundary")
      BY <2>6, InsideIs
    <3>2. Failed(s, s.blocks, "MisplacedBoundary") \in ScanStates
      BY <1>1, <1>3, <1>4
    <3> QED
      BY <3>1, <3>2
  <2> QED
    BY <1>2, <2>1, <2>2, <2>3, <2>4, <2>5, <2>6
<1> QED
  BY <1>6, <1>9 DEF ScanLine

(* The states of the scan, one per line.                                   *)
Scans(f, lines) == /\ f \in [0 .. Len(lines) -> ScanStates] /\ f[0] = Start
                   /\ \A n \in 1 .. Len(lines) : f[n] = ScanLine(f[n - 1], lines[n])

LEMMA ScanExists ==
    ASSUME NEW lines \in Seq(PemLines)
    PROVE  \E f : Scans(f, lines)
<1> DEFINE m == Len(lines)
           F == [q \in (1 .. m) \X ScanStates |-> ScanLine(q[2], lines[q[1]])]
<1>1. m \in Nat /\ Start \in ScanStates /\ \A n \in 1 .. m : lines[n] \in PemLines
  BY DEF Start, ScanStates, Bodies
<1>2. F \in Turns(m, ScanStates)
  BY <1>1, ScanLineType DEF Turns
<1>3. PICK g : RunOf(g, m, ScanStates, Start, F)
  <2> HIDE DEF F, m
  <2> QED
    BY <1>1, <1>2, Loop
<1>4. g \in [0 .. m -> ScanStates] /\ g[0] = Start /\ \A n \in 1 .. m : g[n] = F[<<n, g[n - 1]>>]
  BY <1>3 DEF RunOf
<1>5. \A n \in 1 .. m : g[n] = ScanLine(g[n - 1], lines[n])
  <2> SUFFICES ASSUME NEW n \in 1 .. m PROVE g[n] = ScanLine(g[n - 1], lines[n])
    OBVIOUS
  <2>1. n - 1 \in 0 .. m
    BY <1>1
  <2>2. g[n - 1] \in ScanStates
    BY <1>4, <2>1
  <2>3. F[<<n, g[n - 1]>>] = ScanLine(g[n - 1], lines[n])
    BY <2>2
  <2> HIDE DEF F
  <2> QED
    BY <1>4, <2>3
<1> QED
  BY <1>4, <1>5 DEF Scans

LEMMA ScanResult ==
    ASSUME NEW lines \in Seq(PemLines), NEW g, Scans(g, lines)
    PROVE  ScanLines(lines) = g[Len(lines)]
<1> DEFINE m == Len(lines)
           Def(h) == h = [n \in 0 .. m |-> IF n = 0 THEN Start ELSE ScanLine(h[n - 1], lines[n])]
           f == CHOOSE h : Def(h)
<1>1. m \in Nat
  OBVIOUS
<1>2. g \in [0 .. m -> ScanStates] /\ g[0] = Start /\ \A n \in 1 .. m : g[n] = ScanLine(g[n - 1], lines[n])
  BY DEF Scans
<1>3. Def(g)
  <2> HIDE DEF m
  <2> QED
    BY <1>1, <1>2
<1>4. Def(f)
  BY <1>3
<1>5. ScanLines(lines) = f[m]
  BY DEF ScanLines
<1> HIDE DEF f
<1>6. f[m] = g[m]
  <2> DEFINE T == {n \in Nat : n <= m => f[n] = g[n]}
  <2>1. 0 \in T
    BY <1>1, <1>2, <1>4
  <2>2. ASSUME NEW k \in T PROVE k + 1 \in T
    BY <1>1, <1>2, <1>4
  <2> HIDE DEF T
  <2>3. m \in T
    BY <1>1, <2>1, <2>2, SetInduction
  <2> QED
    BY <1>1, <2>3 DEF T
<1> QED
  BY <1>5, <1>6

(* Counting the members of Q below n.                                      *)
Under(Q, n) == {j \in Q : j < n}
Count(Q, n) == Cardinality(Under(Q, n))

LEMMA UnderStep ==
    ASSUME NEW Q, NEW n \in Nat, Q \subseteq Nat
    PROVE  /\ n \in Q => Under(Q, n + 1) = Under(Q, n) \union {n}
           /\ n \notin Q => Under(Q, n + 1) = Under(Q, n)
           /\ \A k \in Nat : n <= k => Under(Q, n) \subseteq Under(Q, k)
<1>1. \A j \in Q : j < n + 1 <=> j < n \/ j = n
  OBVIOUS
<1>2. ASSUME NEW k \in Nat, n <= k, NEW j \in Under(Q, n) PROVE j \in Under(Q, k)
  <2>1. j \in Q /\ j \in Nat /\ j < n
    BY DEF Under
  <2>2. j < k
    BY <1>2, <2>1
  <2> QED
    BY <2>1, <2>2 DEF Under
<1>3. Under(Q, n) \subseteq Q /\ Under(Q, n + 1) \subseteq Q
  BY DEF Under
<1>4. \A j \in Q : j \in Under(Q, n + 1) <=> j \in Under(Q, n) \/ j = n
  BY <1>1 DEF Under
<1> QED
  BY <1>2, <1>3, <1>4

LEMMA CountIs ==
    ASSUME NEW m \in Nat, NEW Q \in SUBSET (1 .. m), NEW n \in Nat
    PROVE  /\ IsFiniteSet(Under(Q, n)) /\ Count(Q, n) \in Nat
           /\ Count(Q, n + 1) = IF n \in Q THEN Count(Q, n) + 1 ELSE Count(Q, n)
           /\ \A k \in Nat : n <= k => Count(Q, n) <= Count(Q, k)
<1> DEFINE Goal == Count(Q, n + 1) = IF n \in Q THEN Count(Q, n) + 1 ELSE Count(Q, n)
<1>0. Q \subseteq Nat
  OBVIOUS
<1>1. ASSUME NEW k \in Nat PROVE IsFiniteSet(Under(Q, k))
  <2>1. IsFiniteSet(1 .. m)
    BY FS_Interval
  <2>2. Under(Q, k) \in SUBSET (1 .. m)
    BY DEF Under
  <2> QED
    BY <2>1, <2>2, FS_Subset
<1>2. Count(Q, n) \in Nat
  BY <1>1, FS_CardinalityType DEF Count
<1>3. n \notin Under(Q, n)
  BY DEF Under
<1>4. ASSUME n \in Q PROVE Goal
  <2>1. Under(Q, n + 1) = Under(Q, n) \cup {n}
    BY <1>0, <1>4, UnderStep
  <2>2. Cardinality(Under(Q, n) \cup {n}) = Cardinality(Under(Q, n)) + 1
    BY <1>1, <1>3, FS_AddElement
  <2>3. Count(Q, n + 1) = Count(Q, n) + 1
    BY <2>1, <2>2 DEF Count
  <2> QED
    BY <1>4, <2>3, Zenon
<1>5. ASSUME n \notin Q PROVE Goal
  <2>1. Under(Q, n + 1) = Under(Q, n)
    BY <1>0, <1>5, UnderStep
  <2>2. Count(Q, n + 1) = Count(Q, n)
    BY <2>1 DEF Count
  <2> QED
    BY <1>5, <2>2, Zenon
<1>6. ASSUME NEW k \in Nat, n <= k PROVE Count(Q, n) <= Count(Q, k)
  <2>1. Under(Q, n) \in SUBSET Under(Q, k)
    BY <1>0, <1>6, UnderStep
  <2> QED
    BY <1>1, <2>1, FS_Subset DEF Count
<1> QED
  BY <1>1, <1>2, <1>4, <1>5, <1>6

LEMMA RankIs ==
    ASSUME one \in Seq(PemLines), NEW n \in Nat
    PROVE  /\ Boundaries \in SUBSET (1 .. Len(one)) /\ Begins \in SUBSET (1 .. Len(one))
           /\ Rank(n) = Count(Boundaries, n) /\ Rank(n) \in Nat
           /\ Rank(n + 1) = IF n \in Boundaries THEN Rank(n) + 1 ELSE Rank(n)
           /\ Count(Begins, n + 1) = IF n \in Begins THEN Count(Begins, n) + 1 ELSE Count(Begins, n)
           /\ Count(Begins, n) \in Nat
           /\ \A k \in Nat : n <= k => Rank(n) <= Rank(k)
           /\ Rank(1) = 0 /\ Count(Begins, 1) = 0 /\ Under(Boundaries, 1) = {} /\ Under(Begins, 1) = {}
           /\ Cardinality(Boundaries) = Rank(Len(one) + 1)
           /\ Cardinality(Begins) = Count(Begins, Len(one) + 1) /\ Under(Begins, Len(one) + 1) = Begins
<1>1. Len(one) \in Nat /\ DOMAIN one = 1 .. Len(one)
  OBVIOUS
<1>2. Boundaries \in SUBSET (1 .. Len(one)) /\ Begins \in SUBSET (1 .. Len(one))
  BY <1>1 DEF Boundaries, Begins
<1>3. \A k : Rank(k) = Count(Boundaries, k)
  BY DEF Rank, Count, Under
<1>4. /\ Count(Boundaries, n) \in Nat
      /\ Count(Boundaries, n + 1) =
            IF n \in Boundaries THEN Count(Boundaries, n) + 1 ELSE Count(Boundaries, n)
      /\ \A k \in Nat : n <= k => Count(Boundaries, n) <= Count(Boundaries, k)
  BY <1>1, <1>2, CountIs
<1>5. /\ Count(Begins, n) \in Nat
      /\ Count(Begins, n + 1) = IF n \in Begins THEN Count(Begins, n) + 1 ELSE Count(Begins, n)
  BY <1>1, <1>2, CountIs
<1>6. Under(Boundaries, 1) = {} /\ Under(Begins, 1) = {}
  <2>1. \A j \in 1 .. Len(one) : ~(j < 1)
    OBVIOUS
  <2> QED
    BY <1>2, <2>1, Zenon DEF Under
<1>7. Count(Boundaries, 1) = 0 /\ Count(Begins, 1) = 0
  BY <1>6, FS_EmptySet DEF Count
<1>8. Under(Boundaries, Len(one) + 1) = Boundaries /\ Under(Begins, Len(one) + 1) = Begins
  <2>1. \A j \in 1 .. Len(one) : j < Len(one) + 1
    BY <1>1
  <2> QED
    BY <1>2, <2>1, Zenon DEF Under
<1>9. /\ Cardinality(Boundaries) = Count(Boundaries, Len(one) + 1)
      /\ Cardinality(Begins) = Count(Begins, Len(one) + 1)
  BY <1>8 DEF Count
<1> QED
  BY <1>2, <1>3, <1>4, <1>5, <1>6, <1>7, <1>8, <1>9

(* What the scan has established after n lines without an error: the       *)
(* boundaries so far are BEGIN and END in turn, every closed block has a   *)
(* good body and its certificate is in the store, and of an open block the *)
(* lines so far are kept.                                                  *)
InTurn(i) == one[i] = IF Rank(i) % 2 = 0 THEN <<"begin", "CERTIFICATE">> ELSE <<"end">>
GoodBody(i) == Len(BodyOf(i)) = 1 /\ BodyOf(i)[1][2] \in Certificates
Kept(s, c) == /\ s.store = {BodyOf(i)[1][2] : i \in Under(Begins, c)}
              /\ \A i \in Under(Begins, c) : GoodBody(i)
OpenAt(s, n, b) ==
    /\ b \in Begins /\ b <= n /\ Kept(s, b)
    /\ \A j \in b + 1 .. n : j \notin Boundaries
    /\ Len(s.body) = n - b /\ \A k \in 1 .. n - b : s.body[k] = one[b + k][2]

ScanInv(s, n) ==
    /\ s.error = NoError /\ s.blocks <= MAX_BLOCKS
    /\ Count(Begins, n + 1) = s.blocks
    /\ Rank(n + 1) = 2 * s.blocks - (IF s.open THEN 1 ELSE 0)
    /\ \A i \in Under(Boundaries, n + 1) : InTurn(i)
    /\ ~s.open => Kept(s, n + 1)
    /\ s.open => \E b : OpenAt(s, n, b)

LEMMA LineAt ==
    ASSUME one \in Seq(PemLines), NEW n \in 1 .. Len(one)
    PROVE  /\ one[n] \in PemLines
           /\ n \in Boundaries <=> one[n][1] # "text"
           /\ n \in Begins <=> one[n][1] = "begin"
<1>1. one[n] \in PemLines /\ n \in DOMAIN one
  OBVIOUS
<1> QED
  BY <1>1 DEF Boundaries, Begins

(* A line of text.                                                         *)
LEMMA TextStep ==
    ASSUME one \in Seq(PemLines), NEW n \in 1 .. Len(one), one[n][1] = "text",
           NEW s \in ScanStates, ScanInv(s, n - 1), NEW t, t = ScanLine(s, one[n])
    PROVE  ScanInv(t, n)
<1>1. /\ one[n] \in PemLines /\ n \notin Boundaries /\ n \notin Begins
      /\ n \in Nat /\ n - 1 \in Nat /\ (n - 1) + 1 = n
  BY LineAt
<1>2. Rank(n + 1) = Rank(n) /\ Count(Begins, n + 1) = Count(Begins, n)
  BY <1>1, RankIs
<1>3. Boundaries \subseteq Nat /\ Begins \subseteq Nat
  <2>1. Boundaries \in SUBSET (1 .. Len(one)) /\ Begins \in SUBSET (1 .. Len(one))
    BY <1>1, RankIs
  <2> QED
    BY <2>1
<1>4. Under(Boundaries, n + 1) = Under(Boundaries, n) /\ Under(Begins, n + 1) = Under(Begins, n)
  BY <1>1, <1>3, UnderStep
<1>5. /\ s.error = NoError /\ s.blocks <= MAX_BLOCKS
      /\ Count(Begins, n) = s.blocks
      /\ Rank(n) = 2 * s.blocks - (IF s.open THEN 1 ELSE 0)
      /\ \A i \in Under(Boundaries, n) : InTurn(i)
      /\ ~s.open => Kept(s, n)
      /\ s.open => \E b : OpenAt(s, n - 1, b)
  BY <1>1 DEF ScanInv
<1>6. CASE ~s.open
  <2>1. t = s
    BY <1>1, <1>5, <1>6, OutsideIs DEF ScanLine
  <2>2. Kept(s, n + 1)
    BY <1>4, <1>5, <1>6 DEF Kept
  <2> QED
    BY <1>2, <1>4, <1>5, <1>6, <2>1, <2>2 DEF ScanInv
<1>7. CASE s.open
  <2>1. t = [s EXCEPT !.body = Append(@, one[n][2])]
    BY <1>1, <1>5, <1>7, InsideIs DEF ScanLine
  <2>2. /\ t.error = s.error /\ t.blocks = s.blocks /\ t.open = s.open /\ t.store = s.store
        /\ t.body = Append(s.body, one[n][2])
    BY <2>1 DEF ScanStates
  <2>3. PICK b : OpenAt(s, n - 1, b)
    BY <1>5, <1>7
  <2>4. b \in Begins /\ b \in Nat /\ b <= n - 1 /\ b <= n /\ Kept(t, b)
    BY <1>1, <1>3, <2>2, <2>3 DEF OpenAt, Kept
  <2>5. \A j \in b + 1 .. n : j \notin Boundaries
    <3>1. \A j \in b + 1 .. n : j \in b + 1 .. n - 1 \/ j = n
      BY <1>1, <2>4
    <3> QED
      BY <1>1, <2>3, <3>1 DEF OpenAt
  <2>6. Len(t.body) = n - b /\ \A k \in 1 .. n - b : t.body[k] = one[b + k][2]
    <3> DEFINE C == {l[2] : l \in PemLines}
               x == one[n][2]
    <3>1. s.body \in Seq(C) /\ x \in C
      BY <1>1 DEF ScanStates, Bodies
    <3> HIDE DEF C, x
    <3>2. /\ Len(Append(s.body, x)) = Len(s.body) + 1
          /\ Append(s.body, x)[Len(s.body) + 1] = x
          /\ \A k \in 1 .. Len(s.body) : Append(s.body, x)[k] = s.body[k]
      BY <3>1
    <3>3. Len(s.body) = (n - 1) - b /\ \A k \in 1 .. (n - 1) - b : s.body[k] = one[b + k][2]
      BY <2>3 DEF OpenAt
    <3>4. /\ ((n - 1) - b) + 1 = n - b /\ b + (n - b) = n
          /\ \A k \in 1 .. n - b : k \in 1 .. (n - 1) - b \/ k = n - b
      BY <1>1, <2>4
    <3>5. t.body = Append(s.body, x)
      BY <2>2 DEF x
    <3>6. Len(t.body) = n - b
      BY <3>2, <3>3, <3>4, <3>5
    <3>7. t.body[n - b] = one[b + (n - b)][2]
      BY <3>2, <3>3, <3>4, <3>5 DEF x
    <3>8. \A k \in 1 .. (n - 1) - b : t.body[k] = one[b + k][2]
      BY <3>2, <3>3, <3>5
    <3> QED
      BY <3>4, <3>6, <3>7, <3>8
  <2>7. OpenAt(t, n, b)
    BY <2>4, <2>5, <2>6 DEF OpenAt
  <2> QED
    BY <1>2, <1>4, <1>5, <1>7, <2>2, <2>7 DEF ScanInv
<1>8. s.open \in BOOLEAN
  BY DEF ScanStates
<1> QED
  BY <1>6, <1>7

LEMMA Parity ==
    ASSUME NEW b \in Nat
    PROVE  (2 * b) % 2 = 0 /\ (2 * b - 1) % 2 = 1
BY SMT

(* What ScanInv says of the state before line n, in terms of n.            *)
LEMMA BeforeLine ==
    ASSUME one \in Seq(PemLines), NEW n \in 1 .. Len(one), NEW s \in ScanStates, ScanInv(s, n - 1)
    PROVE  /\ one[n] \in PemLines /\ n \in Nat /\ n > 0
           /\ Boundaries \subseteq Nat /\ Begins \subseteq Nat /\ Begins \subseteq Boundaries
           /\ s.blocks \in Nat /\ MAX_BLOCKS \in Nat /\ s.open \in BOOLEAN
           /\ s.error = NoError /\ s.blocks <= MAX_BLOCKS
           /\ Count(Begins, n) = s.blocks
           /\ Rank(n) = IF s.open THEN 2 * s.blocks - 1 ELSE 2 * s.blocks
           /\ \A i \in Under(Boundaries, n) : InTurn(i)
           /\ ~s.open => Kept(s, n)
           /\ s.open => \E b : OpenAt(s, n - 1, b)
<1>1. one[n] \in PemLines /\ n \in Nat /\ n > 0 /\ (n - 1) + 1 = n
  OBVIOUS
<1>2. s.blocks \in Nat /\ MAX_BLOCKS \in Nat /\ s.open \in BOOLEAN
  BY TrustAssumption DEF ScanStates
<1>3. Boundaries \in SUBSET (1 .. Len(one)) /\ Begins \in SUBSET (1 .. Len(one))
  BY <1>1, RankIs
<1>4. Begins \subseteq Boundaries
  BY DEF Begins
<1>5. /\ s.error = NoError /\ s.blocks <= MAX_BLOCKS
      /\ Count(Begins, n) = s.blocks
      /\ Rank(n) = 2 * s.blocks - (IF s.open THEN 1 ELSE 0)
      /\ \A i \in Under(Boundaries, n) : InTurn(i)
      /\ ~s.open => Kept(s, n)
      /\ s.open => \E b : OpenAt(s, n - 1, b)
  BY <1>1 DEF ScanInv
<1>6. Rank(n) = IF s.open THEN 2 * s.blocks - 1 ELSE 2 * s.blocks
  BY <1>2, <1>5
<1>7. Boundaries \subseteq Nat /\ Begins \subseteq Nat
  BY <1>3
<1> QED
  BY <1>1, <1>2, <1>4, <1>5, <1>6, <1>7

(* BEGIN CERTIFICATE, where it may stand.                                  *)
LEMMA BeginStep ==
    ASSUME one \in Seq(PemLines), NEW n \in 1 .. Len(one), one[n][1] = "begin",
           one[n][2] = "CERTIFICATE", NEW s \in ScanStates, ScanInv(s, n - 1), ~s.open,
           s.blocks < MAX_BLOCKS, NEW t, t = ScanLine(s, one[n])
    PROVE  ScanInv(t, n)
<1>1. /\ one[n] \in PemLines /\ n \in Nat /\ n > 0
      /\ Boundaries \subseteq Nat /\ Begins \subseteq Nat
      /\ s.blocks \in Nat /\ MAX_BLOCKS \in Nat
      /\ s.error = NoError /\ Count(Begins, n) = s.blocks /\ Rank(n) = 2 * s.blocks
      /\ \A i \in Under(Boundaries, n) : InTurn(i)
      /\ Kept(s, n)
  BY BeforeLine
<1>2. n \in Boundaries /\ n \in Begins
  BY LineAt
<1>3. Rank(n + 1) = Rank(n) + 1 /\ Count(Begins, n + 1) = Count(Begins, n) + 1
  BY <1>1, <1>2, RankIs
<1>4. Under(Boundaries, n + 1) = Under(Boundaries, n) \union {n}
  BY <1>1, <1>2, UnderStep
<1>5. t = [s EXCEPT !.blocks = @ + 1, !.open = TRUE, !.body = <<>>]
  BY <1>1, OutsideIs DEF ScanLine
<1>6. t.error = NoError /\ t.blocks = s.blocks + 1 /\ t.open = TRUE /\ t.body = <<>> /\ t.store = s.store
  BY <1>1, <1>5 DEF ScanStates
<1>7. InTurn(n)
  <2>1. one[n] = <<"begin", "CERTIFICATE">>
    BY <1>1, LineIs
  <2>2. Rank(n) % 2 = 0
    BY <1>1, Parity
  <2> QED
    BY <2>1, <2>2 DEF InTurn
<1>8. OpenAt(t, n, n)
  <2>1. n + 1 .. n = {} /\ n - n = 0 /\ 1 .. 0 = {} /\ n <= n
    BY <1>1
  <2>2. Len(t.body) = 0
    BY <1>6
  <2>3. Kept(t, n)
    BY <1>1, <1>6 DEF Kept
  <2> QED
    BY <1>2, <2>1, <2>2, <2>3 DEF OpenAt
<1>9. t.blocks <= MAX_BLOCKS /\ Count(Begins, n + 1) = t.blocks
      /\ Rank(n + 1) = 2 * t.blocks - (IF t.open THEN 1 ELSE 0)
  <2>1. s.blocks + 1 <= MAX_BLOCKS /\ 2 * s.blocks + 1 = 2 * (s.blocks + 1) - 1
    BY <1>1
  <2>2. (IF t.open THEN 1 ELSE 0) = 1
    BY <1>6
  <2> QED
    BY <1>1, <1>3, <1>6, <2>1, <2>2, Zenon
<1>10. \A i \in Under(Boundaries, n + 1) : InTurn(i)
  BY <1>1, <1>4, <1>7
<1> QED
  BY <1>6, <1>8, <1>9, <1>10 DEF ScanInv

(* The lines kept are the body of the block that the boundary at n ends.   *)
LEMMA BodyIs ==
    ASSUME one \in Seq(PemLines), NEW n \in 1 .. Len(one), n \in Boundaries,
           NEW s \in ScanStates, NEW b, OpenAt(s, n - 1, b)
    PROVE  /\ b \in Nat /\ b < n
           /\ Len(BodyOf(b)) = Len(s.body)
           /\ Len(s.body) = 1 => BodyOf(b)[1][2] = s.body[1]
<1>1. Boundaries \in SUBSET (1 .. Len(one)) /\ Begins \in SUBSET (1 .. Len(one))
  <2>1. n \in Nat
    OBVIOUS
  <2> QED
    BY <2>1, RankIs
<1>2. /\ b \in Begins /\ b <= n - 1 /\ \A j \in b + 1 .. n - 1 : j \notin Boundaries
      /\ Len(s.body) = (n - 1) - b /\ \A k \in 1 .. (n - 1) - b : s.body[k] = one[b + k][2]
  BY DEF OpenAt
<1>3. b \in 1 .. Len(one) /\ b < n
  BY <1>1, <1>2
<1> DEFINE S == {j \in Boundaries : j > b}
<1>4. Min(S) = n
  <2>1. S \subseteq Int /\ n \in S
    <3>1. Boundaries \subseteq Int /\ n > b
      BY <1>1, <1>3
    <3> QED
      BY <3>1, Zenon
  <2>2. ASSUME NEW y \in S PROVE n <= y
    <3>1. y \in Boundaries /\ y > b /\ y \in Int
      BY <1>1
    <3>2. y \notin b + 1 .. n - 1
      BY <1>2, <3>1
    <3> QED
      BY <1>3, <3>1, <3>2
  <2> HIDE DEF S
  <2> QED
    BY <2>1, <2>2, MinIs
<1>5. BodyOf(b) = SubSeq(one, b + 1, n - 1)
  BY <1>4 DEF BodyOf
<1>6. b + 1 \in 1 .. Len(one) + 1 /\ n - 1 \in (b + 1) - 1 .. Len(one) /\ (n - 1) - (b + 1) + 1 = (n - 1) - b
  BY <1>3
<1>7. /\ Len(SubSeq(one, b + 1, n - 1)) = (n - 1) - (b + 1) + 1
      /\ \A i \in 1 .. (n - 1) - (b + 1) + 1 : SubSeq(one, b + 1, n - 1)[i] = one[(b + 1) + i - 1]
  BY <1>6, SubSeqIs
<1>8. ASSUME Len(s.body) = 1 PROVE BodyOf(b)[1][2] = s.body[1]
  <2>0. (n - 1) - b = 1
    BY <1>2, <1>8
  <2>1. (n - 1) - b = 1 /\ 1 \in 1 .. (n - 1) - b /\ (b + 1) + 1 - 1 = b + 1
    BY <1>3, <2>0
  <2>2. BodyOf(b)[1] = one[b + 1]
    BY <1>5, <1>6, <1>7, <2>1
  <2>3. s.body[1] = one[b + 1][2]
    BY <1>2, <2>1
  <2> QED
    BY <2>2, <2>3
<1>9. Len(BodyOf(b)) = Len(s.body)
  BY <1>2, <1>5, <1>6, <1>7
<1> QED
  BY <1>3, <1>8, <1>9

LEMMA TakesGood ==
    ASSUME one \in Seq(PemLines), NEW n \in 1 .. Len(one), n \in Boundaries,
           NEW s \in ScanStates, NEW b, OpenAt(s, n - 1, b)
    PROVE  /\ RootStoreTakes(s.body) <=> GoodBody(b)
           /\ RootStoreTakes(s.body) => DecodesBase64(s.body)
           /\ RootStoreTakes(s.body) => BodyOf(b)[1][2] = s.body[1]
<1>1. /\ Len(BodyOf(b)) = Len(s.body)
      /\ Len(s.body) = 1 => BodyOf(b)[1][2] = s.body[1]
  BY BodyIs
<1>2. ASSUME RootStoreTakes(s.body) PROVE DecodesBase64(s.body)
  <2>1. Len(s.body) = 1 /\ s.body[1] \in Certificates /\ s.body \in Bodies
    BY <1>2 DEF RootStoreTakes, ScanStates
  <2>2. DOMAIN s.body = 1 .. Len(s.body)
    BY <2>1 DEF Bodies
  <2>3. \A i \in DOMAIN s.body : i = 1
    BY <2>1, <2>2
  <2> QED
    BY <2>1, <2>3, TrustAssumption DEF DecodesBase64
<1> QED
  BY <1>1, <1>2 DEF RootStoreTakes, GoodBody

(* END CERTIFICATE of a good block.                                        *)
LEMMA EndStep ==
    ASSUME one \in Seq(PemLines), NEW n \in 1 .. Len(one), one[n][1] = "end",
           NEW s \in ScanStates, ScanInv(s, n - 1), s.open, RootStoreTakes(s.body),
           NEW t, t = ScanLine(s, one[n])
    PROVE  ScanInv(t, n)
<1>1. /\ one[n] \in PemLines /\ n \in Nat /\ n > 0
      /\ Boundaries \subseteq Nat /\ Begins \subseteq Nat /\ Begins \subseteq Boundaries
      /\ s.blocks \in Nat /\ MAX_BLOCKS \in Nat /\ s.blocks <= MAX_BLOCKS
      /\ s.error = NoError /\ Count(Begins, n) = s.blocks /\ Rank(n) = 2 * s.blocks - 1
      /\ \A i \in Under(Boundaries, n) : InTurn(i)
      /\ \E b : OpenAt(s, n - 1, b)
  BY BeforeLine
<1>2. n \in Boundaries /\ n \notin Begins
  BY LineAt
<1>3. Rank(n + 1) = Rank(n) + 1 /\ Count(Begins, n + 1) = Count(Begins, n)
  BY <1>1, <1>2, RankIs
<1>4. Under(Boundaries, n + 1) = Under(Boundaries, n) \union {n}
  BY <1>1, <1>2, UnderStep
<1>5. PICK b : OpenAt(s, n - 1, b)
  BY <1>1
<1>6. /\ DecodesBase64(s.body) /\ GoodBody(b) /\ BodyOf(b)[1][2] = s.body[1]
  BY <1>2, <1>5, TakesGood
<1>7. t = [s EXCEPT !.open = FALSE, !.store = @ \union {s.body[1]}]
  BY <1>1, <1>6, InsideIs DEF ScanLine
<1>8. t.error = NoError /\ t.blocks = s.blocks /\ t.open = FALSE /\ t.store = s.store \union {s.body[1]}
  BY <1>1, <1>7 DEF ScanStates
<1>9. InTurn(n)
  <2>1. one[n] = <<"end">>
    BY <1>1, LineIs
  <2>2. Rank(n) % 2 # 0
    BY <1>1, Parity
  <2> QED
    BY <2>1, <2>2 DEF InTurn
<1>10. Under(Begins, n + 1) = Under(Begins, b) \union {b}
  <2>1. b \in Begins /\ b <= n - 1 /\ \A j \in b + 1 .. n - 1 : j \notin Boundaries
    BY <1>5 DEF OpenAt
  <2>2. ASSUME NEW j \in Begins PROVE j < n + 1 <=> j < b \/ j = b
    <3>1. j \in Nat /\ b \in Nat /\ j # n /\ j \notin b + 1 .. n - 1
      BY <1>1, <1>2, <2>1
    <3> QED
      BY <1>1, <2>1, <3>1
  <2> QED
    BY <2>1, <2>2, Zenon DEF Under
<1>11. Kept(t, n + 1)
  <2>1. /\ s.store = {BodyOf(i)[1][2] : i \in Under(Begins, b)}
        /\ \A i \in Under(Begins, b) : GoodBody(i)
    BY <1>5 DEF OpenAt, Kept
  <2>2. t.store = {BodyOf(i)[1][2] : i \in Under(Begins, n + 1)}
    BY <1>6, <1>8, <1>10, <2>1
  <2>3. \A i \in Under(Begins, n + 1) : GoodBody(i)
    BY <1>6, <1>10, <2>1
  <2> QED
    BY <2>2, <2>3 DEF Kept
<1>12. Rank(n + 1) = 2 * t.blocks - (IF t.open THEN 1 ELSE 0)
  BY <1>1, <1>3, <1>8
<1>13. \A i \in Under(Boundaries, n + 1) : InTurn(i)
  BY <1>1, <1>4, <1>9
<1> QED
  BY <1>1, <1>3, <1>8, <1>11, <1>12, <1>13 DEF ScanInv

(* A refusal names the block and is right.                                 *)
Refused(s, t) == /\ t.error # NoError /\ ~Acceptable
                 /\ t.error[1].block = IF s.open THEN s.blocks ELSE s.blocks + 1

LEMMA ScanStep ==
    ASSUME one \in Seq(PemLines), NEW n \in 1 .. Len(one),
           NEW s \in ScanStates, ScanInv(s, n - 1), NEW t, t = ScanLine(s, one[n])
    PROVE  ScanInv(t, n) \/ Refused(s, t)
<1> DEFINE l == one[n]
<1>1. /\ l \in PemLines /\ n \in Nat /\ n > 0
      /\ Boundaries \subseteq Nat /\ Begins \subseteq Nat /\ Begins \subseteq Boundaries
      /\ s.blocks \in Nat /\ MAX_BLOCKS \in Nat /\ s.open \in BOOLEAN /\ s.blocks <= MAX_BLOCKS
      /\ s.error = NoError /\ Count(Begins, n) = s.blocks
      /\ Rank(n) = IF s.open THEN 2 * s.blocks - 1 ELSE 2 * s.blocks
      /\ s.open => \E b : OpenAt(s, n - 1, b)
  BY BeforeLine
<1>2. /\ l[1] \in {"text", "begin", "end", "misplaced"}
      /\ l[1] = "end" <=> l = <<"end">>
      /\ l[1] = "begin" => l = <<"begin", l[2]>>
  BY <1>1, LineIs
<1>3. (n \in Boundaries <=> l[1] # "text") /\ (n \in Begins <=> l[1] = "begin")
  BY LineAt
<1>4. ASSUME n \in Boundaries, ~InTurn(n) PROVE ~Acceptable
  BY <1>4 DEF Acceptable, WellFormed, InTurn
<1>5. /\ ~s.open => Rank(n) % 2 = 0 /\ t = OutsideLine(s, l)
      /\ s.open => Rank(n) % 2 = 1 /\ t = InsideLine(s, l)
  BY <1>1, Parity DEF ScanLine
<1>6. "MalformedBase64" \in Reasons /\ "RejectedByRootStore" \in Reasons /\ "MisplacedBoundary" \in Reasons
      /\ "TooManyBlocks" \in Reasons /\ "NotACertificate" \in Reasons /\ "Unterminated" \in Reasons
  BY DEF Reasons
<1>7. ASSUME NEW r \in Reasons, ~Acceptable,
             t = Failed(s, IF s.open THEN s.blocks ELSE s.blocks + 1, r)
      PROVE  Refused(s, t)
  <2> DEFINE k == IF s.open THEN s.blocks ELSE s.blocks + 1
  <2>1. k \in Nat
    BY <1>1
  <2> HIDE DEF k
  <2>2. t = Failed(s, k, r)
    BY <1>7 DEF k
  <2>3. t.error = At(k, r) /\ At(k, r) # NoError /\ At(k, r)[1].block = k
    BY <2>1, <2>2, FailedIs
  <2> QED
    BY <1>7, <2>3 DEF Refused, k
<1> HIDE DEF l
<1>8. ASSUME ~InTurn(n), n \in Boundaries, NEW r \in Reasons,
             t = Failed(s, IF s.open THEN s.blocks ELSE s.blocks + 1, r)
      PROVE  Refused(s, t)
  BY <1>4, <1>7, <1>8
<1>9. CASE l[1] = "text"
  BY <1>9, TextStep DEF l
<1>10. CASE ~s.open /\ l[1] \in {"end", "misplaced"}
  <2>1. t = Failed(s, s.blocks + 1, "MisplacedBoundary")
    BY <1>1, <1>5, <1>10, OutsideIs
  <2>2. l # <<"begin", "CERTIFICATE">>
    BY <1>10
  <2>3. ~InTurn(n)
    BY <1>5, <1>10, <2>2 DEF InTurn, l
  <2> QED
    BY <1>3, <1>6, <1>8, <1>10, <2>1, <2>3
<1>11. CASE ~s.open /\ l[1] = "begin" /\ s.blocks >= MAX_BLOCKS
  <2>1. t = Failed(s, s.blocks + 1, "TooManyBlocks")
    BY <1>1, <1>5, <1>11, OutsideIs
  <2>2. n \in Begins
    BY <1>3, <1>11
  <2>3. Count(Begins, n + 1) = s.blocks + 1
    BY <1>1, <2>2, RankIs
  <2>4. Cardinality(Begins) = Count(Begins, Len(one) + 1) /\ Begins \in SUBSET (1 .. Len(one))
    BY <1>1, RankIs
  <2>5. Len(one) \in Nat /\ n + 1 \in Nat /\ Len(one) + 1 \in Nat /\ n + 1 <= Len(one) + 1
    OBVIOUS
  <2>6. Count(Begins, n + 1) <= Count(Begins, Len(one) + 1) /\ Count(Begins, Len(one) + 1) \in Nat
    BY <2>4, <2>5, CountIs
  <2>7. Cardinality(Begins) \notin 1 .. MAX_BLOCKS
    BY <1>1, <1>11, <2>3, <2>4, <2>6
  <2>8. ~Acceptable
    BY <2>7 DEF Acceptable
  <2> QED
    BY <1>6, <1>7, <1>11, <2>1, <2>8
<1>12. CASE ~s.open /\ l[1] = "begin" /\ s.blocks < MAX_BLOCKS /\ l[2] # "CERTIFICATE"
  <2>1. t = Failed(s, s.blocks + 1, "NotACertificate")
    BY <1>1, <1>5, <1>12, OutsideIs
  <2>2. l # <<"begin", "CERTIFICATE">>
    BY <1>12
  <2>3. ~InTurn(n)
    BY <1>5, <1>12, <2>2 DEF InTurn, l
  <2> QED
    BY <1>3, <1>6, <1>8, <1>12, <2>1, <2>3
<1>13. CASE ~s.open /\ l[1] = "begin" /\ s.blocks < MAX_BLOCKS /\ l[2] = "CERTIFICATE"
  BY <1>13, BeginStep DEF l
<1>14. CASE s.open /\ l[1] = "end" /\ RootStoreTakes(s.body)
  BY <1>14, EndStep DEF l
<1>15. CASE s.open /\ l[1] = "end" /\ ~RootStoreTakes(s.body)
  <2>1. PICK b : OpenAt(s, n - 1, b)
    BY <1>1, <1>15
  <2>2. ~GoodBody(b)
    BY <1>3, <1>15, <2>1, TakesGood
  <2>3. b \in Begins
    BY <2>1 DEF OpenAt
  <2>4. ~Acceptable
    BY <2>2, <2>3 DEF Acceptable, GoodBody
  <2>5. \E r \in Reasons : t = Failed(s, s.blocks, r)
    BY <1>1, <1>5, <1>6, <1>15, InsideIs
  <2> QED
    BY <1>7, <1>15, <2>4, <2>5
<1>16. CASE s.open /\ l[1] = "begin"
  <2>1. t = Failed(s, s.blocks, "Unterminated")
    BY <1>1, <1>5, <1>16, InsideIs
  <2>2. ~InTurn(n)
    BY <1>2, <1>5, <1>16 DEF InTurn, l
  <2> QED
    BY <1>3, <1>6, <1>8, <1>16, <2>1, <2>2
<1>17. CASE s.open /\ l[1] = "misplaced"
  <2>1. t = Failed(s, s.blocks, "MisplacedBoundary")
    BY <1>1, <1>5, <1>17, InsideIs
  <2>2. ~InTurn(n)
    BY <1>2, <1>5, <1>17 DEF InTurn, l
  <2> QED
    BY <1>3, <1>6, <1>8, <1>17, <2>1, <2>2
<1>18. s.blocks >= MAX_BLOCKS \/ s.blocks < MAX_BLOCKS
  BY <1>1
<1> QED
  BY <1>2, <1>9, <1>10, <1>11, <1>12, <1>13, <1>14, <1>15, <1>16, <1>17, <1>18

(* Over the whole text: the scan goes well to the end, or it is refused at *)
(* some line and stays so.                                                 *)
LEMMA ScanGoes ==
    ASSUME one \in Seq(PemLines), NEW f, Scans(f, one), NEW n \in 0 .. Len(one)
    PROVE  \/ \A i \in 0 .. n : ScanInv(f[i], i)
           \/ \E k \in 1 .. n : /\ \A i \in 0 .. k - 1 : ScanInv(f[i], i)
                                /\ Refused(f[k - 1], f[k]) /\ f[n].error = f[k].error
<1> DEFINE m == Len(one)
           Well(j) == \A i \in 0 .. j : ScanInv(f[i], i)
           Bad(j) == \E k \in 1 .. j : /\ Well(k - 1) /\ Refused(f[k - 1], f[k])
                                       /\ f[j].error = f[k].error
           T == {j \in Nat : j <= m => Well(j) \/ Bad(j)}
<1>1. m \in Nat
  OBVIOUS
<1>2. /\ f \in [0 .. m -> ScanStates] /\ f[0] = Start
      /\ \A i \in 1 .. m : f[i] = ScanLine(f[i - 1], one[i])
  BY DEF Scans
<1>3. 0 \in T
  <2>1. ScanInv(f[0], 0)
    <3>1. /\ f[0].error = NoError /\ f[0].blocks = 0 /\ f[0].open = FALSE /\ f[0].store = {}
      BY <1>2 DEF Start
    <3>2. 0 \in Nat /\ 0 + 1 = 1 /\ MAX_BLOCKS \in Nat /\ 0 <= MAX_BLOCKS
      BY TrustAssumption
    <3>3. Rank(1) = 0 /\ Count(Begins, 1) = 0 /\ Under(Boundaries, 1) = {} /\ Under(Begins, 1) = {}
      BY <3>2, RankIs
    <3>4. Kept(f[0], 1)
      BY <3>1, <3>3 DEF Kept
    <3> QED
      BY <3>1, <3>2, <3>3, <3>4 DEF ScanInv
  <2>2. \A i \in 0 .. 0 : i = 0
    OBVIOUS
  <2> QED
    BY <2>1, <2>2
<1>4. ASSUME NEW j \in T PROVE j + 1 \in T
  <2> SUFFICES ASSUME j + 1 <= m PROVE Well(j + 1) \/ Bad(j + 1)
    OBVIOUS
  <2>1. j \in Nat /\ j + 1 \in 1 .. m /\ (j + 1) - 1 = j /\ j \in 0 .. m
    BY <1>1
  <2>2. Well(j) \/ Bad(j)
    BY <1>1, <2>1
  <2>3. f[j + 1] = ScanLine(f[j], one[j + 1]) /\ f[j] \in ScanStates
    BY <1>2, <2>1
  <2>4. CASE Well(j)
    <3>0. ScanInv(f[j], j)
      BY <2>1, <2>4
    <3>1. \E i \in 1 .. m : i = j + 1 /\ ScanInv(f[j], i - 1) /\ f[j + 1] = ScanLine(f[j], one[i])
      BY <2>1, <2>3, <3>0
    <3>2. ScanInv(f[j + 1], j + 1) \/ Refused(f[j], f[j + 1])
      BY <2>3, <3>1, ScanStep, Zenon
    <3>3. CASE ScanInv(f[j + 1], j + 1)
      <4>1. \A i \in 0 .. j + 1 : i \in 0 .. j \/ i = j + 1
        BY <2>1
      <4> QED
        BY <2>4, <3>3, <4>1
    <3>4. CASE Refused(f[j], f[j + 1])
      <4>1. j + 1 \in 1 .. j + 1
        BY <2>1
      <4> HIDE DEF Well
      <4> QED
        BY <2>1, <2>4, <3>4, <4>1, Zenon
    <3> QED
      BY <3>2, <3>3, <3>4
  <2>5. CASE Bad(j)
    <3>1. PICK k \in 1 .. j : Well(k - 1) /\ Refused(f[k - 1], f[k]) /\ f[j].error = f[k].error
      BY <2>5
    <3>2. f[j].error # NoError
      BY <3>1 DEF Refused
    <3>3. f[j + 1] = f[j]
      BY <2>3, <3>2 DEF ScanLine
    <3>4. k \in 1 .. j + 1
      BY <2>1
    <3> HIDE DEF Well
    <3> QED
      BY <3>1, <3>3, <3>4
  <2> QED
    BY <2>2, <2>4, <2>5
<1> HIDE DEF T
<1>5. n \in T
  BY <1>3, <1>4, SetInduction
<1>6. n <= m
  OBVIOUS
<1> QED
  BY <1>5, <1>6 DEF T

(* What parse_custom makes of the state the scan ends in.                  *)
LEMMA ParseIs ==
    ASSUME NEW lines, NEW s, s = ScanLines(lines), NEW p, p = parse_custom(lines, TRUE)
    PROVE  /\ s.error # NoError => p.error = s.error /\ ~p.ok /\ p.store = {}
           /\ s.error = NoError /\ s.open =>
                 p.error = At(s.blocks, "Unterminated") /\ ~p.ok /\ p.store = {}
           /\ s.error = NoError /\ ~s.open /\ s.blocks = 0 =>
                 p.error = At(0, "NoCertificates") /\ ~p.ok /\ p.store = {}
           /\ s.error = NoError /\ ~s.open /\ s.blocks # 0 =>
                 p.error = NoError /\ p.ok /\ p.store = s.store
           /\ ~parse_custom(lines, FALSE).ok
<1>1. \A b, r : At(b, r) # NoError
  BY DEF At, NoError
<1> HIDE DEF At, NoError
<1>2. ~parse_custom(lines, FALSE).ok
  BY <1>1 DEF parse_custom
<1>3. CASE s.error # NoError
  BY <1>2, <1>3 DEF parse_custom
<1>4. CASE s.error = NoError /\ s.open
  BY <1>1, <1>2, <1>4 DEF parse_custom
<1>5. CASE s.error = NoError /\ ~s.open /\ s.blocks = 0
  BY <1>1, <1>2, <1>5 DEF parse_custom
<1>6. CASE s.error = NoError /\ ~s.open /\ s.blocks # 0
  BY <1>2, <1>6 DEF parse_custom
<1> QED
  BY <1>3, <1>4, <1>5, <1>6

(* The scan of a text that went well to the end: whether it is acceptable. *)
LEMMA WellScanned ==
    ASSUME one \in Seq(PemLines), NEW s \in ScanStates, ScanInv(s, Len(one))
    PROVE  /\ s.error = NoError
           /\ s.open => ~Acceptable
           /\ ~s.open /\ s.blocks = 0 => ~Acceptable
           /\ ~s.open /\ s.blocks # 0 =>
                 Acceptable /\ s.store = {BodyOf(i)[1][2] : i \in Begins}
<1> DEFINE m == Len(one)
<1>1. /\ s.error = NoError /\ s.blocks <= MAX_BLOCKS
      /\ Count(Begins, m + 1) = s.blocks
      /\ Rank(m + 1) = 2 * s.blocks - (IF s.open THEN 1 ELSE 0)
      /\ \A i \in Under(Boundaries, m + 1) : InTurn(i)
      /\ ~s.open => Kept(s, m + 1)
  BY DEF ScanInv
<1>2. m \in Nat /\ s.blocks \in Nat /\ s.open \in BOOLEAN /\ MAX_BLOCKS \in Nat
  BY TrustAssumption DEF ScanStates
<1>3. /\ Cardinality(Boundaries) = Rank(m + 1) /\ Boundaries \in SUBSET (1 .. m)
      /\ Cardinality(Begins) = Count(Begins, m + 1) /\ Under(Begins, m + 1) = Begins
  BY <1>2, RankIs
<1>4. Under(Boundaries, m + 1) = Boundaries
  <2>1. \A j \in 1 .. m : j < m + 1
    BY <1>2
  <2> QED
    BY <1>3, <2>1, Zenon DEF Under
<1> HIDE DEF m
<1>5. ASSUME s.open PROVE ~Acceptable
  <2>1. Rank(m + 1) = 2 * s.blocks - 1
    BY <1>1, <1>5
  <2>2. Cardinality(Boundaries) % 2 # 0
    BY <1>2, <1>3, <2>1, Parity
  <2> QED
    BY <2>2 DEF Acceptable, WellFormed
<1>6. ASSUME s.blocks = 0 PROVE ~Acceptable
  <2>1. Cardinality(Begins) \notin 1 .. MAX_BLOCKS
    BY <1>1, <1>2, <1>3, <1>6
  <2> QED
    BY <2>1 DEF Acceptable
<1>7. ASSUME ~s.open, s.blocks # 0
      PROVE  Acceptable /\ s.store = {BodyOf(i)[1][2] : i \in Begins}
  <2>1. Rank(m + 1) = 2 * s.blocks
    BY <1>1, <1>2, <1>7
  <2>2. Cardinality(Boundaries) % 2 = 0
    BY <1>2, <1>3, <2>1, Parity
  <2>3. WellFormed
    BY <1>1, <1>4, <2>2 DEF WellFormed, InTurn
  <2>4. Cardinality(Begins) \in 1 .. MAX_BLOCKS
    BY <1>1, <1>2, <1>3, <1>7
  <2>5. Kept(s, m + 1)
    BY <1>1, <1>7
  <2>6. s.store = {BodyOf(i)[1][2] : i \in Begins} /\ \A i \in Begins : GoodBody(i)
    BY <1>3, <2>5, Zenon DEF Kept
  <2> QED
    BY <2>3, <2>4, <2>6, Zenon DEF Acceptable, GoodBody
<1> QED
  BY <1>1, <1>5, <1>6, <1>7

(* The two ends of a scan.                                                 *)
LEMMA ScanEnds ==
    ASSUME one \in Seq(PemLines), NEW f, Scans(f, one)
    PROVE  /\ Len(one) \in 0 .. Len(one) /\ f[Len(one)] \in ScanStates
           /\ ScanLines(one) = f[Len(one)]
           /\ \/ \A i \in 0 .. Len(one) : ScanInv(f[i], i)
              \/ \E k \in 1 .. Len(one) :
                    /\ \A i \in 0 .. k - 1 : ScanInv(f[i], i)
                    /\ Refused(f[k - 1], f[k]) /\ f[Len(one)].error = f[k].error
<1>1. Len(one) \in 0 .. Len(one)
  OBVIOUS
<1>2. f \in [0 .. Len(one) -> ScanStates]
  BY DEF Scans
<1>3. ScanLines(one) = f[Len(one)]
  BY ScanResult
<1>4. \/ \A i \in 0 .. Len(one) : ScanInv(f[i], i)
      \/ \E k \in 1 .. Len(one) :
            /\ \A i \in 0 .. k - 1 : ScanInv(f[i], i)
            /\ Refused(f[k - 1], f[k]) /\ f[Len(one)].error = f[k].error
  BY <1>1, ScanGoes
<1> QED
  BY <1>1, <1>2, <1>3, <1>4

(* All or nothing: parse_custom takes exactly the acceptable texts, and    *)
(* its store is then what the text holds.                                  *)
THEOREM StoresAllOrNothing == InputSpec => []AllOrNothing
<1>1. InputOK => AllOrNothing
  <2> SUFFICES ASSUME InputOK, kind = "pem" PROVE AllOrNothing
    BY DEF AllOrNothing
  <2>1. one \in Seq(PemLines)
    BY DEF InputOK
  <2>2. PICK f : Scans(f, one)
    BY <2>1, ScanExists
  <2> DEFINE m == Len(one)
             s == f[m]
             p == parse_custom(one, TRUE)
  <2>3. s = ScanLines(one) /\ m \in 0 .. m /\ s \in ScanStates
    BY <2>1, <2>2, ScanEnds
  <2>4. \/ \A i \in 0 .. m : ScanInv(f[i], i)
        \/ \E k \in 1 .. m : /\ \A i \in 0 .. k - 1 : ScanInv(f[i], i)
                             /\ Refused(f[k - 1], f[k]) /\ f[m].error = f[k].error
    BY <2>1, <2>2, ScanEnds
  <2> SUFFICES /\ p.ok <=> Acceptable
               /\ p.store = IF Acceptable THEN {BodyOf(i)[1][2] : i \in Begins} ELSE {}
               /\ ~parse_custom(one, FALSE).ok
    BY DEF AllOrNothing
  <2> DEFINE Parsed(x, q) ==
                /\ x.error # NoError => q.error = x.error /\ ~q.ok /\ q.store = {}
                /\ x.error = NoError /\ x.open => ~q.ok /\ q.store = {}
                /\ x.error = NoError /\ ~x.open /\ x.blocks = 0 => ~q.ok /\ q.store = {}
                /\ x.error = NoError /\ ~x.open /\ x.blocks # 0 => q.ok /\ q.store = x.store
  <2>5. Parsed(s, p) /\ ~parse_custom(one, FALSE).ok
    <3>1. s = ScanLines(one)
      BY <2>3
    <3>2. p = parse_custom(one, TRUE)
      OBVIOUS
    <3> HIDE DEF s, p
    <3> QED
      BY <3>1, <3>2, ParseIs
  <2>6. CASE \A i \in 0 .. m : ScanInv(f[i], i)
    <3>1. ScanInv(s, m)
      BY <2>3, <2>6
    <3>2. /\ s.error = NoError
          /\ s.open => ~Acceptable
          /\ ~s.open /\ s.blocks = 0 => ~Acceptable
          /\ ~s.open /\ s.blocks # 0 =>
                Acceptable /\ s.store = {BodyOf(i)[1][2] : i \in Begins}
      <4>1. s \in ScanStates
        BY <2>3
      <4> HIDE DEF s
      <4> QED
        BY <2>1, <3>1, <4>1, WellScanned
    <3> HIDE DEF s, p
    <3> QED
      BY <2>5, <3>2, Zenon
  <2>7. CASE \E k \in 1 .. m : /\ \A i \in 0 .. k - 1 : ScanInv(f[i], i)
                               /\ Refused(f[k - 1], f[k]) /\ f[m].error = f[k].error
    <3>1. s.error # NoError /\ ~Acceptable
      BY <2>7 DEF Refused
    <3> HIDE DEF s, p
    <3> QED
      BY <2>5, <3>1, Zenon
  <2> QED
    BY <2>4, <2>6, <2>7
<1> QED
  BY <1>1, InputType, PTL

(* The blocks that are finished, and the line that finished the last one.  *)
Finished(s) == IF s.open THEN s.blocks - 1 ELSE s.blocks
EndsAt(f, e, c) == /\ e \in Boundaries /\ Rank(e) = 2 * c - 1
                   /\ ~f[e].open /\ f[e].blocks = c

LEMMA ScanMoves ==
    ASSUME NEW s \in ScanStates, s.error = NoError, NEW l \in PemLines,
           NEW t, t = ScanLine(s, l), t.error = NoError
    PROVE  \/ t.blocks = s.blocks /\ t.open = s.open
           \/ ~s.open /\ t.open /\ t.blocks = s.blocks + 1
           \/ l[1] = "end" /\ s.open /\ ~t.open /\ t.blocks = s.blocks
<1>1. l[1] \in {"text", "begin", "end", "misplaced"}
  BY LineIs
<1>2. s.blocks \in Nat /\ s.blocks + 1 \in Nat /\ MAX_BLOCKS \in Nat /\ s.open \in BOOLEAN
  BY TrustAssumption DEF ScanStates
<1>3. ASSUME NEW b \in Nat, NEW r \in Reasons PROVE t # Failed(s, b, r)
  BY FailedIs
<1>4. "MalformedBase64" \in Reasons /\ "RejectedByRootStore" \in Reasons /\ "MisplacedBoundary" \in Reasons
      /\ "TooManyBlocks" \in Reasons /\ "NotACertificate" \in Reasons /\ "Unterminated" \in Reasons
  BY DEF Reasons
<1>5. s.blocks >= MAX_BLOCKS \/ s.blocks < MAX_BLOCKS
  BY <1>2
<1>6. CASE ~s.open
  <2>1. t = OutsideLine(s, l)
    BY <1>6 DEF ScanLine
  <2>2. CASE l[1] = "text"
    BY <2>1, <2>2, OutsideIs
  <2>3. CASE l[1] = "begin" /\ s.blocks < MAX_BLOCKS /\ l[2] = "CERTIFICATE"
    <3>1. t = [s EXCEPT !.blocks = @ + 1, !.open = TRUE, !.body = <<>>]
      BY <2>1, <2>3, OutsideIs
    <3>2. t.blocks = s.blocks + 1 /\ t.open = TRUE
      BY <3>1 DEF ScanStates
    <3> QED
      BY <1>6, <3>2
  <2>4. CASE l[1] # "text" /\ ~(l[1] = "begin" /\ s.blocks < MAX_BLOCKS /\ l[2] = "CERTIFICATE")
    <3>1. \/ t = Failed(s, s.blocks + 1, "MisplacedBoundary")
          \/ t = Failed(s, s.blocks + 1, "TooManyBlocks")
          \/ t = Failed(s, s.blocks + 1, "NotACertificate")
      <4>1. CASE l[1] \in {"end", "misplaced"}
        BY <2>1, <4>1, OutsideIs
      <4>2. CASE l[1] = "begin" /\ s.blocks >= MAX_BLOCKS
        BY <2>1, <4>2, OutsideIs
      <4>3. CASE l[1] = "begin" /\ s.blocks < MAX_BLOCKS /\ l[2] # "CERTIFICATE"
        BY <2>1, <4>3, OutsideIs
      <4> QED
        BY <1>1, <1>5, <2>4, <4>1, <4>2, <4>3
    <3> QED
      BY <1>2, <1>3, <1>4, <3>1
  <2> QED
    BY <2>2, <2>3, <2>4
<1>7. CASE s.open
  <2>1. t = InsideLine(s, l)
    BY <1>7 DEF ScanLine
  <2>2. CASE l[1] = "text"
    <3>1. t = [s EXCEPT !.body = Append(@, l[2])]
      BY <2>1, <2>2, InsideIs
    <3>2. t.blocks = s.blocks /\ t.open = s.open
      BY <3>1 DEF ScanStates
    <3> QED
      BY <3>2
  <2>3. CASE l[1] = "end" /\ DecodesBase64(s.body) /\ RootStoreTakes(s.body)
    <3>1. t = [s EXCEPT !.open = FALSE, !.store = @ \union {s.body[1]}]
      BY <2>1, <2>3, InsideIs
    <3>2. t.blocks = s.blocks /\ t.open = FALSE
      BY <3>1 DEF ScanStates
    <3> QED
      BY <1>7, <2>3, <3>2
  <2>4. CASE l[1] # "text" /\ ~(l[1] = "end" /\ DecodesBase64(s.body) /\ RootStoreTakes(s.body))
    <3>1. \/ t = Failed(s, s.blocks, "MalformedBase64")
          \/ t = Failed(s, s.blocks, "RejectedByRootStore")
          \/ t = Failed(s, s.blocks, "Unterminated")
          \/ t = Failed(s, s.blocks, "MisplacedBoundary")
      <4>1. CASE l[1] = "end" /\ ~DecodesBase64(s.body)
        BY <2>1, <4>1, InsideIs
      <4>2. CASE l[1] = "end" /\ DecodesBase64(s.body) /\ ~RootStoreTakes(s.body)
        BY <2>1, <4>2, InsideIs
      <4>3. CASE l[1] = "begin"
        BY <2>1, <4>3, InsideIs
      <4>4. CASE l[1] = "misplaced"
        BY <2>1, <4>4, InsideIs
      <4> QED
        BY <1>1, <2>4, <4>1, <4>2, <4>3, <4>4
    <3> QED
      BY <1>2, <1>3, <1>4, <3>1
  <2> QED
    BY <2>2, <2>3, <2>4
<1> QED
  BY <1>2, <1>6, <1>7

LEMMA LastEnd ==
    ASSUME one \in Seq(PemLines), NEW f, Scans(f, one), NEW n \in 0 .. Len(one),
           \A i \in 0 .. n : ScanInv(f[i], i)
    PROVE  Finished(f[n]) >= 1 => \E e \in 1 .. n : EndsAt(f, e, Finished(f[n]))
<1> DEFINE m == Len(one)
           Ended(j) == Finished(f[j]) >= 1 => \E e \in 1 .. j : EndsAt(f, e, Finished(f[j]))
           T == {j \in Nat : j <= n => Ended(j)}
<1>1. m \in Nat /\ n \in Nat /\ n <= m
  OBVIOUS
<1>2. /\ f \in [0 .. m -> ScanStates] /\ f[0] = Start
      /\ \A i \in 1 .. m : f[i] = ScanLine(f[i - 1], one[i])
  BY DEF Scans
<1>3. 0 \in T
  <2>1. Finished(f[0]) = 0
    BY <1>2 DEF Finished, Start
  <2> QED
    BY <2>1
<1>4. ASSUME NEW j \in T PROVE j + 1 \in T
  <2> SUFFICES ASSUME j + 1 <= n PROVE Ended(j + 1)
    OBVIOUS
  <2> DEFINE s == f[j]
             t == f[j + 1]
  <2>1. /\ j \in Nat /\ j + 1 \in 1 .. m /\ (j + 1) - 1 = j /\ j \in 0 .. m /\ j <= n
        /\ j \in 0 .. n /\ j + 1 \in 0 .. n /\ j + 1 \in 0 .. m
    BY <1>1
  <2>2. Ended(j)
    BY <2>1
  <2>3. t = ScanLine(s, one[j + 1]) /\ s \in ScanStates /\ t \in ScanStates
    BY <1>2, <2>1
  <2>4. s.error = NoError /\ t.error = NoError /\ Rank(j + 1) = 2 * s.blocks - (IF s.open THEN 1 ELSE 0)
    BY <2>1 DEF ScanInv
  <2>5. one[j + 1] \in PemLines /\ (one[j + 1][1] = "end" => j + 1 \in Boundaries)
    BY <2>1, LineAt
  <2>6. s.blocks \in Nat /\ s.open \in BOOLEAN /\ t.blocks \in Nat /\ t.open \in BOOLEAN
    BY <2>3 DEF ScanStates
  <2>7. \/ t.blocks = s.blocks /\ t.open = s.open
        \/ ~s.open /\ t.open /\ t.blocks = s.blocks + 1
        \/ one[j + 1][1] = "end" /\ s.open /\ ~t.open /\ t.blocks = s.blocks
    <3> HIDE DEF s, t
    <3> QED
      BY <2>3, <2>4, <2>5, ScanMoves
  <2>8. CASE (t.blocks = s.blocks /\ t.open = s.open) \/ (~s.open /\ t.open /\ t.blocks = s.blocks + 1)
    <3>1. Finished(t) = Finished(s)
      BY <2>6, <2>8 DEF Finished
    <3>2. \A e \in 1 .. j : e \in 1 .. j + 1
      BY <2>1
    <3> HIDE DEF EndsAt, Finished
    <3> QED
      BY <2>2, <3>1, <3>2
  <2>9. CASE one[j + 1][1] = "end" /\ s.open /\ ~t.open /\ t.blocks = s.blocks
    <3>1. Finished(t) = t.blocks /\ j + 1 \in 1 .. j + 1
      BY <2>1, <2>9 DEF Finished
    <3>2. Rank(j + 1) = 2 * t.blocks - 1
      BY <2>4, <2>9
    <3>3. EndsAt(f, j + 1, Finished(t))
      BY <2>5, <2>9, <3>1, <3>2 DEF EndsAt
    <3> QED
      BY <3>1, <3>3
  <2> QED
    BY <2>7, <2>8, <2>9
<1> HIDE DEF T
<1>5. n \in T
  BY <1>1, <1>3, <1>4, SetInduction
<1> QED
  BY <1>1, <1>5 DEF T

(* The boundaries before block c + 1 are those up to the END of block c.   *)
LEMMA BeforeIs ==
    ASSUME one \in Seq(PemLines), NEW c \in Nat, NEW e \in 1 .. Len(one),
           e \in Boundaries, Rank(e) = 2 * c - 1, NEW b, b = c + 1,
           NEW Q, Q = {i \in Boundaries : Rank(i) < 2 * (b - 1)}
    PROVE  Q # {} /\ Max(Q) = e
<1>1. e \in Nat /\ e + 1 \in Nat /\ b - 1 = c
  OBVIOUS
<1>2. Boundaries \in SUBSET (1 .. Len(one)) /\ Rank(e + 1) = 2 * c
  BY <1>1, RankIs
<1>3. e \in Q
  BY <1>1
<1>4. ASSUME NEW i \in Q PROVE e >= i
  <2>1. i \in Nat /\ Rank(i) < 2 * c
    BY <1>1, <1>2
  <2>2. e + 1 <= i => Rank(e + 1) <= Rank(i)
    BY <1>1, <2>1, RankIs
  <2>3. Rank(i) \in Nat
    BY <2>1, RankIs
  <2> QED
    BY <1>1, <1>2, <2>1, <2>2, <2>3
<1>5. Q \subseteq Int
  <2>1. \A i \in 1 .. Len(one) : i \in Int
    OBVIOUS
  <2>2. Q \subseteq Boundaries
    OBVIOUS
  <2> QED
    BY <1>2, <2>1, <2>2, Zenon
<1> QED
  BY <1>3, <1>4, <1>5, MaxIs

(* The text up to the END of a block that went well is taken.              *)
LEMMA PrefixIsTaken ==
    ASSUME one \in Seq(PemLines), NEW f, Scans(f, one), NEW e \in 1 .. Len(one),
           ScanInv(f[e], e), ~f[e].open, f[e].blocks # 0
    PROVE  parse_custom(SubSeq(one, 1, e), TRUE).ok
<1> DEFINE text == SubSeq(one, 1, e)
           g == [i \in 0 .. e |-> f[i]]
<1>1. /\ f \in [0 .. Len(one) -> ScanStates] /\ f[0] = Start
      /\ \A i \in 1 .. Len(one) : f[i] = ScanLine(f[i - 1], one[i])
  BY DEF Scans
<1>2. text \in Seq(PemLines) /\ Len(text) = e /\ \A i \in 1 .. e : text[i] = one[i]
  <2>1. /\ SubSeq(one, 1, e) \in Seq(PemLines)
        /\ Len(SubSeq(one, 1, e)) = e - 1 + 1
        /\ \A i \in 1 .. e - 1 + 1 : SubSeq(one, 1, e)[i] = one[1 + i - 1]
    BY SubSeqIs
  <2>2. e - 1 + 1 = e /\ \A i \in 1 .. e : 1 + i - 1 = i
    OBVIOUS
  <2> HIDE DEF text
  <2> QED
    BY <2>1, <2>2 DEF text
<1>3. e \in Nat /\ e <= Len(one) /\ Len(one) \in Nat
  OBVIOUS
<1>4. Scans(g, text)
  <2> HIDE DEF text
  <2>1. g \in [0 .. e -> ScanStates] /\ g[0] = Start
    BY <1>1, <1>3
  <2>2. ASSUME NEW i \in 1 .. e PROVE g[i] = ScanLine(g[i - 1], text[i])
    <3>1. i \in 0 .. e /\ i - 1 \in 0 .. e /\ i \in 1 .. Len(one)
      BY <1>3
    <3>2. g[i] = f[i] /\ g[i - 1] = f[i - 1]
      BY <3>1
    <3>3. f[i] = ScanLine(f[i - 1], one[i]) /\ text[i] = one[i]
      BY <1>1, <1>2, <3>1
    <3> HIDE DEF g
    <3> QED
      BY <3>2, <3>3, Zenon
  <2> HIDE DEF g
  <2> QED
    BY <1>2, <2>1, <2>2 DEF Scans
<1>5. g[e] = f[e]
  BY <1>3
<1> HIDE DEF g, text
<1>6. ScanLines(text) = g[e]
  BY <1>2, <1>4, ScanResult
<1>7. f[e].error = NoError
  BY DEF ScanInv
<1> QED
  BY <1>5, <1>6, <1>7, ParseIs DEF text

(* The state in which the scan met the fault that parse_custom reports:    *)
(* what it had finished until then is all before the block it names.       *)
LEMMA FaultIsIn ==
    ASSUME one \in Seq(PemLines), NEW f, Scans(f, one), NEW p, p = parse_custom(one, TRUE),
           p.error # NoError, p.error[1].block > 1
    PROVE  \E n \in 0 .. Len(one) :
              /\ \A i \in 0 .. n : ScanInv(f[i], i)
              /\ p.error[1].block = Finished(f[n]) + 1
              /\ n < Len(one) \/ f[n].open
<1> DEFINE m == Len(one)
<1>1. m \in Nat /\ m \in 0 .. m /\ f \in [0 .. m -> ScanStates] /\ ScanLines(one) = f[m]
  BY ScanEnds DEF Scans
<1>2. \/ \A i \in 0 .. m : ScanInv(f[i], i)
      \/ \E k \in 1 .. m : /\ \A i \in 0 .. k - 1 : ScanInv(f[i], i)
                           /\ Refused(f[k - 1], f[k]) /\ f[m].error = f[k].error
  BY ScanEnds, Zenon
<1> HIDE DEF m
<1>3. CASE \A i \in 0 .. m : ScanInv(f[i], i)
  <2>1. f[m].error = NoError /\ f[m].blocks \in Nat /\ f[m].open \in BOOLEAN
    BY <1>1, <1>3 DEF ScanInv, ScanStates
  <2>2. /\ f[m].open => p.error = At(f[m].blocks, "Unterminated")
        /\ ~f[m].open /\ f[m].blocks = 0 => p.error = At(0, "NoCertificates")
        /\ ~f[m].open /\ f[m].blocks # 0 => p.error = NoError
    BY <1>1, <2>1, ParseIs
  <2>3. \A b, r : At(b, r)[1].block = b
    BY DEF At
  <2> HIDE DEF At, NoError
  <2>4. ASSUME p.error[1].block = 0 PROVE FALSE
    <3>1. 0 > 1
      BY <2>4, Zenon
    <3> QED
      BY <3>1
  <2>5. f[m].open /\ p.error[1].block = f[m].blocks
    <3>1. CASE f[m].open
      <4>1. p.error = At(f[m].blocks, "Unterminated")
        BY <2>2, <3>1, Zenon
      <4>2. p.error[1].block = At(f[m].blocks, "Unterminated")[1].block
        BY <4>1, Zenon
      <4> QED
        BY <2>3, <3>1, <4>2, Zenon
    <3>2. ASSUME ~f[m].open PROVE FALSE
      <4>1. f[m].blocks = 0 /\ p.error = At(0, "NoCertificates")
        BY <2>2, <3>2, Zenon
      <4>2. p.error[1].block = At(0, "NoCertificates")[1].block
        BY <4>1, Zenon
      <4> QED
        BY <2>3, <2>4, <4>2, Zenon
    <3> QED
      BY <3>1, <3>2, Zenon
  <2>6. Finished(f[m]) + 1 = f[m].blocks
    BY <2>1, <2>5 DEF Finished
  <2> QED
    BY <1>1, <1>3, <2>5, <2>6 DEF m
<1>4. CASE \E k \in 1 .. m : /\ \A i \in 0 .. k - 1 : ScanInv(f[i], i)
                             /\ Refused(f[k - 1], f[k]) /\ f[m].error = f[k].error
  <2>1. PICK k \in 1 .. m : /\ \A i \in 0 .. k - 1 : ScanInv(f[i], i)
                            /\ Refused(f[k - 1], f[k]) /\ f[m].error = f[k].error
    BY <1>4
  <2>2. k - 1 \in 0 .. m /\ k - 1 < m
    BY <1>1
  <2>3. f[k - 1].blocks \in Nat
    BY <1>1, <2>2 DEF ScanStates
  <2>4. /\ f[m].error # NoError
        /\ f[m].error[1].block = IF f[k - 1].open THEN f[k - 1].blocks ELSE f[k - 1].blocks + 1
    BY <2>1 DEF Refused
  <2>5. p.error = f[m].error
    BY <1>1, <2>4, ParseIs
  <2>6. Finished(f[k - 1]) + 1 = IF f[k - 1].open THEN f[k - 1].blocks ELSE f[k - 1].blocks + 1
    BY <2>3 DEF Finished
  <2> QED
    BY <2>1, <2>2, <2>4, <2>5, <2>6, Zenon DEF m
<1> QED
  BY <1>2, <1>3, <1>4

(* The block that an error names is where the fault is: all before it is   *)
(* taken by itself (parse_custom and the block of its TrustError).         *)
THEOREM ErrorsNameTheirBlock == InputSpec => []ErrorNamesBlock
<1>1. InputOK => ErrorNamesBlock
  <2> DEFINE p == parse_custom(one, TRUE)
             Q(n) == {i \in Boundaries : Rank(i) < 2 * (n - 1)}
             Before(n) == IF Q(n) = {} THEN <<>> ELSE SubSeq(one, 1, Max(Q(n)))
             b == p.error[1].block
  <2> SUFFICES ASSUME InputOK, kind = "pem", p.error # NoError, b > 1
               PROVE  parse_custom(Before(b), TRUE).ok /\ Before(b) # one
    BY DEF ErrorNamesBlock
  <2>1. one \in Seq(PemLines)
    BY DEF InputOK
  <2>2. PICK f : Scans(f, one)
    BY <2>1, ScanExists
  <2>3. PICK n \in 0 .. Len(one) : /\ \A i \in 0 .. n : ScanInv(f[i], i)
                                   /\ b = Finished(f[n]) + 1
                                   /\ n < Len(one) \/ f[n].open
    BY <2>1, <2>2, FaultIsIn
  <2> HIDE DEF p, b
  <2> DEFINE c == Finished(f[n])
  <2>4. f[n].blocks \in Nat /\ n \in Nat /\ Len(one) \in Nat /\ n <= Len(one)
    <3>1. f \in [0 .. Len(one) -> ScanStates]
      BY <2>2 DEF Scans
    <3> QED
      BY <2>1, <3>1 DEF ScanStates
  <2>5. c \in Nat /\ c >= 1
    <3>1. c \in Int
      BY <2>4 DEF Finished
    <3> HIDE DEF c
    <3>2. b = c + 1
      BY <2>3 DEF c
    <3> QED
      BY <3>1, <3>2
  <2>6. PICK e \in 1 .. n : EndsAt(f, e, c)
    BY <2>1, <2>2, <2>3, <2>5, LastEnd
  <2>7. b = c + 1
    BY <2>3
  <2> HIDE DEF c
  <2>8. /\ e \in Boundaries /\ Rank(e) = 2 * c - 1 /\ ~f[e].open /\ f[e].blocks = c
        /\ e \in 1 .. Len(one) /\ e \in 0 .. n
    BY <2>4, <2>6 DEF EndsAt
  <2>9. e < Len(one)
    <3>1. e # n \/ ~f[n].open
      BY <2>8
    <3> QED
      BY <2>3, <2>4, <3>1
  <2>10. ScanInv(f[e], e) /\ f[e].blocks # 0
    BY <2>3, <2>5, <2>8
  <2>11. parse_custom(SubSeq(one, 1, e), TRUE).ok
    BY <2>1, <2>2, <2>8, <2>10, PrefixIsTaken
  <2>12. Q(b) # {} /\ Max(Q(b)) = e
    BY <2>1, <2>5, <2>7, <2>8, BeforeIs
  <2>13. Before(b) = SubSeq(one, 1, e)
    BY <2>12
  <2>14. Len(SubSeq(one, 1, e)) = e
    <3>1. 1 \in 1 .. Len(one) + 1 /\ e \in 1 - 1 .. Len(one) /\ e - 1 + 1 = e
      BY <2>4, <2>8
    <3>2. Len(SubSeq(one, 1, e)) = e - 1 + 1
      BY <2>1, <3>1, SubSeqIs
    <3> QED
      BY <3>1, <3>2
  <2>15. SubSeq(one, 1, e) # one
    BY <2>4, <2>8, <2>9, <2>14
  <2> HIDE DEF Before
  <2> QED
    BY <2>11, <2>13, <2>15
<1> QED
  BY <1>1, InputType, PTL
============================================================================
