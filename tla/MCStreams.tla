----------------------------- MODULE MCStreams ------------------------------
(* The two directions of a connection: ReplyReader on every stream of up   *)
(* to MaxPieces pieces, or DotStuffing on every body of up to MaxBody      *)
(* bytes; the other of the two stays as it begins.                         *)
EXTENDS ReplyReader, DotStuffing, SequencesExt

CONSTANTS MaxPieces, MaxBody

(* Whole lines, and fragments that leave a CRLF or a line split.           *)
Pieces == {<<"2", " ", "CR", "LF">>, <<"2", "-", "CR", "LF">>, <<"5", "CR", "LF">>,
           <<"x", "CR", "LF">>, <<"2", " ", "x", "x">>, <<"x", "x">>, <<"CR">>, <<"LF">>}
PieceStreams == {FlattenSeq(p) : p \in UNION {[1..n -> Pieces] : n \in 0..MaxPieces}}

AllBodies == UNION {[1..n -> BodyBytes] : n \in 0..MaxBody}

VARIABLE way  \* "in" or "out"

BothInit == /\ Init /\ BodyInit
            /\ \/ way = "in" /\ body = <<>>
               \/ way = "out" /\ stream = <<>>

BothNext == \/ way = "in" /\ Next /\ UNCHANGED <<way, bodyVars>>
            \/ way = "out" /\ BodyNext /\ UNCHANGED <<way, vars>>

BothSpec == BothInit /\ [][BothNext]_<<way, vars, bodyVars>>
=============================================================================
