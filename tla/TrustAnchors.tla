---------------------------- MODULE TrustAnchors ----------------------------
(***************************************************************************)
(* The trust anchors of the component (trust.rs): parse_custom takes PEM   *)
(* text line by line, and either every certificate in it or nothing.       *)
(*                                                                         *)
(* A line is what classify makes of it: <<"text", what>>, <<"begin",       *)
(* label>>, <<"end">> (exactly END CERTIFICATE) or <<"misplaced">> (only   *)
(* resembles a boundary).  Text inside a block is base64 of a certificate, *)
(* of something else, or no base64.                                        *)
(***************************************************************************)
EXTENDS Integers, Sequences

CONSTANTS MAX_BLOCKS,   \* 64 in the code
          Certificates  \* the bodies the root store takes

ASSUME TrustAssumption == MAX_BLOCKS \in Nat /\ "not-base64" \notin Certificates

(* What classify returns.                                                  *)
IsLine(l) == \/ l \in {<<"end">>, <<"misplaced">>}
             \/ l[1] \in {"text", "begin"} /\ l = <<l[1], l[2]>>

NoError == <<>>
At(block, reason) == <<[block |-> block, reason |-> reason]>>

(* The locals of parse_custom: the blocks begun, the body of the open one, *)
(* the store so far and the error it returns with.                         *)
Start == [blocks |-> 0, open |-> FALSE, body |-> <<>>, store |-> {}, error |-> NoError]

Failed(s, block, reason) == [s EXCEPT !.error = At(block, reason)]

---------------------------------------------------------------------------
(* CertificateDer::from_pem_slice and RootCertStore::add (external).       *)
DecodesBase64(body) == \A i \in DOMAIN body : body[i] # "not-base64"
RootStoreTakes(body) == Len(body) = 1 /\ body[1] \in Certificates

(* Mutant: what the root store refuses is skipped.                         *)
SkipRefused(s) ==
    CASE ~DecodesBase64(s.body) -> Failed(s, s.blocks, "MalformedBase64")
      [] DecodesBase64(s.body) /\ ~RootStoreTakes(s.body) -> [s EXCEPT !.open = FALSE]
      [] OTHER -> [s EXCEPT !.open = FALSE, !.store = @ \union {s.body[1]}]

(* The END line: the block is decoded and added.                           *)
EndBlock(s) ==
    CASE ~DecodesBase64(s.body) -> Failed(s, s.blocks, "MalformedBase64")
      [] DecodesBase64(s.body) /\ ~RootStoreTakes(s.body) ->
            Failed(s, s.blocks, "RejectedByRootStore")
      [] OTHER -> [s EXCEPT !.open = FALSE, !.store = @ \union {s.body[1]}]

(* Mutant: a boundary outside its place is a comment.                      *)
MisplacedIsComment(s, line) ==
    CASE line[1] # "begin" -> s
      [] line[1] = "begin" /\ s.blocks >= MAX_BLOCKS ->
            Failed(s, s.blocks + 1, "TooManyBlocks")
      [] line[1] = "begin" /\ s.blocks < MAX_BLOCKS /\ line[2] # "CERTIFICATE" ->
            Failed(s, s.blocks + 1, "NotACertificate")
      [] OTHER -> [s EXCEPT !.blocks = @ + 1, !.open = TRUE, !.body = <<>>]

(* Mutant: one block too many.                                             *)
OneBlockMore(s, line) ==
    CASE line[1] = "text" -> s
      [] line[1] \in {"end", "misplaced"} -> Failed(s, s.blocks + 1, "MisplacedBoundary")
      [] line[1] = "begin" /\ s.blocks > MAX_BLOCKS ->
            Failed(s, s.blocks + 1, "TooManyBlocks")
      [] line[1] = "begin" /\ s.blocks <= MAX_BLOCKS /\ line[2] # "CERTIFICATE" ->
            Failed(s, s.blocks + 1, "NotACertificate")
      [] OTHER -> [s EXCEPT !.blocks = @ + 1, !.open = TRUE, !.body = <<>>]

(* A line with no block open: text is a comment.                           *)
OutsideLine(s, line) ==
    CASE line[1] = "text" -> s
      [] line[1] \in {"end", "misplaced"} -> Failed(s, s.blocks + 1, "MisplacedBoundary")
      [] line[1] = "begin" /\ s.blocks >= MAX_BLOCKS ->
            Failed(s, s.blocks + 1, "TooManyBlocks")
      [] line[1] = "begin" /\ s.blocks < MAX_BLOCKS /\ line[2] # "CERTIFICATE" ->
            Failed(s, s.blocks + 1, "NotACertificate")
      [] OTHER -> [s EXCEPT !.blocks = @ + 1, !.open = TRUE, !.body = <<>>]

(* Mutant: a BEGIN inside a block names the block it would have begun.     *)
NamesNextBlock(s, line) ==
    CASE line[1] = "text" -> [s EXCEPT !.body = Append(@, line[2])]
      [] line[1] = "end" -> EndBlock(s)
      [] line[1] = "begin" -> Failed(s, s.blocks + 1, "Unterminated")
      [] OTHER -> Failed(s, s.blocks, "MisplacedBoundary")

(* A line of an open block: only its own END may come.                     *)
InsideLine(s, line) ==
    CASE line[1] = "text" -> [s EXCEPT !.body = Append(@, line[2])]
      [] line[1] = "end" -> EndBlock(s)
      [] line[1] = "begin" -> Failed(s, s.blocks, "Unterminated")
      [] OTHER -> Failed(s, s.blocks, "MisplacedBoundary")

ScanLine(s, line) == IF s.error # NoError THEN s
                     ELSE IF s.open THEN InsideLine(s, line)
                     ELSE OutsideLine(s, line)

(* The loop over the lines.                                                *)
ScanLines(lines) ==
    LET s[n \in 0 .. Len(lines)] == IF n = 0 THEN Start ELSE ScanLine(s[n - 1], lines[n])
    IN s[Len(lines)]

(* The size of the input is looked at before anything else.                *)
parse_custom(lines, fits) ==
    LET s == ScanLines(lines)
        error == IF ~fits THEN At(0, "TooLarge")
                 ELSE IF s.error # NoError THEN s.error
                 ELSE IF s.open THEN At(s.blocks, "Unterminated")
                 ELSE IF s.blocks = 0 THEN At(0, "NoCertificates")
                 ELSE NoError
    IN [ok |-> error = NoError, error |-> error,
        store |-> IF error = NoError THEN s.store ELSE {}]

(* Ok(None): the bundled roots; Ok(Some(store)): the caller's.             *)
resolve(trust) ==
    IF trust.kind = "bundled" THEN [ok |-> TRUE, roots |-> <<>>]
    ELSE LET p == parse_custom(trust.lines, trust.fits)
         IN [ok |-> p.ok, roots |-> IF p.ok THEN <<p.store>> ELSE <<>>]
=============================================================================
