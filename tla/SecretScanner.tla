--------------------------- MODULE SecretScanner ---------------------------
(***************************************************************************)
(* SecretScanner.scan_multistage: a text is searched, and whatever one of  *)
(* the four decoders makes of it, and of that, down to a depth.            *)
(***************************************************************************)
EXTENDS Naturals

CONSTANT MaxDepth   \* max_depth of scan_multistage

ASSUME SecretScannerAssumption == MaxDepth \in Nat \ {0}

\* _decode_candidates: decodings[t] is what the decoders make of text t, in the
\* order of its numbers; a decoder that gives the text back is passed over.
Candidates(decodings, t) == decodings[t] \ {t}

First(S) == CHOOSE t \in S : \A u \in S : t =< u

\* Slip: one level too few.
ScanTextShort(secrets, decodings, d, deeper, t) ==
  LET found == {c \in Candidates(decodings, t) : deeper[c].blocked}
  IN  IF t \in secrets THEN [blocked |-> TRUE, depth |-> d]
      ELSE IF d + 1 >= MaxDepth \/ found = {} THEN [blocked |-> FALSE, depth |-> d]
      ELSE deeper[First(found)]

\* One call of _scan_recursive, where deeper is what its own calls return: the
\* first candidate that leads to a secret is reported.
ScanText(secrets, decodings, d, deeper, t) ==
  LET found == {c \in Candidates(decodings, t) : deeper[c].blocked}
  IN  IF t \in secrets THEN [blocked |-> TRUE, depth |-> d]
      ELSE IF d >= MaxDepth \/ found = {} THEN [blocked |-> FALSE, depth |-> d]
      ELSE deeper[First(found)]

\* _scan_recursive at every depth and for every text.
ScanRecursive(secrets, decodings) ==
  LET scan[d \in 1 .. MaxDepth] ==
        [t \in DOMAIN decodings |-> ScanText(secrets, decodings, d, scan[d + 1], t)]
  IN  scan

\* scan_multistage.
ScanMultistage(secrets, decodings, text) ==
  ScanRecursive(secrets, decodings)[1][text]

-----------------------------------------------------------------------------
(* What it is for.                                                         *)

\* The texts that n decodings make of a text.
Decoded(decodings, text) ==
  LET after[n \in 0 .. MaxDepth] ==
        IF n = 0 THEN {text} ELSE UNION {decodings[t] : t \in after[n - 1]}
  IN  after

\* A secret that at most MaxDepth - 1 decodings bring out: the text itself is
\* the first of the MaxDepth levels the scanner looks at.
Hidden(secrets, decodings, text) ==
  \E n \in 0 .. MaxDepth - 1 : Decoded(decodings, text)[n] \cap secrets # {}
=============================================================================
