------------------------------ MODULE BodyRead ------------------------------
(***************************************************************************)
(* What the client keeps of a response body: readBounded, decodeBody and   *)
(* decompress of internal/httpx/client.go.  A response holds a document of *)
(* a size packed in some way into another, and claims a Content-Encoding.  *)
(*                                                                         *)
(* A definition named X_Y is X with the fault Y seeded: no specification   *)
(* uses it; it shows which property notices that fault.                    *)
(***************************************************************************)
EXTENDS Integers

CONSTANTS
    MaxBody,        \* the limit in bytes
    GzipClaims,     \* claims that, trimmed and in lower case, are gzip or x-gzip
    DeflateClaims   \* claims that, trimmed and in lower case, are deflate

ASSUME MaxBodyAssumption == MaxBody \in Nat \ {0}

Responses(documents, packings, claims) ==
    [doc : documents, size : Nat, encoding : claims,
     packing : packings, packed : Nat]

Wire(r) == [doc |-> r.doc, packing |-> r.packing,
            len |-> IF r.packing = "plain" THEN r.size ELSE r.packed]
Unpacked(r) == [doc |-> r.doc, packing |-> "plain", len |-> r.size]

\* decompress: a deflate stream is tried with its wrapper and without.
Unpacks(claim) == (IF claim \in GzipClaims THEN {"gzip"} ELSE {})
                  \cup (IF claim \in DeflateClaims THEN {"zlib", "flate"} ELSE {})
Decodes(r) == r.packing \in Unpacks(r.encoding)

Shorter(n, m) == IF n < m THEN n ELSE m

Take_UpToTheLimit(b) == [b EXCEPT !.len = Shorter(@, MaxBody)]

\* io.LimitReader: one byte past the limit, to tell that there is more.
Take(b) == [b EXCEPT !.len = Shorter(@, MaxBody + 1)]
TooLarge(b) == b.len > MaxBody

\* A body that is not unpacked is kept as it came.
Kept(r) == IF Decodes(r) THEN Take(Unpacked(r)) ELSE Take(Wire(r))
Oversize(r) == TooLarge(Take(Wire(r))) \/ TooLarge(Kept(r))

\* The body as the endpoint means it, unpacked where the claim is true.
Whole(r) == IF Decodes(r) THEN Unpacked(r) ELSE Wire(r)

=============================================================================
