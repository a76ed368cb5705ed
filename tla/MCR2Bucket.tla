----------------------------- MODULE MCR2Bucket -----------------------------
(***************************************************************************)
(* R2Bucket for TLC: values of size 1, the minimum part size.              *)
(***************************************************************************)
EXTENDS R2Bucket, TLC

CONSTANT LargeBlobs  \* the blobs of size 2

MCSize == [b \in Blobs |-> IF b \in LargeBlobs THEN 2 ELSE 1]

\* Values of the same size are the same value, so two blobs may share an ETag.
MCEtags == {"small", "large"}
MCEtag == [b \in Blobs |-> IF b \in LargeBlobs THEN "large" ELSE "small"]

\* No options, replace a small value, and create only.
MCConditions ==
  {NoCondition,
   [NoCondition EXCEPT !.etagMatches = {"small"}],
   [NoCondition EXCEPT !.etagDoesNotMatch = MCEtags \cup {Multipart}]}

\* Names are interchangeable, those of blobs among blobs of the same size.
Symmetry == UNION {Permutations(S) : S \in {Keys, Requests, Uploads, LargeBlobs,
                                             Blobs \ LargeBlobs}}

=============================================================================
