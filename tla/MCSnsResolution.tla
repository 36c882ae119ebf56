-------------------------- MODULE MCSnsResolution --------------------------
(* Model-checking instances of the resolver. *)
EXTENDS SnsResolution

(* Nothing, a bare CID, an IPNS link and the URL of a file below a CID typed in capitals. *)
FourSpellings == {Blank, Bare("cid"), Written("ipns:", "key", "/"),
                  Written("https ipfs", "CID", "/File")}
=============================================================================
