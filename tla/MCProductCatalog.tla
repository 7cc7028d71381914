-------------------------- MODULE MCProductCatalog --------------------------
(***************************************************************************)
(* An instance of ProductCatalog for TLC.                                  *)
(***************************************************************************)
EXTENDS ProductCatalog, TLC

CONSTANTS l1, padded, relative

\* A link sent with blanks around it, and one that is refused.
OneLinkClean == padded :> l1 @@ relative :> None

\* Ids, requests and slugs are alike.
Alike == Permutations(Ids) \cup Permutations(Requests) \cup Permutations(Slugs)
=============================================================================
