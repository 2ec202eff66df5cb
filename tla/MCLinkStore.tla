---------------------------- MODULE MCLinkStore ----------------------------
(***************************************************************************)
(* Small instances of LinkStore.  MCLinkStore.cfg: one slug, two resolves  *)
(* and a writer against the clock, so entries expire, links expire and are *)
(* swept and their code is taken again.  MCLinkStoreCodes.cfg: a slug and  *)
(* a generated code, two writers, a cache with room for one entry.         *)
(***************************************************************************)
EXTENDS LinkStoreProperties, TLC

Symmetry == Permutations(Readers)
=============================================================================
