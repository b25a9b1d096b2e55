----------------------------- MODULE MCSkillPacks -----------------------------
(* A small instance of SkillPacks for TLC. *)
EXTENDS SkillPacks, TLC

MCSymmetry == Permutations(Publishers) \cup Permutations(Creators)
=============================================================================
