-------------------------- MODULE MCChildLifecycle --------------------------
(* Instances of ChildLifecycle for TLC. *)
EXTENDS ChildLifecycle, TLC

\* Keys of one verb are interchangeable.
KeySymmetry ==
    Permutations(CreateKeys) \cup Permutations(ResumeKeys) \cup Permutations(StopKeys)

=============================================================================
