-------------------------- MODULE AtomicReferences --------------------------
(***************************************************************************)
(* What a durable multi-reference update promises: the references change   *)
(* only by whole, admissible update sets.  Process deaths, I/O errors and  *)
(* power failures are stuttering steps of this specification.              *)
(***************************************************************************)
EXTENDS ReferenceUpdates

VARIABLE refs

Init == refs \in [Names -> Ref]

Commit(us) ==
    /\ Admissible(us, refs)
    /\ refs' = Applied(us, refs)

Next == \E us \in Requests : Commit(us)

Spec == Init /\ [][Next]_refs
=============================================================================
