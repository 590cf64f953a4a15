-------------------------- MODULE MCTaskAuthoring --------------------------
(* An instance of TaskAuthoring for TLC. *)
EXTENDS TaskAuthoring, TLC

\* A text whose parts point to different suggestions, and a harmless one.
MCTexts == {{"delete", "diagnostic"}, {"remind", "tomorrow"}}

\* Requests in which several words ask for different things.
MCRequests ==
  {{"find", "inspect", "txt", "pdf", "documents"}, {"summarize", "inspect", "documents"}}
MCFiles ==
  {[name |-> 1, ext |-> "txt", size |-> 1], [name |-> 2, ext |-> "pdf", size |-> 0]}
MCPlaces ==
  {[allowed |-> a, kind |-> "directory", files |-> MCFiles] : a \in BOOLEAN}

Symmetry == Permutations(Command) \cup Permutations(Handler)
=============================================================================
