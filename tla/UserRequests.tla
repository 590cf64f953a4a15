---------------------------- MODULE UserRequests ----------------------------
(***************************************************************************)
(* Requests in the user's words: the planner, which shows what a request   *)
(* would do (scripts/dev/plan-user-request-json.ts), the bridge, which     *)
(* does it (execute-planned-request-json.ts) and infers the plan a second  *)
(* time, and the three read-only capabilities behind it (fsInspect,        *)
(* fsSearch and fsSummarize). A request is the set of the words in it that *)
(* either of the two looks for; synonyms are one word, and none of the     *)
(* words is there that make a search look at the names of files.           *)
(***************************************************************************)
EXTENDS Naturals, FiniteSets

RequestWord == {"find", "summarize", "inspect", "large files", "duplicate",
                "documents", "txt", "pdf"}

Capability == {"search", "summary", "inspect"}

Extension == {"txt", "pdf"}
AnyExtension == "any"

\* What a path leads to: nothing, a file, or a directory with its files; a size
\* is 0 also for a file that was removed after the directory was read.
Entry == [name: 1 .. 2, ext: Extension \cup {"none"}, size: 0 .. 1]
Place == [allowed: BOOLEAN, kind: {"absent", "file", "directory"},
          files: {F \in SUBSET Entry : Cardinality({f.name : f \in F}) = Cardinality(F)}]

None == "none"

planUserRequest(words) ==
  CASE "find" \in words -> "search"
    [] "find" \notin words /\ "summarize" \in words -> "summary"
    [] words \cap {"find", "summarize"} = {} /\ "inspect" \in words -> "inspect"
    [] words \cap {"find", "summarize", "inspect"} = {}
         /\ words \cap {"large files", "duplicate"} # {} -> "search"
    [] OTHER -> None

inferCapabilityBug(words) ==
  IF "inspect" \in words THEN "inspect" ELSE planUserRequest(words)

inferCapability(words) ==
  IF words \cap {"find", "summarize", "inspect"} = {} THEN None
  ELSE IF "find" \in words THEN "search"
  ELSE IF "summarize" \in words THEN "summary" ELSE "inspect"

inferPath(words) == "documents" \in words
inferExtension(words) ==
  CASE "txt" \in words -> "txt"
    [] "txt" \notin words /\ "pdf" \in words -> "pdf"
    [] OTHER -> AnyExtension

\* inspectDirectory throws on a path that the access policy denies.
inspectDirectory(place) ==
  [ok    |-> place.allowed /\ place.kind = "directory",
   files |-> IF place.allowed /\ place.kind = "directory" THEN place.files ELSE {}]

searchDirectory(place, ext, minSize) ==
  [ok    |-> inspectDirectory(place).ok,
   files |-> {f \in inspectDirectory(place).files :
                (ext # AnyExtension => f.ext = ext) /\ f.size >= minSize}]

\* How many files there are, and how many of each extension. The sum of their
\* sizes is left out.
summarizeDirectory(place) ==
  LET found == inspectDirectory(place) IN
    [ok    |-> found.ok,
     count |-> Cardinality(found.files),
     breakdown |-> [x \in {f.ext : f \in found.files} |->
                      Cardinality({f \in found.files : f.ext = x})]]

NoFiles == [ok |-> FALSE, files |-> {}]

\* What the bridge answers: which capability it has run, or none, whether that
\* went well, and the files it lists.
executePlannedRequest(words, place) ==
  LET capability == IF inferPath(words) THEN inferCapability(words) ELSE None
      result     == CASE capability = "search"  -> searchDirectory(place, inferExtension(words), 0)
                      [] capability = "inspect" -> inspectDirectory(place)
                      [] capability = "summary" -> [ok |-> summarizeDirectory(place).ok, files |-> {}]
                      [] OTHER                  -> NoFiles
  IN [capability |-> capability, ok |-> result.ok, files |-> result.files]
=============================================================================
