--------------------------- MODULE VisualAnalysis ---------------------------
(***************************************************************************)
(* Detailed analysis and comparison of images (gateway/visual_memory.py,   *)
(* _detailed_visual_analysis of gateway/app.py): the gateway has the image *)
(* indexed, searches what is near it, packs a bounded context of other     *)
(* frames, reads their files and asks the vision model once.  Its requests *)
(* to the memory are requests of the module VisualMemory; each of them may *)
(* fail, or its answer be lost.                                            *)
(***************************************************************************)
EXTENDS VisualMemory

CONSTANTS
  Analyses,      \* the requests of the memory that an analysis makes
  References,    \* what a comparison may name: an image, and a namespace or Nobody
  Namespace,     \* of each image and text
  MaxReferences  \* max_reference_images

ASSUME AnalysisAssumption ==
  Analyses \subseteq Requests /\ Nobody \notin Images /\ MaxReferences \in Nat \ {0}

VARIABLE analysis \* of each analysis
vars == <<memoryVars, analysis>>

NoReference == [item |-> Nobody, namespace |-> Nobody]
NewAnalysis == [at |-> "new", skip |-> FALSE, reference |-> NoReference, readable |-> FALSE,
                pack |-> {}, sent |-> {}]

Init == MemoryInit /\ analysis = [a \in Analyses |-> NewAnalysis]

Reaches(a, at) == analysis' = [analysis EXCEPT ![a].at = at]
Is(a, at) == analysis[a].at = at

\* assets/read: the row is an image's that has a file, in the namespace asked for.
Readable(i, namespace) ==
  i \in Images /\ Known(i) /\ assets[i] > 0 /\ Namespace[i] = namespace

\* _read_asset, in an analysis of item: the reference is looked for where the
\* caller said, any other frame where the search has found it.
Finds(reference, item, i) ==
  Readable(i, IF i = reference.item /\ reference.namespace # Nobody THEN reference.namespace
              ELSE Namespace[item])

\* A comparison names a reference, an analysis may be skipped.  (A reference that
\* is uploaded asks nothing of the memory.)
Begins(a, w, skip, reference) ==
  /\ Is(a, "new")
  /\ w.item \in Images
  /\ skip => reference = NoReference
  /\ Arrives(a, w)
  /\ analysis' = [analysis EXCEPT ![a].at = "indexing", ![a].skip = skip,
                                  ![a].reference = reference,
                                  ![a].readable = Finds(reference, w.item, reference.item)]

\* The frame that the memory answered with: a near duplicate is another's.
Frame(a) == task[a].of

\* The memory has answered; an identical frame may be left unanswered.
Indexed(a) ==
  /\ Is(a, "indexing") /\ task[a].at = "done"
  /\ Reaches(a, IF analysis[a].skip /\ task[a].level = "identical"
                  THEN "skipped" ELSE "searching")
  /\ UNCHANGED memoryVars

\* What a search of the namespace finds, images and texts, all ranks being possible.
Found(namespace) ==
  {i \in Images \cup Texts : /\ Namespace[i] = namespace
                            /\ \E v \in index.labels : vectors[v].item = i}

\* The matches are cut to a number, several may be of one frame: any part of what
\* is found may be left.
Shortened(reference, frames) ==
  {s \in SUBSET (frames \cup ({reference} \ {Nobody})) : Cardinality(s) <= MaxReferences}

\* Mutant of Packs: the reference comes behind what the search has found.
PacksLast(reference, frames) ==
  {s \in Shortened(reference, frames) :
     reference # Nobody /\ Cardinality(s \ {reference}) < MaxReferences => reference \in s}
\* build_context_pack: distinct frames up to the limit, the reference, whose
\* score is the highest, first.
Packs(reference, frames) ==
  {s \in Shortened(reference, frames) : reference # Nobody => reference \in s}

Searches(a) ==
  LET named == analysis[a].reference.item
      reference == IF named = Frame(a) THEN Nobody ELSE named
  IN  /\ Is(a, "searching") /\ loop = Nobody /\ index.open
      /\ \E pack \in Packs(reference, Found(Namespace[Item(a)]) \ {Frame(a)}) :
           analysis' = [analysis EXCEPT ![a].at = "reading", ![a].pack = pack]
      /\ UNCHANGED memoryVars

\* A frame whose image is not retained (404) is left out.
Reads(a, i) ==
  /\ Is(a, "reading") /\ i \in analysis[a].pack
  /\ analysis' = [analysis EXCEPT ![a].pack = @ \ {i},
                    ![a].sent = IF Finds(analysis[a].reference, Item(a), i)
                                  THEN @ \cup {i} ELSE @]
  /\ UNCHANGED memoryVars

\* The vision model answers.
Answers(a) ==
  /\ Is(a, "reading") /\ analysis[a].pack = {}
  /\ Reaches(a, "answered")
  /\ UNCHANGED memoryVars

\* A call fails, is refused, or its answer does not come: the analysis fails,
\* whatever the memory goes on to do.
CallFails(a) ==
  /\ analysis[a].at \in {"indexing", "searching", "reading"}
  /\ analysis' = [analysis EXCEPT ![a] = [NewAnalysis EXCEPT !.at = "failed"]]
  /\ UNCHANGED memoryVars

Analyzes(a) ==
  \/ \E w \in Works, skip \in BOOLEAN, reference \in References \cup {NoReference} :
       Begins(a, w, skip, reference)
  \/ Indexed(a) \/ Searches(a) \/ (\E i \in Images \cup Texts : Reads(a, i)) \/ Answers(a) \/ CallFails(a)

Next ==
  \/ \E a \in Analyses : Analyzes(a)
  \/ (\/ MemoryStep
      \/ \E r \in Requests \ Analyses, w \in Works : Arrives(r, w)) /\ UNCHANGED analysis

Spec == Init /\ [][Next]_vars

-----------------------------------------------------------------------------
\* A comparison that is answered saw the reference its caller named, if the
\* memory could show it when the comparison began: neither what the search
\* finds, nor requests and restarts in between crowd it out or take it away.
\* (The current frame itself is no reference.)
ReferenceSent ==
  \A a \in Analyses :
    Is(a, "answered") /\ analysis[a].readable /\ analysis[a].reference.item # Frame(a)
      => analysis[a].reference.item \in analysis[a].sent
=============================================================================
