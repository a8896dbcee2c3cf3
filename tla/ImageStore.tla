----------------------------- MODULE ImageStore -----------------------------
(***************************************************************************)
(* What the visual memory promises, without files, threads or failures: an *)
(* asset once stored stays, with the image it retains; what it shows gets  *)
(* one vector per crop and revision of the model; what a search may find   *)
(* only grows until a restart, after which everything stored is found.     *)
(* VisualMemory is shown to implement it.                                  *)
(***************************************************************************)
EXTENDS Naturals

CONSTANTS Images, Texts

VARIABLES
  retention, \* of each asset, from 0 (metadata only) to 2 (the full image)
  readable,  \* the images that can be read back as their retention says
  stored,    \* the sequence of vectors
  serving,   \* searches and requests are answered
  found,     \* the vectors that a search may find
  model      \* the revision of the embedding model
vars == <<retention, readable, stored, serving, found, model>>

Searchable == {v \in DOMAIN stored : stored[v].revision = model}

Init ==
  /\ retention = <<>> /\ readable = {} /\ stored = <<>>
  /\ serving = FALSE /\ found = {} /\ model = 1

\* New vectors are of the item, and none repeats another.
Embeds(item) ==
  /\ serving
  /\ DOMAIN stored \subseteq DOMAIN stored'
  /\ \A v \in DOMAIN stored : stored'[v] = stored[v]
  /\ \A v \in DOMAIN stored' \ DOMAIN stored :
       /\ stored'[v].item = item /\ stored'[v].revision = model
       /\ \A u \in DOMAIN stored' \ {v} : stored'[u] # stored'[v]
  /\ UNCHANGED <<serving, found, model>>

\* A new asset comes with vectors, and its image with what is retained of it.
Stores(item, kept) ==
  /\ item \notin DOMAIN retention
  /\ Embeds(item) /\ DOMAIN stored' # DOMAIN stored
  /\ retention' = [i \in DOMAIN retention \cup {item} |->
                     IF i = item THEN kept ELSE retention[i]]
  /\ readable' = readable \cup {i \in Images : i = item /\ kept > 0}

\* More crops of an asset, or the same for another revision.
Extends(item) ==
  /\ item \in DOMAIN retention
  /\ Embeds(item)
  /\ UNCHANGED <<retention, readable>>

\* More is retained of an image, never less.
Upgrades(i, kept) ==
  /\ i \in DOMAIN retention /\ kept > retention[i]
  /\ retention' = [retention EXCEPT ![i] = kept]
  /\ readable' = readable \cup {i}
  /\ UNCHANGED <<stored, serving, found, model>>

Indexes(v) ==
  /\ serving
  /\ v \in Searchable \ found
  /\ found' = found \cup {v}
  /\ UNCHANGED <<retention, readable, stored, serving, model>>

Stops(revision) ==
  /\ serving' = FALSE /\ found' = {} /\ model' = revision
  /\ UNCHANGED <<retention, readable, stored>>

Opens ==
  /\ ~serving
  /\ serving' = TRUE /\ found' = Searchable
  /\ UNCHANGED <<retention, readable, stored, model>>

Next ==
  \/ \E item \in Images \cup Texts : Extends(item) \/ \E kept \in 0..2 : Stores(item, kept)
  \/ \E i \in Images, kept \in 0..2 : Upgrades(i, kept)
  \/ \E v \in DOMAIN stored : Indexes(v)
  \/ \E revision \in {model, model'} : model <= revision /\ Stops(revision)
  \/ Opens

Spec == Init /\ [][Next]_vars
=============================================================================
