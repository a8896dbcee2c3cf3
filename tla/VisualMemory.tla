---------------------------- MODULE VisualMemory ----------------------------
(***************************************************************************)
(* The visual memory (visual_memory/): images and texts become assets in   *)
(* SQLite with observations, linked into sequences, and vectors; an index  *)
(* of the vectors is kept in memory and in two files, one after the other. *)
(* SQLite is authoritative, the index can be rebuilt.                      *)
(*                                                                         *)
(* Images are handled on the event loop, which they block; texts in        *)
(* threads.  Each read, transaction, file and locked region is a step; the *)
(* process may end between any two, and start again with another revision  *)
(* of the embedding model.  An asset is named by its content in its        *)
(* namespace, which SQLite keeps unique.                                   *)
(***************************************************************************)
EXTENDS Integers, SequencesExt

CONSTANTS
  Images, Texts,  \* contents
  Near,           \* the pairs of images within the perceptual distance
  Works,          \* what a request may ask for
  Requests,
  Revisions,      \* how many revisions of the embedding model there are
  MaxRestarts, MaxFaults

Nobody == "nobody"
Unscoped == "unscoped"
Unnumbered == -1
NoWork == [item |-> Nobody, crops |-> {}, retention |-> 0, scope |-> Unscoped,
           number |-> Unnumbered]

\* An upload without crops is refused before it reaches the store; a sequence
\* number is not negative.
ASSUME WorksAssumption ==
  \A w \in Works :
    /\ DOMAIN w = DOMAIN NoWork
    /\ w.item \in Images \cup Texts
    /\ IsFiniteSet(w.crops) /\ w.crops # {}
    /\ w.retention \in 0..2
    /\ w.number \in Nat \cup {Unnumbered}

ASSUME MemoryAssumption ==
  /\ Near \subseteq Images \X Images
  /\ Requests \cap {Nobody, "rebuild"} = {}
  /\ Revisions \in Nat \ {0} /\ MaxRestarts \in Nat /\ MaxFaults \in Nat

VARIABLES
  assets,   \* of each asset the retention: 0 metadata-only, 1 thumbnail, 2 full-image
  images,   \* the image files, each <<image, retention>>
  observations,
  vectors,
  files,    \* per revision the labels in the index file and in its metadata
  index,    \* the index in memory
  revision, \* of the embedding model that runs
  task,     \* where each request is
  loop,     \* the request that blocks the event loop
  restarts, faults
memoryVars == <<assets, images, observations, vectors, files, index, revision, task, loop,
                restarts, faults>>

NewTask == [at |-> "new", work |-> NoWork, of |-> Nobody, known |-> FALSE, need |-> {},
            todo |-> {}, level |-> "none"]
Closed == [open |-> FALSE, content |-> {}, labels |-> {}, writer |-> Nobody]
NoFile == [content |-> {}, digest |-> {}]

MemoryInit ==
  /\ assets = <<>> /\ images = {} /\ observations = <<>> /\ vectors = <<>>
  /\ files = [v \in 1..Revisions |-> NoFile]
  /\ index = Closed
  /\ revision = 1
  /\ task = [r \in Requests |-> NewTask]
  /\ loop = Nobody
  /\ restarts = 0 /\ faults = 0

Known(item) == item \in DOMAIN assets
\* find_exact_asset, existing_crop_types, list_vectors
CropsOf(item) ==
  {vectors[v].crop : v \in {x \in DOMAIN vectors :
                             vectors[x].item = item /\ vectors[x].revision = revision}}
Current == {v \in DOMAIN vectors : vectors[v].revision = revision}

At(r, at) == task[r].at = at
Goes(r, at) == task' = [task EXCEPT ![r].at = at]
Frees(r) == loop' = IF loop = r THEN Nobody ELSE loop
Ended(r, at) == [task[r] EXCEPT !.at = at, !.need = {}, !.known = FALSE]
Ends(r, at) == task' = [task EXCEPT ![r] = Ended(r, at)] /\ Frees(r)
Item(r) == task[r].work.item
IsImage(r) == Item(r) \in Images

-----------------------------------------------------------------------------
(* The index: VectorIndex                                                  *)

\* Mutant of Loadable: the metadata is not compared with the store.
LoadableByCount == files[revision] # NoFile /\ Cardinality(files[revision].digest) = Cardinality(files[revision].content)
\* _load_or_rebuild
Loadable ==
  /\ files[revision].digest = Current
  /\ Cardinality(files[revision].content) = Cardinality(Current)

\* get_memory_engine: the first request opens the store and the index.
OpensIndex ==
  /\ ~index.open /\ index.writer = Nobody
  /\ \E r \in Requests : At(r, "arrived")
  /\ IF Loadable
       THEN /\ index' = [Closed EXCEPT !.open = TRUE, !.content = files[revision].content,
                                       !.labels = Current]
            /\ files' = files
       ELSE /\ index' = [Closed EXCEPT !.content = Current, !.labels = Current,
                                       !.writer = "rebuild"]
            /\ files' = [files EXCEPT ![revision].content = Current]
  /\ UNCHANGED <<assets, images, observations, vectors, revision, task, loop, restarts, faults>>

Rebuilds ==
  /\ index.writer = "rebuild"
  /\ files' = [files EXCEPT ![revision].digest = index.labels]
  /\ index' = [index EXCEPT !.writer = Nobody, !.open = TRUE]
  /\ UNCHANGED <<assets, images, observations, vectors, revision, task, loop, restarts, faults>>

\* The last vector answers the request.
Takes(r, v) ==
  IF task[r].todo = {v}
    THEN task' = [task EXCEPT ![r] = [Ended(r, "done") EXCEPT !.todo = {}]] /\ Frees(r)
    ELSE task' = [task EXCEPT ![r].todo = @ \ {v}] /\ loop' = loop

\* add, up to the replaced index file.
Adds(r) ==
  LET v == Min(task[r].todo) IN
  /\ At(r, "adding") /\ index.writer = Nobody
  /\ IF v \in index.labels
       THEN Takes(r, v) /\ UNCHANGED <<index, files>>
       ELSE /\ index' = [index EXCEPT !.content = @ \cup {v}, !.labels = @ \cup {v},
                                      !.writer = r]
            /\ files' = [files EXCEPT ![revision].content = index.content \cup {v}]
            /\ UNCHANGED <<task, loop>>
  /\ UNCHANGED <<assets, images, observations, vectors, revision, restarts, faults>>

\* The metadata file is replaced, and the lock released.
Added(r) ==
  LET v == Min(task[r].todo) IN
  /\ index.writer = r
  /\ files' = [files EXCEPT ![revision].digest = index.labels]
  /\ index' = [index EXCEPT !.writer = Nobody]
  /\ Takes(r, v)
  /\ UNCHANGED <<assets, images, observations, vectors, revision, restarts, faults>>

\* A file cannot be written: the request fails with vectors not yet added (the
\* one it was adding is in memory).
AddFails(r) ==
  LET v == Min(task[r].todo) IN
  /\ At(r, "adding") /\ index.writer \in {Nobody, r}
  /\ faults < MaxFaults /\ faults' = faults + 1
  /\ index' = [index EXCEPT !.writer = Nobody, !.content = @ \cup {v}, !.labels = @ \cup {v}]
  /\ Ends(r, "failed")
  /\ UNCHANGED <<assets, images, observations, vectors, files, revision, restarts>>

-----------------------------------------------------------------------------
(* Observations and their sequences: _insert_observation                   *)

Peers(scope) == {k \in DOMAIN observations : observations[k].scope = scope}
NumberOf(k) == observations[k].number
NextNumber(scope) ==
  IF Peers(scope) = {} THEN 1 ELSE Max({NumberOf(k) : k \in Peers(scope)} \cup {0}) + 1

\* A scope is a sequence of a session; the unique index does not bind where the
\* session is NULL.
Refused(w) ==
  /\ w.scope # Unscoped
  /\ \E k \in Peers(w.scope) : NumberOf(k) = w.number

\* Mutant of Observed: the one that follows is not told of the new one.
ObservedAtEnd(w) ==
  LET new == Len(observations) + 1
      number == IF w.number = Unnumbered THEN NextNumber(w.scope) ELSE w.number
      before == {k \in Peers(w.scope) : NumberOf(k) < number}
      prev == IF before = {} THEN 0 ELSE CHOOSE k \in before : \A j \in before : NumberOf(j) <= NumberOf(k)
  IN  [k \in 1..new |->
         IF k = new THEN [item |-> w.item, scope |-> w.scope, number |-> number,
                          prev |-> prev, next |-> 0]
         ELSE IF k = prev THEN [observations[k] EXCEPT !.next = new]
         ELSE observations[k]]

Observed(w) ==
  LET new == Len(observations) + 1
      peers == IF w.scope = Unscoped THEN {} ELSE Peers(w.scope)
      number == IF w.number = Unnumbered THEN NextNumber(w.scope) ELSE w.number
      before == {k \in peers : NumberOf(k) < number}
      after == {k \in peers : NumberOf(k) > number}
      prev == IF before = {} THEN 0
              ELSE CHOOSE k \in before : \A j \in before : NumberOf(j) <= NumberOf(k)
      next == IF after = {} THEN 0
              ELSE CHOOSE k \in after : \A j \in after : NumberOf(j) >= NumberOf(k)
  IN  [k \in 1..new |->
         CASE k = new -> [item |-> w.item, scope |-> w.scope, number |-> number,
                          prev |-> prev, next |-> next]
           [] k = prev -> [observations[k] EXCEPT !.next = new]
           [] k = next -> [observations[k] EXCEPT !.prev = new]
           [] OTHER -> observations[k]]

-----------------------------------------------------------------------------
(* A request: index_image, index_text                                      *)

\* A handler for an image has the event loop to itself.
Arrives(r, w) ==
  /\ At(r, "new") /\ loop = Nobody
  /\ loop' = IF w.item \in Images THEN r ELSE loop
  /\ task' = [task EXCEPT ![r].at = "arrived", ![r].work = w, ![r].of = w.item]
  /\ UNCHANGED <<assets, images, observations, vectors, files, index, revision, restarts, faults>>

\* The upload cannot be decoded, or the embedding fails.
Rejects(r) ==
  /\ task[r].at \in {"arrived", "choosing", "storing"}
  /\ faults < MaxFaults /\ faults' = faults + 1
  /\ Ends(r, "failed")
  /\ UNCHANGED <<assets, images, observations, vectors, files, index, revision, restarts>>

\* Mutant of Upgraded: another retention is written, higher or not.
UpgradedAny(r) == Known(Item(r)) /\ task[r].work.retention \notin {0, assets[Item(r)]}
Upgraded(r) == Known(Item(r)) /\ task[r].work.retention > assets[Item(r)]
\* ensure_image_retention: only a higher retention is written.
Checks(r) ==
  /\ At(r, "arrived") /\ index.open
  /\ Goes(r, IF IsImage(r) /\ Upgraded(r) THEN "keeping" ELSE "choosing")
  /\ UNCHANGED <<assets, images, observations, vectors, files, index, revision, loop,
                 restarts, faults>>

\* Mutant of Written: any file of the image is taken for the one asked for.
WrittenOnce(r) ==
  images \cup (IF task[r].work.retention = 0 \/ \E k \in 1..2 : <<Item(r), k>> \in images THEN {}
                ELSE {<<Item(r), task[r].work.retention>>})
\* _write_image_representation
Written(r) ==
  images \cup (IF task[r].work.retention = 0 THEN {} ELSE {<<Item(r), task[r].work.retention>>})

Keeps(r) ==
  /\ At(r, "keeping")
  /\ images' = Written(r)
  /\ Goes(r, "kept")
  /\ UNCHANGED <<assets, observations, vectors, files, index, revision, loop, restarts, faults>>

Kept(r) ==
  /\ At(r, "kept")
  /\ assets' = [assets EXCEPT ![Item(r)] = task[r].work.retention]
  /\ Goes(r, "choosing")
  /\ UNCHANGED <<images, observations, vectors, files, index, revision, loop, restarts, faults>>

NearTo(item) == {i \in DOMAIN assets : <<item, i>> \in Near}

\* Nothing to embed: a duplicate is recorded; else the missing crops are embedded.
Chooses(r) ==
  LET need == task[r].work.crops \ CropsOf(Item(r)) IN
  /\ At(r, "choosing")
  /\ \/ /\ Known(Item(r)) /\ need = {}
        /\ task' = [task EXCEPT ![r].at = "repeating", ![r].level = "identical"]
     \/ /\ ~Known(Item(r))
        /\ \E i \in NearTo(Item(r)) :
             task' = [task EXCEPT ![r].at = "repeating", ![r].level = "near_duplicate",
                                  ![r].of = i]
     \/ /\ IF Known(Item(r)) THEN need # {} ELSE NearTo(Item(r)) = {}
        /\ task' = [task EXCEPT ![r].at = "storing", ![r].need = need]
  /\ UNCHANGED <<assets, images, observations, vectors, files, index, revision, loop,
                 restarts, faults>>

\* record_duplicate
Repeats(r) ==
  LET w == [task[r].work EXCEPT !.item = task[r].of] IN
  /\ At(r, "repeating")
  /\ IF Refused(w)
       THEN observations' = observations /\ Ends(r, "failed")
       ELSE observations' = Observed(w) /\ Ends(r, "done")
  /\ UNCHANGED <<assets, images, vectors, files, index, revision, restarts, faults>>

\* The store looks for the asset again, and writes the file of a new image.
Stores(r) ==
  /\ At(r, "storing")
  /\ task' = [task EXCEPT ![r].at = "committing", ![r].known = Known(Item(r)),
                          ![r].level = IF Known(Item(r)) THEN "identical" ELSE "none"]
  /\ images' = IF IsImage(r) /\ ~Known(Item(r)) THEN Written(r) ELSE images
  /\ UNCHANGED <<assets, observations, vectors, files, index, revision, loop, restarts, faults>>

\* The vectors of a transaction: the crops that have none of this revision get one.
Embedded(r) ==
  LET new == SetToSeq(task[r].need \ CropsOf(Item(r)))
  IN  vectors \o [k \in DOMAIN new |-> [item |-> Item(r), crop |-> new[k], revision |-> revision]]

\* The transaction; a text that another thread has inserted meanwhile is an
\* integrity error, as is a sequence number that is taken: nothing is written.
Commits(r) ==
  /\ At(r, "committing")
  /\ IF (~task[r].known /\ Known(Item(r))) \/ Refused(task[r].work)
       THEN Ends(r, "failed") /\ UNCHANGED <<assets, observations, vectors>>
       ELSE /\ assets' = IF Known(Item(r)) THEN assets
                         ELSE [i \in DOMAIN assets \cup {Item(r)} |->
                                 IF i = Item(r) THEN task[r].work.retention ELSE assets[i]]
            /\ observations' = Observed(task[r].work)
            /\ vectors' = Embedded(r)
            /\ task' = [task EXCEPT ![r].at = "adding",
                                    ![r].todo = {v \in DOMAIN vectors' :
                                                   /\ vectors'[v].item = Item(r)
                                                   /\ vectors'[v].revision = revision
                                                   /\ vectors'[v].crop \in task[r].need}]
            /\ loop' = loop
  /\ UNCHANGED <<images, files, index, revision, restarts, faults>>

RequestStep(r) ==
  \/ Checks(r) \/ Keeps(r) \/ Kept(r) \/ Chooses(r) \/ Repeats(r) \/ Stores(r)
  \/ Commits(r) \/ Adds(r) \/ Added(r)
  \/ Rejects(r) \/ AddFails(r)

\* The process ends; what SQLite and the files hold remains.
MemoryRestarts(v) ==
  /\ restarts < MaxRestarts /\ restarts' = restarts + 1
  /\ revision' = v
  /\ index' = Closed
  /\ task' = [r \in Requests |-> IF task[r].at \in {"new", "done", "failed"} THEN task[r]
                                 ELSE Ended(r, "lost")]
  /\ loop' = Nobody
  /\ UNCHANGED <<assets, images, observations, vectors, files, faults>>

MemoryStep ==
  \/ OpensIndex \/ Rebuilds
  \/ \E r \in Requests : RequestStep(r)
  \/ \E v \in revision..Revisions : MemoryRestarts(v)

-----------------------------------------------------------------------------
(* What the memory promises                                                *)

\* docs/visual-memory.md, "HNSW is a rebuildable search accelerator": an index
\* in use holds exactly the labels it claims, all of them vectors of SQLite,
\* and misses none but those of a request that is still adding or has failed,
\* whatever file was replaced when the process ended, and for every revision.
IndexIsStore ==
  index.open =>
    /\ index.content = index.labels
    /\ index.labels \subseteq Current
    /\ \A v \in Current \ index.labels : \E r \in Requests : v \in task[r].todo

\* An image that its row says is retained can be read: the file is there before
\* the row, at every crash and every upgrade of the retention.  The abstract store
\* below says so too; the order of file and row alone is enough to prove it.
RetainedOnDisk ==
  \A i \in DOMAIN assets \cap Images : assets[i] > 0 => <<i, assets[i]>> \in images

Linked(scope) ==
  \A k, j \in Peers(scope) :
    /\ k # j => NumberOf(k) # NumberOf(j)
    /\ observations[k].next = j <=> observations[j].prev = k
    /\ observations[k].next = j <=>
         /\ NumberOf(k) < NumberOf(j)
         /\ ~\E i \in Peers(scope) : NumberOf(k) < NumberOf(i) /\ NumberOf(i) < NumberOf(j)

\* The observations of a session are a doubly linked list in the order of their
\* numbers, in whatever order frames arrive, are numbered, repeated or refused.
SequencesLinked ==
  \A scope \in {observations[k].scope : k \in DOMAIN observations} \ {Unscoped} :
    Linked(scope)

\* The images that assets/read can return.
Retained == {i \in DOMAIN assets \cap Images : assets[i] > 0 /\ <<i, assets[i]>> \in images}
\* The vectors that a search can return.
Findable == IF index.open THEN index.content ELSE {}

\* The memory implements the abstract store: whatever fails, races or restarts, an
\* asset keeps its image and a retention that only grows, is embedded once per crop
\* and revision, and what was committed is found by every index that is opened.
Store == INSTANCE ImageStore
           WITH retention <- assets, readable <- Retained, stored <- vectors,
                serving <- index.open, found <- Findable, model <- revision
ImplementsImageStore == Store!Spec

=============================================================================
