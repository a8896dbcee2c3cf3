------------------------ MODULE VisualAnalysisProofs ------------------------
(* Proofs about the visual memory and the analyses that use it, for any    *)
(* images, texts, requests, revisions of the model and number of crashes.  *)
EXTENDS VisualAnalysis, FiniteSetTheorems, SequenceTheorems, NaturalsInduction, TLAPS

-----------------------------------------------------------------------------
(* The memory by itself                                                    *)

\* What the memory does, whoever calls it.
MemoryNext == MemoryStep \/ \E r \in Requests, w \in Works : Arrives(r, w)

\* An analysis uses the memory as any request does.
LEMMA AnalysesUseTheMemory == [Next]_vars => [MemoryNext]_memoryVars
<1> SUFFICES ASSUME [Next]_vars PROVE [MemoryNext]_memoryVars
  OBVIOUS
<1>1. ASSUME NEW a \in Analyses, Analyzes(a) PROVE [MemoryNext]_memoryVars
  <2>1. a \in Requests
    BY AnalysisAssumption
  <2>2. ASSUME NEW w \in Works, NEW skip \in BOOLEAN,
               NEW reference \in References \cup {NoReference}, Begins(a, w, skip, reference)
        PROVE  MemoryNext
    BY <2>1, <2>2 DEF Begins, MemoryNext
  <2>3. ASSUME Indexed(a) \/ Searches(a) \/ (\E i \in Images \cup Texts : Reads(a, i)) \/ Answers(a)
               \/ CallFails(a)
        PROVE  UNCHANGED memoryVars
    <3>1. CASE CallFails(a)
      BY <3>1 DEF CallFails
    <3> QED
      BY <2>3, <3>1 DEF Indexed, Searches, Reads, Answers
  <2> QED
    BY <1>1, <2>2, <2>3 DEF Analyzes
<1>2. ASSUME MemoryStep \/ \E r \in Requests \ Analyses, w \in Works : Arrives(r, w)
      PROVE  MemoryNext
  BY <1>2 DEF MemoryNext
<1>3. UNCHANGED vars => UNCHANGED memoryVars
  BY DEF vars
<1> QED
  BY <1>1, <1>2, <1>3 DEF Next

Items == Images \cup Texts
Crops == UNION {w.crops : w \in Works}
Scopes == {w.scope : w \in Works} \cup {Unscoped}
TaskStates == {"new", "arrived", "keeping", "kept", "choosing", "repeating", "storing",
               "committing", "adding", "done", "failed", "lost"}

\* The states in which a request has not yet looked at the index, or is over.
Outside == {"new", "arrived", "done", "failed", "lost"}

Tasks == [at : TaskStates, work : Works \cup {NoWork}, of : Items \cup {Nobody},
          known : BOOLEAN, need : SUBSET Crops, todo : SUBSET Nat,
          level : {"none", "identical", "near_duplicate"}]
Indexes == [open : BOOLEAN, content : SUBSET Nat, labels : SUBSET Nat,
            writer : Requests \cup {Nobody, "rebuild"}]
Files == [content : SUBSET Nat, digest : SUBSET Nat]
Vectors == [item : Items, crop : Crops, revision : 1..Revisions]

TaskTypes ==
  /\ task \in [Requests -> Tasks]
  /\ \A r \in Requests : task[r].at # "new" => task[r].work \in Works

\* A request needs crops of its work alone.
NeedInv ==
  \A r \in Requests : /\ task[r].need \subseteq task[r].work.crops
                      /\ task[r].at = "new" => task[r].need = {}

MemoryTypes ==
  /\ TaskTypes
  /\ NeedInv
  /\ assets \in [DOMAIN assets -> 0..2]
  /\ DOMAIN assets \subseteq Items
  /\ vectors \in Seq(Vectors)
  /\ revision \in 1..Revisions
  /\ files \in [1..Revisions -> Files]
  /\ index \in Indexes

\* The labels that a transaction leaves for the index stay with the request
\* until it has added them; what an asset has been given, it has in the store.
TaskInv ==
  /\ \A r \in Requests :
       /\ task[r].at \notin {"adding", "failed", "lost"} => task[r].todo = {}
       /\ task[r].at \notin Outside => index.open
       /\ task[r].at \in {"storing", "committing"} => task[r].need # {}
       /\ task[r].at = "adding" => task[r].todo # {} /\ task[r].todo \subseteq Current
  /\ \A v \in DOMAIN vectors : Known(vectors[v].item)

Labels(rev) == {v \in DOMAIN vectors : vectors[v].revision = rev}

\* The index and its files, by who writes them.
WriterInv ==
  /\ \A r \in Requests :
       index.writer = r => task[r].at = "adding" /\ Min(task[r].todo) \in index.labels
  /\ index.writer = "rebuild" =>
       ~index.open /\ index.content = Current /\ index.labels = Current
  /\ index.open => index.content = index.labels /\ files[revision].digest \subseteq index.labels
  /\ index.writer # Nobody => files[revision].content = index.content
  /\ \A rev \in 1..Revisions :
       files[rev].digest \subseteq files[rev].content /\ files[rev].content \subseteq Labels(rev)

IndexInv == IndexIsStore /\ WriterInv

\* The file of an image is there before the row that promises it.
Promised(r) == task[r].work.retention > 0 => <<Item(r), task[r].work.retention>> \in images
FileReady(r) ==
  /\ task[r].at = "keeping" => Known(Item(r)) /\ task[r].work.retention > 0
  /\ task[r].at = "kept" => Known(Item(r)) /\ task[r].work.retention > 0 /\ Promised(r)
  /\ task[r].at = "committing" /\ task[r].known => Known(Item(r))
  /\ task[r].at = "committing" /\ ~task[r].known /\ IsImage(r) => Promised(r)

FileInv == RetainedOnDisk /\ \A r \in Requests : FileReady(r)

-----------------------------------------------------------------------------
(* Types                                                                   *)

\* The work of a request.
LEMMA WorkTypes ==
  ASSUME NEW w \in Works \cup {NoWork}
  PROVE  /\ DOMAIN w = DOMAIN NoWork
         /\ w.retention \in 0..2
         /\ w.number \in Nat \cup {Unnumbered}
         /\ w.crops \in SUBSET Crops
         /\ w.scope \in Scopes
         /\ w.item \in Items \cup {Nobody}
         /\ w \in Works => w.item \in Items /\ w.crops # {}
         /\ IsFiniteSet(w.crops)
<1>1. CASE w \in Works
  <2>1. w.crops \in SUBSET Crops /\ w.scope \in Scopes
    BY <1>1 DEF Crops, Scopes
  <2>2. /\ DOMAIN w = DOMAIN NoWork /\ w.retention \in 0..2
        /\ w.number \in Nat \cup {Unnumbered}
    BY <1>1, WorksAssumption
  <2>3. w.item \in Items /\ IsFiniteSet(w.crops) /\ w.crops # {}
    BY <1>1, WorksAssumption DEF Items
  <2> QED
    BY <1>1, <2>1, <2>2, <2>3
<1>2. CASE w = NoWork /\ w \notin Works
  BY <1>2, FS_EmptySet DEF NoWork, Scopes
<1> QED
  BY <1>1, <1>2

\* What a step that moves one request says of the tasks.
Moved(r, t) ==
  /\ TaskTypes'
  /\ task'[r] = t
  /\ \A q \in Requests \ {r} : task'[q] = task[q]

LEMMA Moves ==
  ASSUME TaskTypes, NEW r \in Requests, NEW t \in Tasks,
         t.at # "new" => t.work \in Works, task' = [task EXCEPT ![r] = t]
  PROVE  Moved(r, t)
  BY DEF TaskTypes, Moved

LEMMA AtWork ==
  ASSUME TaskTypes, NEW r \in Requests
  PROVE  task[r] \in Tasks /\ (task[r].at # "new" => task[r].work \in Works)
  BY DEF TaskTypes

LEMMA ArrivesMoves ==
  ASSUME TaskTypes, NEW r \in Requests, NEW w \in Works, Arrives(r, w)
  PROVE  Moved(r, [task[r] EXCEPT !.at = "arrived", !.work = w, !.of = w.item])
<1> DEFINE t == [task[r] EXCEPT !.at = "arrived", !.work = w, !.of = w.item]
<1>1. task' = [task EXCEPT ![r] = t]
  BY DEF Arrives
<1>2. t \in Tasks /\ t.work \in Works
  BY AtWork, WorkTypes DEF Tasks, TaskStates
<1> HIDE DEF t
<1>3. Moved(r, t)
  BY <1>1, <1>2, Moves
<1> QED
  BY <1>3 DEF t

LEMMA GoesMoves ==
  ASSUME TaskTypes, NEW r \in Requests, task[r].at # "new", NEW at \in TaskStates \ {"new"},
         Goes(r, at)
  PROVE  Moved(r, [task[r] EXCEPT !.at = at])
<1> DEFINE t == [task[r] EXCEPT !.at = at]
<1>1. task' = [task EXCEPT ![r] = t]
  BY DEF Goes
<1>2. t \in Tasks /\ t.work \in Works
  BY AtWork DEF Tasks
<1> HIDE DEF t
<1>3. Moved(r, t)
  BY <1>1, <1>2, Moves
<1> QED
  BY <1>3 DEF t

LEMMA EndsMoves ==
  ASSUME TaskTypes, NEW r \in Requests, task[r].at # "new", NEW at \in TaskStates \ {"new"},
         Ends(r, at)
  PROVE  Moved(r, [task[r] EXCEPT !.at = at, !.need = {}, !.known = FALSE])
<1> DEFINE t == [task[r] EXCEPT !.at = at, !.need = {}, !.known = FALSE]
<1>1. task' = [task EXCEPT ![r] = t]
  BY DEF Ends, Ended
<1>2. t \in Tasks /\ t.work \in Works
  BY AtWork DEF Tasks
<1> HIDE DEF t
<1>3. Moved(r, t)
  BY <1>1, <1>2, Moves
<1> QED
  BY <1>3 DEF t

LEMMA StoresMoves ==
  ASSUME TaskTypes, NEW r \in Requests, Stores(r)
  PROVE  Moved(r, [task[r] EXCEPT !.at = "committing", !.known = Known(Item(r)),
                                  !.level = IF Known(Item(r)) THEN "identical" ELSE "none"])
<1> DEFINE t == [task[r] EXCEPT !.at = "committing", !.known = Known(Item(r)),
                                !.level = IF Known(Item(r)) THEN "identical" ELSE "none"]
<1>1. task' = [task EXCEPT ![r] = t]
  BY DEF Stores
<1>2. t \in Tasks /\ t.work \in Works
  <2>1. task[r] \in Tasks /\ task[r].work \in Works
    BY AtWork DEF Stores, At
  <2>2. CASE Known(Item(r))
    BY <2>1, <2>2 DEF Tasks, TaskStates
  <2>3. CASE ~Known(Item(r))
    <3>1. Known(Item(r)) = FALSE
      BY <2>3 DEF Known
    <3> QED
      BY <2>1, <3>1 DEF Tasks, TaskStates
  <2> QED
    BY <2>2, <2>3
<1> HIDE DEF t
<1>3. Moved(r, t)
  BY <1>1, <1>2, Moves
<1> QED
  BY <1>3 DEF t

\* The request records another look at its content, or has crops to store.
LEMMA ChoosesMoves ==
  ASSUME TaskTypes, DOMAIN assets \subseteq Items, NEW r \in Requests, Chooses(r)
  PROVE  LET need == task[r].work.crops \ CropsOf(Item(r)) IN
         \/ Moved(r, [task[r] EXCEPT !.at = "repeating", !.level = "identical"])
         \/ \E i \in Items :
              Moved(r, [task[r] EXCEPT !.at = "repeating", !.level = "near_duplicate", !.of = i])
         \/ /\ Known(Item(r)) => need # {}
            /\ Moved(r, [task[r] EXCEPT !.at = "storing", !.need = need])
<1> DEFINE need == task[r].work.crops \ CropsOf(Item(r))
           t == [task[r] EXCEPT !.at = "storing", !.need = need]
           s == [task[r] EXCEPT !.at = "repeating", !.level = "identical"]
           n(i) == [task[r] EXCEPT !.at = "repeating", !.level = "near_duplicate", !.of = i]
<1>1. task[r] \in Tasks /\ task[r].work \in Works
  BY AtWork DEF Chooses, At
<1>2. need \in SUBSET Crops
  BY <1>1, WorkTypes
<1>3. t \in Tasks /\ t.work \in Works /\ s \in Tasks /\ s.work \in Works
  BY <1>1, <1>2 DEF Tasks, TaskStates
<1>4. \A i \in Items : n(i) \in Tasks /\ n(i).work \in Works
  BY <1>1 DEF Tasks, TaskStates
<1>5. \/ task' = [task EXCEPT ![r] = s]
      \/ \E i \in DOMAIN assets : task' = [task EXCEPT ![r] = n(i)]
      \/ ((Known(Item(r)) => need # {}) /\ task' = [task EXCEPT ![r] = t])
  BY DEF Chooses, NearTo
<1> HIDE DEF t, s, n
<1>6. \/ Moved(r, s)
      \/ \E i \in Items : Moved(r, n(i))
      \/ (Known(Item(r)) => need # {}) /\ Moved(r, t)
  BY <1>3, <1>4, <1>5, Moves
<1> QED
  BY <1>6 DEF t, s, n

\* The labels that a transaction leaves for the index.
Wanted(r) ==
  {v \in DOMAIN vectors' : /\ vectors'[v].item = Item(r)
                           /\ vectors'[v].revision = revision
                           /\ vectors'[v].crop \in task[r].need}

LEMMA CommitsMoves ==
  ASSUME TaskTypes, vectors' \in Seq(Vectors), NEW r \in Requests, Commits(r), ~Ends(r, "failed")
  PROVE  Moved(r, [task[r] EXCEPT !.at = "adding", !.todo = Wanted(r)])
<1> DEFINE t == [task[r] EXCEPT !.at = "adding", !.todo = Wanted(r)]
<1>1. task' = [task EXCEPT ![r] = t]
  BY DEF Commits, Wanted
<1>2. Wanted(r) \in SUBSET Nat
  BY DEF Wanted
<1>3. t \in Tasks /\ t.work \in Works
  BY <1>2, AtWork DEF Tasks, TaskStates, Commits, At
<1> HIDE DEF t
<1>4. Moved(r, t)
  BY <1>1, <1>3, Moves
<1> QED
  BY <1>4 DEF t

LEMMA TakesMoves ==
  ASSUME TaskTypes, NEW r \in Requests, task[r].at # "new", NEW v, Takes(r, v)
  PROVE  \/ /\ task[r].todo = {v}
            /\ Moved(r, [task[r] EXCEPT !.at = "done", !.need = {}, !.known = FALSE, !.todo = {}])
         \/ /\ task[r].todo # {v}
            /\ Moved(r, [task[r] EXCEPT !.todo = @ \ {v}])
<1> DEFINE t == [task[r] EXCEPT !.at = "done", !.need = {}, !.known = FALSE, !.todo = {}]
           s == [task[r] EXCEPT !.todo = @ \ {v}]
<1>1. task[r] \in Tasks /\ task[r].work \in Works
  BY AtWork
<1>2. \/ (task[r].todo = {v} /\ task' = [task EXCEPT ![r] = t])
      \/ (task[r].todo # {v} /\ task' = [task EXCEPT ![r] = s])
  BY <1>1 DEF Takes, Ended, Tasks
<1>3. t \in Tasks /\ t.work \in Works /\ s \in Tasks /\ s.work \in Works
  BY <1>1 DEF Tasks, TaskStates
<1> HIDE DEF t, s
<1>4. (task[r].todo = {v} /\ Moved(r, t)) \/ (task[r].todo # {v} /\ Moved(r, s))
  BY <1>2, <1>3, Moves
<1> QED
  BY <1>4 DEF t, s

-----------------------------------------------------------------------------
(* What a transaction adds to the vectors                                  *)

\* SetToSeq lists a finite set.
LEMMA SetToSeqLists ==
  ASSUME NEW S, IsFiniteSet(S)
  PROVE  /\ Cardinality(S) \in Nat
         /\ SetToSeq(S) \in [1..Cardinality(S) -> S]
         /\ \A x \in S : \E k \in 1..Cardinality(S) : SetToSeq(S)[k] = x
         /\ \A j, k \in 1..Cardinality(S) : SetToSeq(S)[j] = SetToSeq(S)[k] => j = k
<1> DEFINE n == Cardinality(S)
           g == SetToSeq(S)
<1>1. n \in Nat /\ ExistsBijection(1..n, S)
  BY FS_CardinalityType
<1>2. PICK f \in [1..n -> S] : IsInjective(f)
  BY <1>1 DEF ExistsBijection, Bijection, Injection
<1>3. g \in [1..n -> S] /\ IsInjective(g)
  BY <1>2 DEF SetToSeq
<1>4. g \in Injection(1..n, S)
  BY <1>3 DEF Injection
<1>5. Cardinality(1..n) = n
  BY <1>1, FS_Interval
<1>6. g \in Surjection(1..n, S)
  BY <1>4, <1>5, FS_Injection
<1>7. \A j, k \in 1..n : g[j] = g[k] => j = k
  BY <1>3 DEF IsInjective
<1> QED
  BY <1>1, <1>3, <1>6, <1>7 DEF Surjection

\* What was a vector stays one; the new ones are the crops the request needs, each
\* of which has its vector now, and none of them twice.
Extends(r) ==
  /\ vectors' \in Seq(Vectors)
  /\ DOMAIN vectors \subseteq DOMAIN vectors'
  /\ \A v \in DOMAIN vectors : vectors'[v] = vectors[v]
  /\ \A v \in DOMAIN vectors' \ DOMAIN vectors :
       /\ vectors'[v].item = Item(r) /\ vectors'[v].revision = revision
       /\ vectors'[v].crop \in task[r].need
       /\ \A u \in DOMAIN vectors' \ {v} : vectors'[u] # vectors'[v]
  /\ \A c \in task[r].need : \E v \in DOMAIN vectors' :
       vectors'[v].item = Item(r) /\ vectors'[v].revision = revision /\ vectors'[v].crop = c

LEMMA EmbeddedExtends ==
  ASSUME MemoryTypes, NEW r \in Requests, task[r].need \subseteq task[r].work.crops,
         task[r].at # "new", vectors' = Embedded(r)
  PROVE  Extends(r)
<1> DEFINE S == task[r].need \ CropsOf(Item(r))
           m == Len(vectors)
           n == Cardinality(S)
           g == SetToSeq(S)
           row(k) == [item |-> Item(r), crop |-> g[k], revision |-> revision]
           added == [k \in 1..n |-> row(k)]
<1>1. task[r].work \in Works /\ task[r] \in Tasks
  BY AtWork DEF MemoryTypes
<1>2. IsFiniteSet(task[r].work.crops) /\ Item(r) \in Items /\ task[r].work.crops \subseteq Crops
  BY <1>1, WorkTypes DEF Item
<1>3. IsFiniteSet(S)
  BY <1>2, FS_Subset
<1>4. /\ n \in Nat /\ g \in [1..n -> S] /\ \A x \in S : \E k \in 1..n : g[k] = x
      /\ \A j, k \in 1..n : g[j] = g[k] => j = k
  BY <1>3, SetToSeqLists
<1>5. vectors \in Seq(Vectors) /\ revision \in 1..Revisions
  BY DEF MemoryTypes
<1>6. \A k \in 1..n : row(k) \in Vectors
  BY <1>2, <1>4, <1>5 DEF Vectors
<1>7. added \in [1..n -> Vectors]
  BY <1>6
<1>8. added \in Seq(Vectors) /\ Len(added) = n
  <2> HIDE DEF added, n
  <2>1. added \in Seq(Vectors)
    BY <1>4, <1>7, SeqDef
  <2> QED
    BY <1>4, <1>7, <2>1, LenProperties
<1>9. vectors' = vectors \o added
  BY <1>4 DEF Embedded
<1>10. /\ m \in Nat /\ DOMAIN vectors = 1..m
       /\ vectors' \in Seq(Vectors) /\ DOMAIN vectors' = 1..(m + n)
       /\ DOMAIN vectors \subseteq DOMAIN vectors'
       /\ \A v \in DOMAIN vectors : vectors'[v] = vectors[v]
       /\ \A v \in (m + 1)..(m + n) : vectors'[v] = added[v - m]
  <2> HIDE DEF added, n, m, g
  <2>1. /\ vectors \o added \in Seq(Vectors) /\ Len(vectors \o added) = Len(vectors) + Len(added)
        /\ \A v \in 1..(Len(vectors) + Len(added)) :
             (vectors \o added)[v] = IF v <= Len(vectors) THEN vectors[v]
                                     ELSE added[v - Len(vectors)]
    BY <1>5, <1>8, ConcatProperties
  <2>2. Len(vectors) \in Nat /\ DOMAIN vectors = 1..Len(vectors)
        /\ DOMAIN (vectors \o added) = 1..Len(vectors \o added)
    BY <1>5, <2>1, LenProperties
  <2>3. n \in Nat /\ Len(added) = n /\ m = Len(vectors)
    BY <1>4, <1>8 DEF m
  <2> QED
    BY <1>9, <2>1, <2>2, <2>3
<1>11. ASSUME NEW c \in task[r].need
       PROVE  \E v \in DOMAIN vectors' :
                vectors'[v].item = Item(r) /\ vectors'[v].revision = revision /\ vectors'[v].crop = c
  <2>1. CASE c \in S
    <3>1. PICK k \in 1..n : g[k] = c
      BY <1>4, <2>1
    <3>2. /\ m + k \in (m + 1)..(m + n) /\ (m + k) - m = k
          /\ m + k \in DOMAIN vectors'
      BY <1>4, <1>10
    <3>3. vectors'[m + k] = row(k)
      BY <1>10, <3>1, <3>2
    <3>4. /\ vectors'[m + k].item = Item(r) /\ vectors'[m + k].revision = revision
          /\ vectors'[m + k].crop = c
      BY <3>1, <3>3
    <3> QED
      BY <3>2, <3>4
  <2>2. CASE c \notin S
    <3>1. PICK v \in DOMAIN vectors :
            vectors[v].item = Item(r) /\ vectors[v].revision = revision /\ vectors[v].crop = c
      BY <2>2 DEF CropsOf
    <3>2. v \in DOMAIN vectors' /\ vectors'[v] = vectors[v]
      BY <1>10
    <3> QED
      BY <3>1, <3>2
  <2> QED
    BY <2>1, <2>2
<1>12. ASSUME NEW v \in DOMAIN vectors' \ DOMAIN vectors
       PROVE  /\ vectors'[v].item = Item(r) /\ vectors'[v].revision = revision
              /\ vectors'[v].crop \in task[r].need
              /\ vectors'[v].crop = g[v - m] /\ g[v - m] \in S /\ v - m \in 1..n
  <2>1. v \in (m + 1)..(m + n) /\ v - m \in 1..n
    BY <1>4, <1>10
  <2>2. vectors'[v] = row(v - m) /\ g[v - m] \in S
    BY <1>4, <1>10, <2>1
  <2> QED
    BY <2>1, <2>2
<1>13. ASSUME NEW v \in DOMAIN vectors' \ DOMAIN vectors, NEW u \in DOMAIN vectors' \ {v},
              vectors'[u] = vectors'[v]
       PROVE  FALSE
  <2>1. CASE u \in DOMAIN vectors
    <3>1. vectors'[v] = vectors[u]
      BY <1>10, <1>13, <2>1
    <3>2. /\ vectors[u].item = Item(r) /\ vectors[u].revision = revision
          /\ vectors[u].crop \in S
      <4> HIDE DEF S, g, n, m
      <4> QED
        BY <1>12, <3>1
    <3>3. vectors[u].crop \in CropsOf(Item(r))
      <4> HIDE DEF S
      <4> QED
        BY <2>1, <3>2 DEF CropsOf
    <3> QED
      BY <3>2, <3>3
  <2>2. CASE u \notin DOMAIN vectors
    <3> HIDE DEF S, g, n, m
    <3>1. /\ vectors'[v].crop = g[v - m] /\ v - m \in 1..n
          /\ vectors'[u].crop = g[u - m] /\ u - m \in 1..n
      BY <1>12, <2>2
    <3>2. v - m = u - m
      BY <1>4, <1>13, <3>1
    <3>3. u \in Int /\ v \in Int /\ m \in Int
      BY <1>4, <1>10
    <3> QED
      BY <1>13, <3>2, <3>3
  <2> QED
    BY <2>1, <2>2
<1> HIDE DEF S, m, n, g, row, added
<1> QED
  BY <1>10, <1>11, <1>12, <1>13 DEF Extends

-----------------------------------------------------------------------------
(* Type correctness                                                        *)

LEMMA MemoryTypesInit == MemoryInit => MemoryTypes
<1> SUFFICES ASSUME MemoryInit PROVE MemoryTypes
  OBVIOUS
<1>1. NewTask \in Tasks /\ NewTask.at = "new" /\ NewTask.need = {}
  BY DEF NewTask, Tasks, TaskStates
<1>2. TaskTypes /\ NeedInv
  BY <1>1 DEF MemoryInit, TaskTypes, NeedInv
<1>3. assets \in [DOMAIN assets -> 0..2] /\ DOMAIN assets \subseteq Items
  BY DEF MemoryInit
<1>4. vectors \in Seq(Vectors)
  BY EmptySeq DEF MemoryInit
<1>5. /\ revision \in 1..Revisions
      /\ files \in [1..Revisions -> Files] /\ index \in Indexes
  BY MemoryAssumption DEF MemoryInit, NoFile, Closed, Files, Indexes
<1> QED
  BY <1>2, <1>3, <1>4, <1>5 DEF MemoryTypes

\* The labels of the vectors, and the least of some of them.
LEMMA LabelTypes ==
  ASSUME MemoryTypes
  PROVE  /\ DOMAIN vectors \subseteq Nat /\ Current \in SUBSET Nat
         /\ \A S \in SUBSET Nat : S # {} => Min(S) \in S
<1>1. DOMAIN vectors \subseteq Nat
  BY LenProperties DEF MemoryTypes
<1>2. Current \in SUBSET Nat
  BY <1>1 DEF Current
<1>3. ASSUME NEW S \in SUBSET Nat, S # {}
      PROVE  Min(S) \in S
  <2>1. PICK x \in S : \A y \in S : <<y, x>> \notin OpToRel(<, Nat)
    BY <1>3, NatLessThanWellFounded, WFMin, Zenon
  <2>2. \A y \in S : ~(y < x)
    BY <2>1, Zenon DEF OpToRel
  <2>3. \A y \in S : x <= y
    BY <2>2
  <2> QED
    BY <2>3 DEF Min
<1> QED
  BY <1>1, <1>2, <1>3

\* The parts of the memory that most steps of a request leave alone.
StoreKept == UNCHANGED <<assets, vectors, revision, files, index>>

\* Where a request that takes a step has got to.
LEMMA AtStep ==
  ASSUME NEW r \in Requests, RequestStep(r), index.writer = r => At(r, "adding")
  PROVE  task[r].at \notin {"new", "done", "failed", "lost"}
  BY DEF RequestStep, Checks, Keeps, Kept, Chooses, Repeats, Stores, Commits, Adds, Added, Rejects,
     AddFails, At

LEMMA StepTaskTypes ==
  ASSUME MemoryTypes, NEW r \in Requests, RequestStep(r), vectors' \in Seq(Vectors),
         index.writer = r => At(r, "adding")
  PROVE  TaskTypes' /\ NeedInv'
<1> DEFINE Fine == TaskTypes' /\ NeedInv'
<1> USE DEF At
<1>1. /\ TaskTypes /\ NeedInv /\ task[r] \in Tasks
      /\ DOMAIN assets \subseteq Items
  BY DEF MemoryTypes, TaskTypes
<1>2. ASSUME NEW t \in Tasks, Moved(r, t), t.work = task[r].work, t.at # "new",
             t.need \subseteq t.work.crops
      PROVE  Fine
  BY <1>1, <1>2 DEF Moved, NeedInv
<1>3. ASSUME NEW at \in TaskStates \ {"new"}, Goes(r, at), task[r].at # "new" PROVE Fine
  <2> DEFINE t == [task[r] EXCEPT !.at = at]
  <2>1. Moved(r, t)
    BY <1>1, <1>3, GoesMoves
  <2>2. t \in Tasks /\ t.at = at /\ t.work = task[r].work /\ t.need = task[r].need
    BY <1>1 DEF Tasks
  <2> HIDE DEF t
  <2>3. task[r].need \subseteq task[r].work.crops
    BY <1>1 DEF NeedInv
  <2> QED
    BY <1>2, <2>1, <2>2, <2>3
<1>4. ASSUME NEW at \in TaskStates \ {"new"}, Ends(r, at), task[r].at # "new" PROVE Fine
  <2> DEFINE t == [task[r] EXCEPT !.at = at, !.need = {}, !.known = FALSE]
  <2>1. Moved(r, t)
    BY <1>1, <1>4, EndsMoves
  <2>2. t.at = at /\ t.work = task[r].work /\ t.need = {}
    BY <1>1 DEF Tasks
  <2> HIDE DEF t
  <2>3. t \in Tasks
    BY <2>1 DEF Moved, TaskTypes
  <2> QED
    BY <1>2, <2>1, <2>2, <2>3
<1>5. CASE Checks(r) \/ Keeps(r) \/ Kept(r)
  BY <1>3, <1>5 DEF Checks, Keeps, Kept, TaskStates
<1>6. CASE Chooses(r)
  <2> DEFINE need == task[r].work.crops \ CropsOf(Item(r))
  <2>1. /\ task[r].at = "choosing" /\ task[r].work \in Works
    BY <1>1, <1>6, AtWork DEF Chooses
  <2>2. need \in SUBSET Crops
    BY <2>1, WorkTypes
  <2>3. CASE Moved(r, [task[r] EXCEPT !.at = "repeating", !.level = "identical"])
    BY <1>1, <1>2, <2>3 DEF Tasks, NeedInv, TaskStates
  <2>4. ASSUME NEW i \in Items,
               Moved(r, [task[r] EXCEPT !.at = "repeating", !.level = "near_duplicate", !.of = i])
        PROVE  Fine
    BY <1>1, <1>2, <2>4 DEF Tasks, NeedInv, TaskStates
  <2>5. CASE Moved(r, [task[r] EXCEPT !.at = "storing", !.need = need])
    BY <1>1, <1>2, <2>2, <2>5 DEF Tasks, TaskStates
  <2> QED
    BY <1>1, <1>6, <2>3, <2>4, <2>5, ChoosesMoves
<1>7. CASE Repeats(r)
  BY <1>4, <1>7 DEF Repeats, TaskStates
<1>8. CASE Stores(r)
  <2> DEFINE t == [task[r] EXCEPT !.at = "committing", !.known = Known(Item(r)),
                                  !.level = IF Known(Item(r)) THEN "identical" ELSE "none"]
  <2>1. Moved(r, t)
    BY <1>1, <1>8, StoresMoves
  <2>2. t.work = task[r].work /\ t.at = "committing" /\ t.need = task[r].need
    BY <1>1 DEF Tasks
  <2> HIDE DEF t
  <2>3. t \in Tasks
    BY <2>1 DEF Moved, TaskTypes
  <2>4. task[r].need \subseteq task[r].work.crops
    BY <1>1 DEF NeedInv
  <2> QED
    BY <1>2, <2>1, <2>2, <2>3, <2>4
<1>9. CASE Commits(r)
  <2>1. CASE Ends(r, "failed")
    BY <1>4, <1>9, <2>1 DEF Commits, TaskStates
  <2>2. CASE ~Ends(r, "failed")
    <3> DEFINE t == [task[r] EXCEPT !.at = "adding", !.todo = Wanted(r)]
    <3>1. Moved(r, t)
      BY <1>1, <1>9, <2>2, CommitsMoves
    <3>2. t.work = task[r].work /\ t.at = "adding" /\ t.need = task[r].need
      BY <1>1 DEF Tasks
    <3>3. t \in Tasks
      BY <3>1 DEF Moved, TaskTypes
    <3> HIDE DEF t
    <3> QED
      BY <1>1, <1>2, <3>1, <3>2, <3>3 DEF NeedInv
  <2> QED
    BY <2>1, <2>2
<1>10. CASE Adds(r) \/ Added(r)
  <2>1. task[r].at = "adding"
    BY <1>10 DEF Adds, Added
  <2>2. (\E v : Takes(r, v)) \/ UNCHANGED task
    BY <1>10 DEF Adds, Added
  <2>3. ASSUME NEW v, Takes(r, v) PROVE Fine
    <3> DEFINE t == [task[r] EXCEPT !.at = "done", !.need = {}, !.known = FALSE, !.todo = {}]
               s == [task[r] EXCEPT !.todo = @ \ {v}]
    <3>1. Moved(r, t) \/ Moved(r, s)
      BY <1>1, <2>1, <2>3, TakesMoves
    <3>2. /\ t.work = task[r].work /\ t.at = "done" /\ t.need = {}
          /\ s.work = task[r].work /\ s.at = "adding" /\ s.need = task[r].need
          /\ t \in Tasks /\ s \in Tasks
      BY <1>1, <2>1 DEF Tasks, TaskStates
    <3> HIDE DEF t, s
    <3> QED
      BY <1>1, <1>2, <3>1, <3>2 DEF NeedInv
  <2>4. CASE UNCHANGED task
    BY <1>1, <2>4 DEF TaskTypes, NeedInv
  <2> QED
    BY <2>2, <2>3, <2>4
<1>11. CASE Rejects(r) \/ AddFails(r)
  BY <1>4, <1>11 DEF Rejects, AddFails, TaskStates
<1> QED
  BY <1>5, <1>6, <1>7, <1>8, <1>9, <1>10, <1>11 DEF RequestStep

-----------------------------------------------------------------------------
(* The index and the store                                                 *)

MemoryInv == MemoryTypes /\ TaskInv /\ IndexInv

\* A step that leaves the index and the vectors alone, of a request that has
\* nothing to add, before or after.
LEMMA QuietStep ==
  ASSUME MemoryInv, NEW r \in Requests, NEW t \in Tasks, Moved(r, t),
         task[r].at # "adding", t.at # "adding", t.todo = task[r].todo,
         t.at \in {"failed", "lost"} \/ task[r].at \notin {"failed", "lost"},
         t.at \notin Outside => index.open,
         t.at \in {"storing", "committing"} => t.need # {},
         UNCHANGED <<vectors, revision, files, index>>,
         DOMAIN assets \subseteq DOMAIN assets'
  PROVE  TaskInv' /\ IndexInv'
<1> USE DEF MemoryInv, Moved
<1>1. /\ \A q \in Requests : task'[q].todo = task[q].todo
      /\ \A q \in Requests : task[q].at = "adding" => task'[q] = task[q]
      /\ Current' = Current /\ \A rev : Labels(rev)' = Labels(rev)
  BY DEF Current, Labels
<1>2. TaskInv'
  BY <1>1 DEF TaskInv, Known
<1>3. WriterInv'
  BY <1>1 DEF IndexInv, WriterInv
<1>4. IndexIsStore'
  BY <1>1 DEF IndexInv, IndexIsStore
<1> QED
  BY <1>2, <1>3, <1>4 DEF IndexInv

LEMMA QuietSteps ==
  ASSUME MemoryInv, NEW r \in Requests,
         \/ Checks(r) \/ Keeps(r) \/ Kept(r) \/ Chooses(r) \/ Repeats(r) \/ Stores(r) \/ Rejects(r)
         \/ Commits(r) /\ Ends(r, "failed") /\ UNCHANGED <<assets, vectors>>
         \/ \E w \in Works : Arrives(r, w)
  PROVE  TaskInv' /\ IndexInv'
<1> DEFINE Fine == TaskInv' /\ IndexInv'
           Same == UNCHANGED <<vectors, revision, files, index>> /\ DOMAIN assets \subseteq DOMAIN assets'
<1> SUFFICES Fine
  OBVIOUS
<1> USE DEF At
<1>1. /\ TaskTypes /\ TaskInv /\ task[r] \in Tasks /\ DOMAIN assets \subseteq Items
  BY DEF MemoryInv, MemoryTypes, TaskTypes
<1>2. ASSUME NEW t \in Tasks, Moved(r, t),
             task[r].at # "adding", t.at # "adding", t.todo = task[r].todo,
             t.at \in {"failed", "lost"} \/ task[r].at \notin {"failed", "lost"},
             t.at \notin Outside => index.open,
             t.at \in {"storing", "committing"} => t.need # {}, Same
      PROVE  Fine
  BY <1>2, QuietStep
<1> HIDE DEF Fine
<1>3. ASSUME NEW at \in TaskStates \ {"new", "adding", "storing", "committing", "lost"},
             Goes(r, at), task[r].at \notin {"new", "adding", "failed", "lost"},
             at \notin Outside => index.open, Same
      PROVE  Fine
  <2> DEFINE t == [task[r] EXCEPT !.at = at]
  <2>1. Moved(r, t)
    BY <1>1, <1>3, GoesMoves
  <2>2. t \in Tasks /\ t.at = at /\ t.todo = task[r].todo
    BY <1>1 DEF Tasks
  <2> HIDE DEF t
  <2> QED
    BY <1>2, <1>3, <2>1, <2>2
<1>4. ASSUME NEW at \in {"done", "failed"},
             Ends(r, at), task[r].at \notin {"new", "adding", "failed", "lost"}, Same
      PROVE  Fine
  <2> DEFINE t == [task[r] EXCEPT !.at = at, !.need = {}, !.known = FALSE]
  <2>1. at \in TaskStates \ {"new"} /\ at \in Outside
    BY DEF TaskStates, Outside
  <2>2. Moved(r, t)
    BY <1>1, <1>4, <2>1, EndsMoves
  <2>3. t \in Tasks /\ t.at = at /\ t.todo = task[r].todo
    BY <1>1, <2>1 DEF Tasks
  <2> HIDE DEF t
  <2> QED
    BY <1>2, <1>4, <2>1, <2>2, <2>3
<1>5. CASE Checks(r)
  BY <1>3, <1>5 DEF Checks, TaskStates
<1>6. CASE Keeps(r) \/ Kept(r)
  BY <1>1, <1>3, <1>6 DEF Keeps, Kept, TaskStates, TaskInv, Outside
<1>7. CASE Chooses(r)
  <2> DEFINE need == task[r].work.crops \ CropsOf(Item(r))
             s == [task[r] EXCEPT !.at = "repeating", !.level = "identical"]
             t == [task[r] EXCEPT !.at = "storing", !.need = need]
  <2>1. task[r].at = "choosing" /\ task[r].work \in Works /\ Same /\ index.open
    BY <1>1, <1>7, AtWork DEF Chooses, TaskInv, Outside
  <2>2. need \in SUBSET Crops
    BY <2>1, WorkTypes
  <2>3. ~Known(Item(r)) => need # {}
    <3>1. ~Known(Item(r)) => CropsOf(Item(r)) = {}
      BY <1>1 DEF TaskInv, CropsOf
    <3> QED
      BY <2>1, <3>1, WorkTypes
  <2>4. CASE Moved(r, s)
    <3>1. s \in Tasks /\ s.at = "repeating" /\ s.todo = task[r].todo
      BY <1>1 DEF Tasks, TaskStates
    <3> HIDE DEF s
    <3> QED
      BY <1>2, <2>1, <2>4, <3>1
  <2>5. ASSUME NEW i \in Items,
               Moved(r, [task[r] EXCEPT !.at = "repeating", !.level = "near_duplicate", !.of = i])
        PROVE  Fine
    <3> DEFINE n == [task[r] EXCEPT !.at = "repeating", !.level = "near_duplicate", !.of = i]
    <3>1. n \in Tasks /\ n.at = "repeating" /\ n.todo = task[r].todo
      BY <1>1 DEF Tasks, TaskStates
    <3>2. Moved(r, n)
      BY <2>5
    <3> HIDE DEF n
    <3> QED
      BY <1>2, <2>1, <3>1, <3>2
  <2>6. CASE Moved(r, t) /\ need # {}
    <3>1. t \in Tasks /\ t.at = "storing" /\ t.todo = task[r].todo /\ t.need = need
      BY <1>1, <2>2 DEF Tasks, TaskStates
    <3> HIDE DEF t
    <3> QED
      BY <1>2, <2>1, <2>6, <3>1
  <2>7. \/ Moved(r, s)
        \/ \E i \in Items :
             Moved(r, [task[r] EXCEPT !.at = "repeating", !.level = "near_duplicate", !.of = i])
        \/ Moved(r, t) /\ need # {}
    BY <1>1, <1>7, <2>3, ChoosesMoves
  <2> QED
    BY <2>4, <2>5, <2>6, <2>7
<1>8. CASE Repeats(r)
  BY <1>4, <1>8 DEF Repeats
<1>9. CASE Stores(r)
  <2> DEFINE t == [task[r] EXCEPT !.at = "committing", !.known = Known(Item(r)),
                                  !.level = IF Known(Item(r)) THEN "identical" ELSE "none"]
  <2>1. task[r].at = "storing" /\ index.open /\ task[r].need # {} /\ Same
    BY <1>1, <1>9 DEF Stores, TaskInv, Outside
  <2>2. t.at = "committing" /\ t.todo = task[r].todo /\ t.need = task[r].need
    BY <1>1 DEF Tasks
  <2>3. Moved(r, t)
    BY <1>1, <1>9, StoresMoves
  <2>4. t \in Tasks
    BY <2>3 DEF Moved, TaskTypes
  <2> HIDE DEF t
  <2> QED
    BY <1>2, <2>1, <2>2, <2>3, <2>4
<1>10. CASE Rejects(r)
  BY <1>4, <1>10 DEF Rejects
<1>11. CASE Commits(r) /\ Ends(r, "failed") /\ UNCHANGED <<assets, vectors>>
  BY <1>4, <1>11 DEF Commits
<1>12. ASSUME NEW w \in Works, Arrives(r, w) PROVE Fine
  <2> DEFINE t == [task[r] EXCEPT !.at = "arrived", !.work = w, !.of = w.item]
  <2>1. task[r].at = "new" /\ Same
    BY <1>12 DEF Arrives
  <2>2. t.at = "arrived" /\ t.todo = task[r].todo
    BY <1>1 DEF Tasks
  <2>3. Moved(r, t)
    BY <1>1, <1>12, ArrivesMoves
  <2>4. t \in Tasks
    BY <2>3 DEF Moved, TaskTypes
  <2> HIDE DEF t
  <2> QED
    BY <1>2, <2>1, <2>2, <2>3, <2>4 DEF Outside
<1> QED
  BY <1>5, <1>6, <1>7, <1>8, <1>9, <1>10, <1>11, <1>12

\* A transaction: what it adds to the vectors is what the request has to add to
\* the index.
LEMMA CommitStep ==
  ASSUME MemoryInv, NEW r \in Requests, Commits(r), ~Ends(r, "failed")
  PROVE  TaskInv' /\ IndexInv' /\ vectors' \in Seq(Vectors)
<1> USE DEF At, MemoryInv
<1>1. /\ MemoryTypes /\ TaskInv /\ WriterInv /\ IndexIsStore /\ TaskTypes /\ NeedInv
      /\ task[r] \in Tasks /\ task[r].at = "committing"
      /\ UNCHANGED <<files, index, revision>>
  BY DEF Commits, IndexInv, MemoryTypes, TaskTypes
<1>2. Extends(r)
  BY <1>1, EmbeddedExtends DEF Commits, NeedInv
<1>3. DOMAIN assets' = DOMAIN assets \cup {Item(r)}
  BY DEF Commits, Known
<1> DEFINE t == [task[r] EXCEPT !.at = "adding", !.todo = Wanted(r)]
<1>4. Moved(r, t) /\ t.at = "adding" /\ t.todo = Wanted(r)
  BY <1>1, <1>2, CommitsMoves DEF Extends, Tasks
<1> HIDE DEF t
<1>5. /\ task'[r].at = "adding" /\ task'[r].todo = Wanted(r)
      /\ \A q \in Requests \ {r} : task'[q] = task[q]
      /\ task[r].todo = {} /\ index.open /\ task[r].need # {} /\ index.writer # r
  BY <1>1, <1>4 DEF Moved, TaskInv, WriterInv, Outside
<1>6. Wanted(r) # {} /\ Wanted(r) \subseteq Current'
  BY <1>1, <1>2, <1>5 DEF Wanted, Extends, Current
<1>7. Current \subseteq Current' /\ Current' \ Current \subseteq Wanted(r)
  BY <1>1, <1>2 DEF Wanted, Extends, Current
<1>8. \A rev : Labels(rev) \subseteq Labels(rev)'
  BY <1>2 DEF Labels, Extends
<1>9. \A v \in DOMAIN vectors' : Known(vectors[v].item)' 
  BY <1>1, <1>2, <1>3 DEF Known, TaskInv, Extends
<1>10. TaskInv'
  BY <1>1, <1>5, <1>6, <1>7, <1>9 DEF TaskInv
<1>11. WriterInv'
  <2>1. index.writer # "rebuild"
    BY <1>1, <1>5 DEF WriterInv
  <2> QED
    BY <1>1, <1>5, <1>8, <2>1 DEF WriterInv
<1>12. IndexIsStore'
  BY <1>1, <1>5, <1>7 DEF IndexIsStore
<1> QED
  BY <1>2, <1>10, <1>11, <1>12 DEF IndexInv, Extends

\* A label that the index has is dropped from what its request has to add.
LEMMA TakesStep ==
  ASSUME MemoryInv, NEW r \in Requests, task[r].at = "adding",
         Takes(r, Min(task[r].todo)), Min(task[r].todo) \in index.labels,
         UNCHANGED <<assets, vectors, revision>>,
         index' = [index EXCEPT !.writer = Nobody],
         \/ UNCHANGED files
         \/ /\ files[revision].content = index.content
            /\ files' = [files EXCEPT ![revision].digest = index.labels]
  PROVE  TaskInv' /\ IndexInv' /\ MemoryTypes'
<1> DEFINE v == Min(task[r].todo)
           t == [task[r] EXCEPT !.at = "done", !.need = {}, !.known = FALSE, !.todo = {}]
           s == [task[r] EXCEPT !.todo = @ \ {v}]
<1> USE DEF MemoryInv
<1>1. /\ MemoryTypes /\ TaskInv /\ WriterInv /\ IndexIsStore /\ TaskTypes /\ NeedInv
      /\ task[r] \in Tasks /\ index.open
      /\ index \in Indexes /\ files \in [1..Revisions -> Files] /\ revision \in 1..Revisions
  BY DEF IndexInv, MemoryTypes, TaskTypes, TaskInv, Outside
<1>2. v \in task[r].todo
  BY <1>1, LabelTypes DEF TaskInv, Tasks
<1>3. \/ task[r].todo = {v} /\ Moved(r, t)
      \/ task[r].todo # {v} /\ Moved(r, s)
  BY <1>1, TakesMoves
<1>4. /\ t.at = "done" /\ t.todo = {} /\ t.need = {} /\ t.work = task[r].work
      /\ s.at = "adding" /\ s.todo = task[r].todo \ {v}
      /\ s.need = task[r].need /\ s.work = task[r].work
  BY <1>1 DEF Tasks
<1> HIDE DEF t, s, v
<1>5. /\ \A q \in Requests \ {r} : task'[q] = task[q]
      /\ TaskTypes' /\ task'[r].todo = task[r].todo \ {v}
      /\ \/ task'[r].at = "done" /\ task'[r].todo = {}
         \/ task'[r].at = "adding" /\ task'[r].todo # {}
      /\ task'[r].work = task[r].work /\ task'[r].need \subseteq task[r].need
  BY <1>2, <1>3, <1>4 DEF Moved
<1>6. Current' = Current /\ \A rev : Labels(rev)' = Labels(rev)
  BY DEF Current, Labels
<1>7. /\ index'.open = index.open /\ index'.content = index.content
      /\ index'.labels = index.labels /\ index'.writer = Nobody
  BY <1>1 DEF Indexes
<1>8. /\ files' \in [1..Revisions -> Files]
      /\ \A rev \in 1..Revisions : files'[rev].content = files[rev].content
      /\ \A rev \in 1..Revisions : \/ files'[rev].digest = files[rev].digest
                                   \/ /\ rev = revision /\ files'[rev].digest = index.labels
                                      /\ files[revision].content = index.content
  <2>1. CASE UNCHANGED files
    BY <1>1, <2>1
  <2>2. CASE /\ files[revision].content = index.content
             /\ files' = [files EXCEPT ![revision].digest = index.labels]
    <3> DEFINE f == [files[revision] EXCEPT !.digest = index.labels]
    <3>1. /\ f \in Files /\ f.content = files[revision].content /\ f.digest = index.labels
      BY <1>1 DEF Files, Indexes
    <3>2. files' = [files EXCEPT ![revision] = f]
      BY <2>2
    <3> HIDE DEF f
    <3> QED
      BY <1>1, <2>2, <3>1, <3>2
  <2> QED
    BY <2>1, <2>2
<1>9. TaskInv'
  BY <1>1, <1>5, <1>6, <1>7 DEF TaskInv, Known
<1>10. WriterInv'
  <2>1. index'.writer = Nobody /\ index'.writer # "rebuild" /\ \A q \in Requests : index'.writer # q
    BY <1>7, MemoryAssumption DEF Nobody
  <2>2. index'.open =>
          index'.content = index'.labels /\ files'[revision'].digest \subseteq index'.labels
    BY <1>1, <1>7, <1>8 DEF WriterInv
  <2>3. \A rev \in 1..Revisions :
          /\ files'[rev].digest \subseteq files'[rev].content
          /\ files'[rev].content \subseteq Labels(rev)'
    BY <1>1, <1>6, <1>8 DEF WriterInv
  <2> QED
    BY <2>1, <2>2, <2>3 DEF WriterInv
<1>11. IndexIsStore'
  <2>1. v \in index.labels
    BY DEF v
  <2> QED
    BY <1>1, <1>5, <1>6, <1>7, <2>1 DEF IndexIsStore
<1>12. NeedInv'
  BY <1>1, <1>5 DEF NeedInv
<1>13. index' \in Indexes
  BY <1>1 DEF Indexes
<1> QED
  BY <1>1, <1>5, <1>8, <1>9, <1>10, <1>11, <1>12, <1>13 DEF IndexInv, MemoryTypes

\* The parts of the invariant that a step of the index may touch.
LEMMA IndexParts ==
  ASSUME MemoryInv
  PROVE  /\ MemoryTypes /\ TaskInv /\ WriterInv /\ IndexIsStore /\ TaskTypes /\ NeedInv
         /\ index \in Indexes /\ files \in [1..Revisions -> Files] /\ revision \in 1..Revisions
         /\ DOMAIN assets \subseteq Items
         /\ \A r \in Requests : task[r] \in Tasks
         /\ Current = Labels(revision) /\ Current \in SUBSET Nat
         /\ \A r \in Requests :
              task[r].at = "adding" => index.open /\ Min(task[r].todo) \in task[r].todo
         /\ Nobody \notin Requests /\ "rebuild" \notin Requests
<1>1. MemoryTypes /\ TaskInv /\ WriterInv /\ IndexIsStore
  BY DEF MemoryInv, IndexInv
<1>2. ASSUME NEW r \in Requests, task[r].at = "adding"
      PROVE  index.open /\ Min(task[r].todo) \in task[r].todo
  BY <1>1, <1>2, LabelTypes DEF TaskInv, Outside, MemoryTypes, TaskTypes, Tasks
<1> QED
  BY <1>1, <1>2, LabelTypes, MemoryAssumption
     DEF MemoryTypes, TaskTypes, Indexes, Files, Current, Labels

\* A step of the index leaves the store alone.
LEMMA SameStore ==
  ASSUME UNCHANGED <<assets, vectors, revision>>
  PROVE  /\ Current' = Current /\ \A rev : Labels(rev)' = Labels(rev)
         /\ \A v \in DOMAIN vectors : Known(vectors[v].item)' = Known(vectors[v].item)
  BY DEF Current, Labels, Known

LEMMA AddsStep ==
  ASSUME MemoryInv, NEW r \in Requests, Adds(r)
  PROVE  MemoryInv'
<1> DEFINE v == Min(task[r].todo)
<1>1. CASE v \in index.labels
  <2>1. index' = [index EXCEPT !.writer = Nobody] /\ UNCHANGED files
    BY <1>1, IndexParts DEF Adds, Indexes
  <2>2. /\ Takes(r, v) /\ UNCHANGED <<assets, vectors, revision>>
        /\ task[r].at = "adding"
    BY <1>1 DEF Adds, At
  <2> QED
    BY <1>1, <2>1, <2>2, TakesStep DEF MemoryInv
<1>2. CASE v \notin index.labels
  <2> DEFINE f == [files[revision] EXCEPT !.content = index.content \cup {v}]
  <2>1. /\ task[r].at = "adding" /\ index.writer = Nobody
        /\ UNCHANGED <<assets, vectors, revision, task>>
        /\ index' = [index EXCEPT !.content = @ \cup {v}, !.labels = @ \cup {v}, !.writer = r]
        /\ files' = [files EXCEPT ![revision] = f]
    BY <1>2 DEF Adds, At
  <2>2. v \in task[r].todo /\ v \in Current /\ v \in Nat
    BY <2>1, IndexParts DEF TaskInv
  <2>3. /\ index'.content = index.content \cup {v} /\ index'.labels = index.labels \cup {v}
        /\ index'.writer = r /\ index'.open = index.open /\ index' \in Indexes
    BY <2>1, <2>2, IndexParts DEF Indexes
  <2>4. f \in Files /\ f.content = index.content \cup {v} /\ f.digest = files[revision].digest
    BY <2>2, IndexParts DEF Files, Indexes
  <2> HIDE DEF f
  <2>5. /\ files' \in [1..Revisions -> Files] /\ files'[revision] = f
        /\ \A rev \in 1..Revisions : rev # revision => files'[rev] = files[rev]
    BY <2>1, <2>4, IndexParts
  <2> HIDE DEF v
  <2>6. TaskInv'
    BY <2>1, <2>3, IndexParts, SameStore DEF TaskInv
  <2>7. WriterInv'
    <3>1. Min(task'[r].todo) \in index'.labels
      BY <2>1, <2>3 DEF v
    <3> QED
      BY <2>1, <2>2, <2>3, <2>4, <2>5, <3>1, IndexParts, SameStore DEF WriterInv, IndexIsStore
  <2>8. IndexIsStore'
    BY <2>1, <2>2, <2>3, IndexParts, SameStore DEF IndexIsStore
  <2>9. MemoryTypes'
    BY <2>1, <2>3, <2>5, IndexParts DEF MemoryTypes, TaskTypes, NeedInv, Indexes, Files
  <2> QED
    BY <2>6, <2>7, <2>8, <2>9 DEF MemoryInv, IndexInv
<1> QED
  BY <1>1, <1>2

LEMMA AddedStep ==
  ASSUME MemoryInv, NEW r \in Requests, Added(r)
  PROVE  MemoryInv'
<1>1. /\ task[r].at = "adding" /\ Min(task[r].todo) \in index.labels
      /\ files[revision].content = index.content
  BY IndexParts DEF Added, WriterInv
<1>2. /\ Takes(r, Min(task[r].todo)) /\ UNCHANGED <<assets, vectors, revision>>
      /\ index' = [index EXCEPT !.writer = Nobody]
      /\ files' = [files EXCEPT ![revision].digest = index.labels]
  BY DEF Added
<1> QED
  BY <1>1, <1>2, TakesStep DEF MemoryInv

LEMMA AddFailsStep ==
  ASSUME MemoryInv, NEW r \in Requests, AddFails(r)
  PROVE  MemoryInv'
<1> DEFINE v == Min(task[r].todo)
           t == [task[r] EXCEPT !.at = "failed", !.need = {}, !.known = FALSE]
<1>1. /\ task[r].at = "adding" /\ index.writer \in {Nobody, r}
      /\ UNCHANGED <<assets, vectors, revision, files>>
      /\ index' = [index EXCEPT !.writer = Nobody, !.content = @ \cup {v}, !.labels = @ \cup {v}]
  BY DEF AddFails, At
<1>2. Moved(r, t)
  BY <1>1, IndexParts, EndsMoves DEF AddFails, TaskStates
<1>3. /\ t.at = "failed" /\ t.need = {} /\ t.todo = task[r].todo /\ t.work = task[r].work
  BY IndexParts DEF Tasks
<1>4. v \in task[r].todo /\ v \in Current /\ v \in Nat
  BY <1>1, IndexParts DEF TaskInv
<1>5. /\ index'.content = index.content \cup {v} /\ index'.labels = index.labels \cup {v}
      /\ index'.writer = Nobody /\ index'.open = index.open /\ index' \in Indexes
  BY <1>1, <1>4, IndexParts DEF Indexes
<1> HIDE DEF v, t
<1>6. /\ TaskTypes' /\ task'[r].at = "failed" /\ task'[r].need = {}
      /\ \A q \in Requests : task'[q].todo = task[q].todo
      /\ \A q \in Requests \ {r} : task'[q] = task[q]
  BY <1>2, <1>3 DEF Moved
<1>7. TaskInv'
  BY <1>1, <1>5, <1>6, IndexParts, SameStore DEF TaskInv, Outside
<1>8. WriterInv'
  BY <1>1, <1>4, <1>5, IndexParts, SameStore DEF WriterInv, Nobody
<1>9. IndexIsStore'
  BY <1>1, <1>4, <1>5, <1>6, IndexParts, SameStore DEF IndexIsStore, WriterInv
<1>10. MemoryTypes'
  BY <1>1, <1>5, <1>6, IndexParts DEF MemoryTypes, NeedInv, Indexes, Files
<1> QED
  BY <1>7, <1>8, <1>9, <1>10 DEF MemoryInv, IndexInv

\* The index that is opened is the store: the digest in the metadata is compared
\* with it, and the file holds no less than its digest and no more than the store.
LEMMA OpensStep == MemoryInv /\ OpensIndex => MemoryInv'
<1> SUFFICES ASSUME MemoryInv, OpensIndex PROVE MemoryInv'
  OBVIOUS
<1>1. ~index.open /\ UNCHANGED <<assets, vectors, revision, task>>
  BY DEF OpensIndex
<1>2. /\ files[revision].content \subseteq Current
      /\ files[revision].digest \subseteq files[revision].content
      /\ Closed \in Indexes
  BY IndexParts, MemoryAssumption DEF WriterInv, Closed, Indexes
<1>3. CASE Loadable
  <2> DEFINE c == files[revision].content
             i == [Closed EXCEPT !.open = TRUE, !.content = c, !.labels = Current]
  <2>1. index' = i /\ files' = files
    BY <1>3 DEF OpensIndex
  <2>2. c = Current /\ files[revision].digest = Current
    BY <1>2, <1>3 DEF Loadable
  <2>3. i \in Indexes /\ i.open /\ i.content = c /\ i.labels = Current /\ i.writer = Nobody
    BY <1>2, <2>2, IndexParts DEF Closed, Indexes
  <2> HIDE DEF i
  <2>4. TaskInv'
    BY <1>1, <2>1, <2>3, IndexParts, SameStore DEF TaskInv
  <2>5. WriterInv'
    BY <1>1, <2>1, <2>2, <2>3, IndexParts, SameStore DEF WriterInv, Nobody
  <2>6. IndexIsStore'
    BY <1>1, <2>1, <2>2, <2>3, IndexParts, SameStore DEF IndexIsStore
  <2>7. MemoryTypes'
    BY <1>1, <2>1, <2>3, IndexParts DEF MemoryTypes, TaskTypes, NeedInv
  <2> QED
    BY <2>4, <2>5, <2>6, <2>7 DEF MemoryInv, IndexInv
<1>4. CASE ~Loadable
  <2> DEFINE i == [Closed EXCEPT !.content = Current, !.labels = Current, !.writer = "rebuild"]
             f == [files[revision] EXCEPT !.content = Current]
  <2>1. index' = i /\ files' = [files EXCEPT ![revision] = f]
    BY <1>4 DEF OpensIndex
  <2>2. /\ i \in Indexes /\ ~i.open /\ i.content = Current /\ i.labels = Current
        /\ i.writer = "rebuild"
        /\ f \in Files /\ f.content = Current /\ f.digest = files[revision].digest
    <3>1. files[revision] \in Files /\ Current \in SUBSET Nat
      BY IndexParts
    <3>2. f \in Files /\ f.content = Current /\ f.digest = files[revision].digest
      BY <3>1 DEF Files
    <3>3. /\ i \in Indexes /\ ~i.open /\ i.content = Current /\ i.labels = Current
          /\ i.writer = "rebuild"
      BY <3>1 DEF Closed, Indexes
    <3> QED
      BY <3>2, <3>3
  <2> HIDE DEF i, f
  <2>3. /\ files' \in [1..Revisions -> Files] /\ files'[revision] = f
        /\ \A rev \in 1..Revisions : rev # revision => files'[rev] = files[rev]
    BY <2>1, <2>2, IndexParts
  <2>4. TaskInv'
    BY <1>1, <2>1, <2>2, IndexParts, SameStore DEF TaskInv
  <2>5. WriterInv'
    BY <1>1, <1>2, <2>1, <2>2, <2>3, IndexParts, SameStore DEF WriterInv
  <2>6. IndexIsStore'
    BY <2>1, <2>2 DEF IndexIsStore
  <2>7. MemoryTypes'
    BY <1>1, <2>1, <2>2, <2>3, IndexParts DEF MemoryTypes, TaskTypes, NeedInv
  <2> QED
    BY <2>4, <2>5, <2>6, <2>7 DEF MemoryInv, IndexInv
<1> QED
  BY <1>3, <1>4

LEMMA RebuildStep == MemoryInv /\ Rebuilds => MemoryInv'
<1> SUFFICES ASSUME MemoryInv, Rebuilds PROVE MemoryInv'
  OBVIOUS
<1> DEFINE i == [index EXCEPT !.writer = Nobody, !.open = TRUE]
           f == [files[revision] EXCEPT !.digest = index.labels]
<1>1. /\ index.writer = "rebuild" /\ UNCHANGED <<assets, vectors, revision, task>>
      /\ index' = i /\ files' = [files EXCEPT ![revision] = f]
  BY DEF Rebuilds
<1>2. /\ index.content = Current /\ index.labels = Current /\ ~index.open
      /\ files[revision].content = Current
  BY <1>1, IndexParts DEF WriterInv, Nobody
<1>3. /\ i \in Indexes /\ i.open /\ i.content = Current /\ i.labels = Current /\ i.writer = Nobody
      /\ f \in Files /\ f.content = Current /\ f.digest = Current
  BY <1>2, IndexParts DEF Indexes, Files
<1> HIDE DEF i, f
<1>4. /\ files' \in [1..Revisions -> Files] /\ files'[revision] = f
      /\ \A rev \in 1..Revisions : rev # revision => files'[rev] = files[rev]
  BY <1>1, <1>3, IndexParts
<1>5. TaskInv'
  BY <1>1, <1>3, IndexParts, SameStore DEF TaskInv
<1>6. WriterInv'
  BY <1>1, <1>2, <1>3, <1>4, IndexParts, SameStore DEF WriterInv, Nobody
<1>7. IndexIsStore'
  BY <1>1, <1>3, SameStore DEF IndexIsStore
<1>8. MemoryTypes'
  BY <1>1, <1>3, <1>4, IndexParts DEF MemoryTypes, TaskTypes, NeedInv
<1> QED
  BY <1>5, <1>6, <1>7, <1>8 DEF MemoryInv, IndexInv

LEMMA RestartStep ==
  ASSUME MemoryInv, NEW v \in revision..Revisions, MemoryRestarts(v)
  PROVE  MemoryInv'
<1> DEFINE lost(r) == [task[r] EXCEPT !.at = "lost", !.need = {}, !.known = FALSE]
<1>1. /\ UNCHANGED <<assets, vectors, files>> /\ index' = Closed /\ revision' = v
      /\ task' = [r \in Requests |-> IF task[r].at \in {"new", "done", "failed"} THEN task[r]
                                     ELSE lost(r)]
  BY DEF MemoryRestarts, Ended
<1>2. \A r \in Requests :
        /\ lost(r) \in Tasks /\ lost(r).at = "lost" /\ lost(r).todo = task[r].todo
        /\ lost(r).work = task[r].work /\ lost(r).need = {}
  <2> SUFFICES ASSUME NEW r \in Requests
               PROVE  /\ lost(r) \in Tasks /\ lost(r).at = "lost" /\ lost(r).todo = task[r].todo
                      /\ lost(r).work = task[r].work /\ lost(r).need = {}
    OBVIOUS
  <2>1. task[r] \in Tasks /\ "lost" \in TaskStates
    BY IndexParts DEF TaskStates
  <2> QED
    BY <2>1 DEF Tasks
<1> HIDE DEF lost
<1>3. v \in 1..Revisions /\ Closed \in Indexes /\ ~Closed.open /\ Closed.writer = Nobody
  BY IndexParts, MemoryAssumption DEF Closed, Indexes
<1>4. \A rev : Labels(rev)' = Labels(rev)
  BY <1>1 DEF Labels
<1>5. \A r \in Requests :
        /\ task'[r].todo = task[r].todo /\ task'[r].at \in {"new", "done", "failed", "lost"}
        /\ \/ task'[r] = task[r] /\ task[r].at \in {"new", "done", "failed"}
           \/ task'[r].at = "lost" /\ task'[r].need = {}
  BY <1>1, <1>2
<1>6. TaskInv'
  BY <1>1, <1>3, <1>5, IndexParts DEF TaskInv, Known, Outside
<1>7. WriterInv'
  BY <1>1, <1>3, <1>4, <1>5, IndexParts DEF WriterInv, Nobody
<1>8. IndexIsStore'
  BY <1>1, <1>3 DEF IndexIsStore
<1>9. TaskTypes'
  BY <1>1, <1>2, IndexParts DEF TaskTypes
<1>10. NeedInv'
  BY <1>5, IndexParts DEF NeedInv
<1>11. MemoryTypes'
  BY <1>1, <1>3, <1>9, <1>10 DEF MemoryTypes, MemoryInv
<1> QED
  BY <1>6, <1>7, <1>8, <1>11 DEF MemoryInv, IndexInv

\* The table of assets keeps its types, and no asset is ever deleted.
LEMMA AssetsStep ==
  ASSUME MemoryInv, NEW r \in Requests, RequestStep(r)
  PROVE  /\ assets' \in [DOMAIN assets' -> 0..2]
         /\ DOMAIN assets' \subseteq Items /\ DOMAIN assets \subseteq DOMAIN assets'
<1> DEFINE Fine == /\ assets' \in [DOMAIN assets' -> 0..2]
                   /\ DOMAIN assets' \subseteq Items /\ DOMAIN assets \subseteq DOMAIN assets'
<1>1. assets \in [DOMAIN assets -> 0..2] /\ DOMAIN assets \subseteq Items
  BY IndexParts DEF MemoryTypes
<1>2. task[r].work.retention \in 0..2
  BY IndexParts, WorkTypes DEF Tasks
<1>3. ASSUME UNCHANGED assets PROVE Fine
  BY <1>1, <1>3
<1>4. ASSUME Kept(r) PROVE Fine
  BY <1>1, <1>2, <1>4 DEF Kept
<1>5. ASSUME Commits(r), ~UNCHANGED assets PROVE Fine
  <2>1. Item(r) \in Items
    BY <1>5, IndexParts, AtWork, WorkTypes DEF Commits, At, Item
  <2>2. assets' = [i \in DOMAIN assets \cup {Item(r)} |->
                     IF i = Item(r) THEN task[r].work.retention ELSE assets[i]]
    BY <1>5 DEF Commits
  <2> QED
    BY <1>1, <1>2, <2>1, <2>2
<1> QED
  BY <1>3, <1>4, <1>5 DEF RequestStep, Checks, Keeps, Chooses, Repeats, Stores, Adds, Added, Rejects,
     AddFails, Fine

LEMMA RequestTypes ==
  ASSUME MemoryInv, NEW r \in Requests, RequestStep(r), vectors' \in Seq(Vectors),
         UNCHANGED <<files, index, revision>>
  PROVE  MemoryTypes'
<1>1. index.writer = r => At(r, "adding")
  BY IndexParts DEF WriterInv, At
<1>2. TaskTypes' /\ NeedInv'
  BY <1>1, IndexParts, StepTaskTypes
<1> QED
  BY <1>2, AssetsStep, IndexParts DEF MemoryTypes

\* A transaction that fails writes nothing.
LEMMA FailsQuietly ==
  ASSUME MemoryInv, NEW r \in Requests, Commits(r), Ends(r, "failed")
  PROVE  UNCHANGED <<assets, vectors>>
<1>1. Moved(r, [task[r] EXCEPT !.at = "failed", !.need = {}, !.known = FALSE])
  BY IndexParts, EndsMoves DEF Commits, At, TaskStates
<1>2. task'[r].at = "failed"
  BY <1>1, IndexParts DEF Moved, Tasks
<1>3. ASSUME task' = [task EXCEPT ![r].at = "adding", ![r].todo = Wanted(r)] PROVE FALSE
  BY <1>2, <1>3, IndexParts DEF TaskTypes, Tasks
<1> QED
  BY <1>3 DEF Commits, Wanted

LEMMA MemoryInvNext == MemoryInv /\ [MemoryNext]_memoryVars => MemoryInv'
<1> SUFFICES ASSUME MemoryInv, [MemoryNext]_memoryVars PROVE MemoryInv'
  OBVIOUS
<1>1. ASSUME NEW r \in Requests,
             \/ Checks(r) \/ Keeps(r) \/ Kept(r) \/ Chooses(r) \/ Repeats(r) \/ Stores(r)
             \/ Rejects(r)
      PROVE  MemoryInv'
  <2>1. TaskInv' /\ IndexInv'
    BY <1>1, QuietSteps
  <2>2. UNCHANGED <<vectors, files, index, revision>> /\ vectors \in Seq(Vectors)
    BY <1>1, IndexParts
       DEF Checks, Keeps, Kept, Chooses, Repeats, Stores, Rejects, MemoryTypes
  <2>3. MemoryTypes'
    BY <1>1, <2>2, RequestTypes DEF RequestStep
  <2> QED
    BY <2>1, <2>3 DEF MemoryInv
<1>2. ASSUME NEW r \in Requests, Commits(r) PROVE MemoryInv'
  <2>1. UNCHANGED <<files, index, revision>> /\ vectors \in Seq(Vectors)
    BY <1>2, IndexParts DEF Commits, MemoryTypes
  <2>2. CASE Ends(r, "failed")
    <3>1. UNCHANGED <<assets, vectors>>
      BY <1>2, <2>2, FailsQuietly
    <3>2. TaskInv' /\ IndexInv'
      BY <1>2, <2>2, <3>1, QuietSteps
    <3> QED
      BY <1>2, <2>1, <3>1, <3>2, RequestTypes DEF RequestStep, MemoryInv
  <2>3. CASE ~Ends(r, "failed")
    BY <1>2, <2>1, <2>3, CommitStep, RequestTypes DEF RequestStep, MemoryInv
  <2> QED
    BY <2>2, <2>3
<1>3. ASSUME NEW r \in Requests, Adds(r) \/ Added(r) \/ AddFails(r) PROVE MemoryInv'
  BY <1>3, AddsStep, AddedStep, AddFailsStep
<1>4. ASSUME NEW r \in Requests, NEW w \in Works, Arrives(r, w) PROVE MemoryInv'
  <2> DEFINE t == [task[r] EXCEPT !.at = "arrived", !.work = w, !.of = w.item]
  <2>1. TaskInv' /\ IndexInv'
    BY <1>4, QuietSteps
  <2>2. Moved(r, t) /\ task[r].at = "new"
    BY <1>4, IndexParts, ArrivesMoves DEF Arrives, At
  <2>3. t.at = "arrived" /\ t.need = task[r].need
    BY IndexParts DEF Tasks
  <2> HIDE DEF t
  <2>4. TaskTypes' /\ NeedInv'
    BY <2>2, <2>3, IndexParts DEF Moved, NeedInv
  <2> QED
    BY <1>4, <2>1, <2>4 DEF Arrives, MemoryTypes, MemoryInv
<1>5. ASSUME NEW v \in revision..Revisions, MemoryRestarts(v) PROVE MemoryInv'
  BY <1>5, RestartStep
<1>6. CASE UNCHANGED memoryVars
  BY <1>6 DEF memoryVars, MemoryInv, MemoryTypes, TaskTypes, NeedInv, TaskInv, IndexInv,
     IndexIsStore, WriterInv, Known, Current, Labels
<1> QED
  BY <1>1, <1>2, <1>3, <1>4, <1>5, <1>6, OpensStep, RebuildStep
     DEF MemoryNext, MemoryStep, RequestStep

LEMMA MemoryInvInit == MemoryInit => MemoryInv
<1> SUFFICES ASSUME MemoryInit PROVE MemoryInv
  OBVIOUS
<1>1. MemoryTypes
  BY MemoryTypesInit
<1>2. TaskInv
  BY DEF MemoryInit, TaskInv, NewTask, Outside
<1>3. IndexInv
  BY <1>1, MemoryAssumption
     DEF MemoryInit, IndexInv, WriterInv, IndexIsStore, Closed, NoFile, Nobody, Labels
<1> QED
  BY <1>1, <1>2, <1>3 DEF MemoryInv

THEOREM MemoryInvariance == Spec => []MemoryInv
<1>1. Init => MemoryInv
  BY MemoryInvInit DEF Init
<1> QED
  BY <1>1, AnalysesUseTheMemory, MemoryInvNext, PTL DEF Spec

\* The index in use is the store, but for what a request is still adding or has
\* failed to add, at every crash, revision of the model and fault of a file.
THEOREM IndexIsStoreHolds == Spec => []IndexIsStore
<1>1. MemoryInv => IndexIsStore
  BY DEF MemoryInv, IndexInv
<1> QED
  BY <1>1, MemoryInvariance, PTL

-----------------------------------------------------------------------------
(* The image files                                                         *)

\* A file that has been written, and an asset, stay.
LEMMA StaysReady ==
  ASSUME NEW q \in Requests, FileReady(q), task'[q] = task[q],
         images \subseteq images', DOMAIN assets \subseteq DOMAIN assets'
  PROVE  FileReady(q)'
  BY DEF FileReady, Promised, Known, Item, IsImage

\* A request whose file is not at stake.
LEMMA MovesReady ==
  ASSUME MemoryInv, FileInv, NEW r \in Requests, NEW t, Moved(r, t), FileReady(r)',
         images \subseteq images', DOMAIN assets \subseteq DOMAIN assets'
  PROVE  \A q \in Requests : FileReady(q)'
<1> SUFFICES ASSUME NEW q \in Requests, q # r PROVE FileReady(q)'
  OBVIOUS
<1> QED
  BY StaysReady DEF FileInv, Moved

\* The image files only grow.
LEMMA ImagesGrow == MemoryInv /\ [MemoryNext]_memoryVars =>
  images \subseteq images' /\ DOMAIN assets \subseteq DOMAIN assets'
<1> SUFFICES ASSUME MemoryInv, [MemoryNext]_memoryVars
             PROVE images \subseteq images' /\ DOMAIN assets \subseteq DOMAIN assets'
  OBVIOUS
<1>1. ASSUME NEW r \in Requests, RequestStep(r)
      PROVE  images \subseteq images' /\ DOMAIN assets \subseteq DOMAIN assets'
  <2>1. images \subseteq images'
    BY <1>1 DEF RequestStep, Checks, Keeps, Kept, Chooses, Repeats, Stores, Commits, Adds, Added,
       Rejects, AddFails, Written
  <2> QED
    BY <1>1, <2>1, AssetsStep
<1> QED
  BY <1>1 DEF MemoryNext, MemoryStep, OpensIndex, Rebuilds, Arrives, MemoryRestarts, memoryVars

LEMMA FileInvNext == MemoryInv /\ FileInv /\ [MemoryNext]_memoryVars => FileInv'
<1> SUFFICES ASSUME MemoryInv, FileInv, [MemoryNext]_memoryVars PROVE FileInv'
  OBVIOUS
<1> USE DEF At, Item
<1>1. /\ images \subseteq images' /\ DOMAIN assets \subseteq DOMAIN assets'
      /\ TaskTypes /\ RetainedOnDisk /\ \A r \in Requests : FileReady(r) /\ task[r] \in Tasks
      /\ DOMAIN assets \subseteq Items /\ assets \in [DOMAIN assets -> 0..2]
  BY ImagesGrow, IndexParts DEF FileInv, MemoryTypes
<1>2. UNCHANGED assets => RetainedOnDisk'
  BY <1>1 DEF RetainedOnDisk
<1>3. ASSUME NEW r \in Requests, NEW t, Moved(r, t), FileReady(r)' PROVE \A q \in Requests : FileReady(q)'
  BY <1>1, <1>3, MovesReady
<1>4. ASSUME NEW r \in Requests, NEW t, Moved(r, t), t.at \notin {"keeping", "kept", "committing"},
             UNCHANGED assets
      PROVE  FileInv'
  <2>1. FileReady(r)'
    BY <1>4 DEF Moved, FileReady
  <2> QED
    BY <1>2, <1>3, <1>4, <2>1 DEF FileInv
<1>5. ASSUME NEW r \in Requests, NEW at \in TaskStates \ {"new", "keeping", "kept", "committing"},
             task[r].at # "new", Goes(r, at) \/ Ends(r, at), UNCHANGED assets
      PROVE  FileInv'
  <2> DEFINE g == [task[r] EXCEPT !.at = at]
             e == [task[r] EXCEPT !.at = at, !.need = {}, !.known = FALSE]
  <2>0. g.at = at /\ e.at = at
    BY <1>1 DEF Tasks
  <2>1. CASE Goes(r, at)
    <3>1. Moved(r, g)
      BY <1>1, <1>5, <2>1, GoesMoves
    <3> HIDE DEF g
    <3> QED
      BY <1>4, <1>5, <2>0, <3>1
  <2>2. CASE Ends(r, at)
    <3>1. Moved(r, e)
      BY <1>1, <1>5, <2>2, EndsMoves
    <3> HIDE DEF e
    <3> QED
      BY <1>4, <1>5, <2>0, <3>1
  <2> QED
    BY <1>5, <2>1, <2>2
<1>6. ASSUME NEW r \in Requests, Checks(r) PROVE FileInv'
  <2>1. CASE Goes(r, "choosing")
    BY <1>5, <1>6, <2>1 DEF Checks, TaskStates
  <2>2. CASE /\ Goes(r, "keeping")
             /\ Known(Item(r)) /\ task[r].work.retention > assets[Item(r)]
    <3>1. task[r].work.retention > 0
      BY <1>1, <2>2, WorkTypes DEF Known, Tasks
    <3>2. Moved(r, [task[r] EXCEPT !.at = "keeping"])
      BY <1>1, <1>6, <2>2, GoesMoves DEF Checks, TaskStates
    <3>3. FileReady(r)'
      BY <1>1, <1>6, <2>2, <3>1, <3>2 DEF Moved, FileReady, Tasks, Known, Checks
    <3> QED
      BY <1>2, <1>3, <1>6, <3>2, <3>3 DEF FileInv, Checks
  <2> QED
    BY <1>6, <2>1, <2>2 DEF Checks, Upgraded
<1>7. ASSUME NEW r \in Requests, Keeps(r) PROVE FileInv'
  <2>1. Moved(r, [task[r] EXCEPT !.at = "kept"])
    BY <1>1, <1>7, GoesMoves DEF Keeps, TaskStates
  <2>2. FileReady(r)'
    BY <1>1, <1>7, <2>1 DEF Moved, FileReady, Promised, Tasks, Known, Keeps, Written
  <2> QED
    BY <1>2, <1>3, <1>7, <2>1, <2>2 DEF FileInv, Keeps
<1>8. ASSUME NEW r \in Requests, Kept(r) PROVE FileInv'
  <2>1. Moved(r, [task[r] EXCEPT !.at = "choosing"])
    BY <1>1, <1>8, GoesMoves DEF Kept, TaskStates
  <2>2. FileReady(r)'
    BY <1>1, <2>1 DEF Moved, FileReady, Tasks
  <2>3. RetainedOnDisk'
    BY <1>1, <1>8 DEF RetainedOnDisk, Kept, FileReady, Promised, Known
  <2> QED
    BY <1>3, <2>1, <2>2, <2>3 DEF FileInv
<1>9. ASSUME NEW r \in Requests, Chooses(r) PROVE FileInv'
  <2> DEFINE need == task[r].work.crops \ CropsOf(Item(r))
             s == [task[r] EXCEPT !.at = "repeating", !.level = "identical"]
             n(i) == [task[r] EXCEPT !.at = "repeating", !.level = "near_duplicate", !.of = i]
             t == [task[r] EXCEPT !.at = "storing", !.need = need]
  <2>1. Moved(r, s) \/ (\E i \in Items : Moved(r, n(i))) \/ Moved(r, t)
    BY <1>1, <1>9, ChoosesMoves
  <2>2. s.at = "repeating" /\ t.at = "storing" /\ \A i : n(i).at = "repeating"
    BY <1>1 DEF Tasks
  <2> HIDE DEF s, n, t
  <2> QED
    BY <1>4, <1>9, <2>1, <2>2 DEF Chooses
<1>10. ASSUME NEW r \in Requests, Repeats(r) PROVE FileInv'
  BY <1>5, <1>10 DEF Repeats, TaskStates
<1>11. ASSUME NEW r \in Requests, Stores(r) PROVE FileInv'
  <2> DEFINE t == [task[r] EXCEPT !.at = "committing", !.known = Known(Item(r)),
                                  !.level = IF Known(Item(r)) THEN "identical" ELSE "none"]
  <2>1. Moved(r, t)
    BY <1>1, <1>11, StoresMoves
  <2>2. t.at = "committing" /\ t.known = Known(Item(r)) /\ t.work = task[r].work
    BY <1>1 DEF Tasks
  <2> HIDE DEF t
  <2>3. FileReady(r)'
    <3>1. /\ task'[r].at = "committing" /\ task'[r].work = task[r].work
          /\ task'[r].known = Known(Item(r)) /\ Item(r)' = Item(r)
      BY <2>1, <2>2 DEF Moved
    <3>2. CASE Known(Item(r))
      BY <1>1, <3>1, <3>2 DEF FileReady, Known
    <3>3. CASE ~Known(Item(r))
      <4>1. IsImage(r) => images' = Written(r)
        BY <1>11, <3>3 DEF Stores
      <4>2. task[r].work.retention \in 0..2
        BY <1>1, WorkTypes DEF Tasks
      <4>3. IsImage(r) => Promised(r)'
        BY <3>1, <4>1, <4>2 DEF Promised, Written
      <4> QED
        BY <3>1, <3>3, <4>3 DEF FileReady, IsImage
    <3> QED
      BY <3>2, <3>3
  <2> QED
    BY <1>2, <1>3, <1>11, <2>1, <2>3 DEF FileInv, Stores
<1>12. ASSUME NEW r \in Requests, Commits(r) PROVE FileInv'
  <2>1. CASE UNCHANGED assets /\ Ends(r, "failed")
    BY <1>5, <1>12, <2>1 DEF Commits, TaskStates
  <2>2. CASE ~Ends(r, "failed")
    <3> DEFINE t == [task[r] EXCEPT !.at = "adding", !.todo = Wanted(r)]
    <3>1. Moved(r, t)
      BY <1>1, <1>12, <2>2, CommitStep, CommitsMoves
    <3>2. t.at = "adding"
      BY <1>1 DEF Tasks
    <3> HIDE DEF t
    <3>3. FileReady(r)'
      BY <3>1, <3>2 DEF Moved, FileReady
    <3>4. RetainedOnDisk'
      <4>1. CASE Known(Item(r))
        BY <1>2, <1>12, <2>2, <4>1 DEF Commits
      <4>2. CASE ~Known(Item(r))
        <5>1. ~task[r].known /\ task[r].at = "committing"
          BY <1>1, <1>12, <4>2 DEF Commits, FileReady
        <5>2. assets' = [i \in DOMAIN assets \cup {Item(r)} |->
                           IF i = Item(r) THEN task[r].work.retention ELSE assets[i]]
          BY <1>12, <2>2, <4>2 DEF Commits
        <5> QED
          BY <1>1, <5>1, <5>2 DEF RetainedOnDisk, FileReady, Promised, IsImage
      <4> QED
        BY <4>1, <4>2
    <3> QED
      BY <1>3, <3>1, <3>3, <3>4 DEF FileInv
  <2>3. Ends(r, "failed") => UNCHANGED assets
    <3> SUFFICES ASSUME Ends(r, "failed"), ~UNCHANGED assets PROVE FALSE
      OBVIOUS
    <3>1. Moved(r, [task[r] EXCEPT !.at = "failed", !.need = {}, !.known = FALSE])
      BY <1>1, <1>12, EndsMoves DEF Commits, TaskStates
    <3>2. task'[r].at = "failed"
      BY <1>1, <3>1 DEF Moved, Tasks
    <3>3. task' = [task EXCEPT ![r].at = "adding", ![r].todo = Wanted(r)]
      BY <1>12 DEF Commits, Wanted
    <3> QED
      BY <1>1, <3>2, <3>3 DEF TaskTypes, Tasks
  <2> QED
    BY <2>1, <2>2, <2>3
<1>13. ASSUME NEW r \in Requests, Adds(r) \/ Added(r) PROVE FileInv'
  <2>1. task[r].at = "adding" /\ UNCHANGED assets
    BY <1>13, IndexParts DEF Adds, Added, WriterInv
  <2>2. CASE UNCHANGED task
    BY <1>1, <1>2, <2>1, <2>2, StaysReady DEF FileInv
  <2>3. ASSUME NEW v, Takes(r, v) PROVE FileInv'
    <3> DEFINE t == [task[r] EXCEPT !.at = "done", !.need = {}, !.known = FALSE, !.todo = {}]
               s == [task[r] EXCEPT !.todo = @ \ {v}]
    <3>1. Moved(r, t) \/ Moved(r, s)
      BY <1>1, <2>1, <2>3, TakesMoves
    <3>2. t.at = "done" /\ s.at = "adding"
      BY <1>1, <2>1 DEF Tasks
    <3> HIDE DEF t, s
    <3> QED
      BY <1>4, <2>1, <3>1, <3>2
  <2> QED
    BY <1>13, <2>2, <2>3 DEF Adds, Added
<1>14. ASSUME NEW r \in Requests, Rejects(r) \/ AddFails(r) PROVE FileInv'
  BY <1>5, <1>14 DEF Rejects, AddFails, TaskStates
<1>15. ASSUME NEW r \in Requests, NEW w \in Works, Arrives(r, w) PROVE FileInv'
  <2> DEFINE t == [task[r] EXCEPT !.at = "arrived", !.work = w, !.of = w.item]
  <2>1. Moved(r, t)
    BY <1>1, <1>15, ArrivesMoves
  <2>2. t.at = "arrived"
    BY <1>1 DEF Tasks
  <2> HIDE DEF t
  <2> QED
    BY <1>4, <1>15, <2>1, <2>2 DEF Arrives
<1>16. ASSUME OpensIndex \/ Rebuilds \/ UNCHANGED memoryVars PROVE FileInv'
  <2>1. UNCHANGED <<task, assets>>
    BY <1>16 DEF OpensIndex, Rebuilds, memoryVars
  <2> QED
    BY <1>1, <1>2, <2>1, StaysReady DEF FileInv
<1>17. ASSUME NEW v \in revision..Revisions, MemoryRestarts(v) PROVE FileInv'
  <2>1. /\ UNCHANGED assets
        /\ \A r \in Requests : task'[r].at \in {"new", "done", "failed", "lost"}
    BY <1>1, <1>17 DEF MemoryRestarts, Ended, Tasks
  <2> QED
    BY <1>2, <2>1 DEF FileInv, FileReady
<1> QED
  BY <1>6, <1>7, <1>8, <1>9, <1>10, <1>11, <1>12, <1>13, <1>14, <1>15, <1>16, <1>17
     DEF MemoryNext, MemoryStep, RequestStep

\* An image that its row says is retained can be read.
THEOREM RetainedOnDiskHolds == Spec => []RetainedOnDisk
<1>1. Init => FileInv
  BY DEF Init, MemoryInit, FileInv, FileReady, RetainedOnDisk, NewTask
<1>2. FileInv => RetainedOnDisk
  BY DEF FileInv
<1> QED
  BY <1>1, <1>2, AnalysesUseTheMemory, MemoryInvariance, FileInvNext, PTL DEF Spec

-----------------------------------------------------------------------------
(* The analyses                                                            *)

AnalysisStates == {"new", "indexing", "skipped", "searching", "reading", "answered", "failed"}
Shown == Images \cup Texts \cup {reference.item : reference \in References}
AnalysisTypes ==
  analysis \in [Analyses -> [at : AnalysisStates, skip : BOOLEAN,
                            reference : References \cup {NoReference}, readable : BOOLEAN,
                            pack : SUBSET Shown, sent : SUBSET Shown]]

\* The frame of an analysis that searches is settled, its reference can still be
\* read, and from the search on is still to be read or has been.
Compares(a) ==
  /\ ~Is(a, "new") => ~At(a, "new")
  /\ analysis[a].at \in {"searching", "reading", "answered"} => At(a, "done")
  /\ analysis[a].readable =>
       ~Is(a, "new") /\ Finds(analysis[a].reference, Item(a), analysis[a].reference.item)
  /\ /\ analysis[a].at \in {"reading", "answered"}
     /\ analysis[a].readable /\ analysis[a].reference.item # Frame(a)
     => analysis[a].reference.item \in analysis[a].pack \cup analysis[a].sent
  /\ Is(a, "answered") => analysis[a].pack = {}

AnalysisInv == AnalysisTypes /\ \A a \in Analyses : Compares(a)

\* What a request was asked for stays once it has arrived, and one that is done
\* moves no more.
Settled(r) ==
  task[r].at # "new" =>
    /\ task'[r].at # "new" /\ task'[r].work = task[r].work
    /\ task[r].at = "done" => task'[r] = task[r]

LEMMA RequestSettled ==
  ASSUME MemoryInv, NEW r \in Requests, RequestStep(r)
  PROVE  \A q \in Requests : Settled(q)
<1> DEFINE Replaces(t) == task' = [task EXCEPT ![r] = t] /\ t.at # "new" /\ t.work = task[r].work
<1> USE DEF At, Item
<1>1. TaskTypes /\ task[r] \in Tasks
  BY DEF MemoryInv, MemoryTypes, TaskTypes
<1>2. task[r].at \notin {"new", "done"}
  BY DEF RequestStep, Checks, Keeps, Kept, Chooses, Repeats, Stores, Commits, Adds, Added,
     Rejects, AddFails, MemoryInv, IndexInv, WriterInv
<1>3. ASSUME NEW t, Replaces(t) PROVE \A q \in Requests : Settled(q)
  BY <1>1, <1>2, <1>3 DEF Settled, TaskTypes
<1>4. ASSUME NEW at \in TaskStates \ {"new"}, Goes(r, at) \/ Ends(r, at)
      PROVE  \E t : Replaces(t)
  <2> DEFINE g == [task[r] EXCEPT !.at = at]
             e == [task[r] EXCEPT !.at = at, !.need = {}, !.known = FALSE]
  <2>1. (task' = [task EXCEPT ![r] = g]) \/ (task' = [task EXCEPT ![r] = e])
    BY <1>4 DEF Goes, Ends, Ended
  <2>2. g.at # "new" /\ g.work = task[r].work /\ e.at # "new" /\ e.work = task[r].work
    BY <1>1 DEF Tasks
  <2> HIDE DEF g, e
  <2> QED
    BY <2>1, <2>2
<1>5. ASSUME NEW v, Takes(r, v) PROVE \E t : Replaces(t)
  <2> DEFINE d == [task[r] EXCEPT !.at = "done", !.need = {}, !.known = FALSE, !.todo = {}]
             s == [task[r] EXCEPT !.todo = @ \ {v}]
  <2>1. (task' = [task EXCEPT ![r] = d]) \/ (task' = [task EXCEPT ![r] = s])
    BY <1>1, <1>5 DEF Takes, Ended, Tasks
  <2>2. d.at # "new" /\ d.work = task[r].work /\ s.at # "new" /\ s.work = task[r].work
    BY <1>1, <1>2 DEF Tasks
  <2> HIDE DEF d, s
  <2> QED
    BY <2>1, <2>2
<1>6. ASSUME Checks(r) \/ Keeps(r) \/ Kept(r) \/ Repeats(r) \/ Rejects(r) \/ AddFails(r)
      PROVE  \E t : Replaces(t)
  BY <1>4, <1>6 DEF Checks, Keeps, Kept, Repeats, Rejects, AddFails, TaskStates
<1>7. ASSUME Chooses(r) PROVE \E t : Replaces(t)
  <2> DEFINE need == task[r].work.crops \ CropsOf(Item(r))
             s == [task[r] EXCEPT !.at = "repeating", !.level = "identical"]
             n(i) == [task[r] EXCEPT !.at = "repeating", !.level = "near_duplicate", !.of = i]
             t == [task[r] EXCEPT !.at = "storing", !.need = need]
  <2>1. \/ task' = [task EXCEPT ![r] = s]
        \/ \E i \in NearTo(Item(r)) : task' = [task EXCEPT ![r] = n(i)]
        \/ task' = [task EXCEPT ![r] = t]
    BY <1>7 DEF Chooses
  <2>2. /\ s.at # "new" /\ s.work = task[r].work /\ t.at # "new" /\ t.work = task[r].work
        /\ \A i : n(i).at # "new" /\ n(i).work = task[r].work
    BY <1>1 DEF Tasks
  <2> HIDE DEF s, n, t
  <2> QED
    BY <2>1, <2>2
<1>8. ASSUME Stores(r) PROVE \E t : Replaces(t)
  <2> DEFINE t == [task[r] EXCEPT !.at = "committing", !.known = Known(Item(r)),
                                  !.level = IF Known(Item(r)) THEN "identical" ELSE "none"]
  <2>1. task' = [task EXCEPT ![r] = t]
    BY <1>8 DEF Stores
  <2>2. t.at # "new" /\ t.work = task[r].work
    BY <1>1 DEF Tasks
  <2> HIDE DEF t
  <2> QED
    BY <2>1, <2>2
<1>9. ASSUME Commits(r) PROVE \E t : Replaces(t)
  <2> DEFINE t == [task[r] EXCEPT !.at = "adding", !.todo = Wanted(r)]
  <2>1. task' = [task EXCEPT ![r] = t] \/ Ends(r, "failed")
    BY <1>9 DEF Commits, Wanted
  <2>2. t.at # "new" /\ t.work = task[r].work
    BY <1>1 DEF Tasks
  <2> HIDE DEF t
  <2> QED
    BY <1>4, <2>1, <2>2 DEF TaskStates
<1>10. ASSUME Adds(r) \/ Added(r)
       PROVE  UNCHANGED task \/ \E t : Replaces(t)
  BY <1>5, <1>10 DEF Adds, Added
<1>11. UNCHANGED task => \A q \in Requests : Settled(q)
  BY <1>1 DEF Settled, TaskTypes
<1> HIDE DEF Replaces
<1>12. UNCHANGED task \/ \E t : Replaces(t)
  BY <1>6, <1>7, <1>8, <1>9, <1>10 DEF RequestStep
<1> QED
  BY <1>3, <1>11, <1>12

LEMMA MemorySettled ==
  ASSUME MemoryInv, [MemoryStep]_memoryVars
  PROVE  \A r \in Requests : Settled(r)
<1>1. task \in [Requests -> Tasks]
  BY DEF MemoryInv, MemoryTypes, TaskTypes
<1>2. ASSUME NEW v \in revision..Revisions, MemoryRestarts(v) PROVE \A r \in Requests : Settled(r)
  <2> SUFFICES ASSUME NEW r \in Requests, task[r].at # "new" PROVE Settled(r)
    BY DEF Settled
  <2> DEFINE e == [task[r] EXCEPT !.at = "lost", !.need = {}, !.known = FALSE]
  <2>1. task'[r] = IF task[r].at \in {"new", "done", "failed"} THEN task[r] ELSE e
    BY <1>2 DEF MemoryRestarts, Ended
  <2>2. e.at = "lost" /\ e.work = task[r].work
    BY <1>1 DEF Tasks
  <2> HIDE DEF e
  <2> QED
    BY <2>1, <2>2 DEF Settled
<1>3. ASSUME OpensIndex \/ Rebuilds \/ UNCHANGED memoryVars PROVE \A r \in Requests : Settled(r)
  BY <1>3 DEF OpensIndex, Rebuilds, memoryVars, Settled
<1> QED
  BY <1>2, <1>3, RequestSettled DEF MemoryStep

LEMMA ArrivesSettled ==
  ASSUME MemoryInv, NEW q \in Requests, NEW w \in Works, Arrives(q, w)
  PROVE  /\ \A r \in Requests : Settled(r)
         /\ \A r \in Requests \ {q} : task'[r] = task[r]
         /\ task'[q].at = "arrived" /\ task'[q].work = w
<1>1. TaskTypes /\ task[q] \in Tasks
  BY DEF MemoryInv, MemoryTypes, TaskTypes
<1> DEFINE t == [task[q] EXCEPT !.at = "arrived", !.work = w, !.of = w.item]
<1>2. Moved(q, t)
  BY <1>1, ArrivesMoves
<1>3. t.at = "arrived" /\ t.work = w /\ task[q].at = "new"
  BY <1>1 DEF Tasks, Arrives, At
<1> HIDE DEF t
<1> QED
  BY <1>2, <1>3 DEF Moved, Settled

\* What an image may be read for, it may go on being read for.
LEMMA StaysReadable ==
  ASSUME MemoryInv, FileInv, [MemoryNext]_memoryVars, NEW i, NEW n, Readable(i, n)
  PROVE  Readable(i, n)'
<1>1. i \in Images /\ i \in DOMAIN assets /\ assets[i] > 0 /\ Namespace[i] = n
  BY DEF Readable, Known
<1>2. UNCHANGED assets => Readable(i, n)'
  BY <1>1 DEF Readable, Known
<1>3. ASSUME NEW r \in Requests, Kept(r) PROVE Readable(i, n)'
  BY <1>1, <1>3 DEF Kept, Readable, Known, FileInv, FileReady, At
<1>4. ASSUME NEW r \in Requests, Commits(r) PROVE Readable(i, n)'
  <2>1. \/ UNCHANGED assets
        \/ /\ ~Known(Item(r))
           /\ assets' = [j \in DOMAIN assets \cup {Item(r)} |->
                           IF j = Item(r) THEN task[r].work.retention ELSE assets[j]]
    BY <1>4 DEF Commits
  <2> QED
    BY <1>1, <1>2, <2>1 DEF Readable, Known
<1>5. ASSUME NEW r \in Requests, RequestStep(r) PROVE Readable(i, n)'
  BY <1>2, <1>3, <1>4, <1>5 DEF RequestStep, Checks, Keeps, Chooses, Repeats, Stores, Adds, Added,
     Rejects, AddFails
<1> QED
  BY <1>2, <1>5 DEF MemoryNext, MemoryStep, OpensIndex, Rebuilds, Arrives, MemoryRestarts, memoryVars

\* An analysis that does not move, while the memory does.
LEMMA ComparesOn ==
  ASSUME MemoryInv, FileInv, [MemoryNext]_memoryVars, NEW a \in Analyses, Compares(a),
         analysis'[a] = analysis[a], Settled(a)
  PROVE  Compares(a)'
<1>1. \A at : Is(a, at)' <=> Is(a, at)
  BY DEF Is
<1>2. (~Is(a, "new") => ~At(a, "new"))'
  BY <1>1 DEF Compares, Settled, At
<1>3. (analysis[a].at \in {"searching", "reading", "answered"})' => task'[a] = task[a] /\ At(a, "done")'
  BY DEF Compares, Settled, At
<1>4. analysis[a].readable =>
        Item(a)' = Item(a) /\ Finds(analysis[a].reference, Item(a), analysis[a].reference.item)'
  <2> SUFFICES ASSUME analysis[a].readable
               PROVE  /\ Item(a)' = Item(a)
                      /\ Finds(analysis[a].reference, Item(a), analysis[a].reference.item)'
    OBVIOUS
  <2>1. Item(a)' = Item(a) /\ Finds(analysis[a].reference, Item(a), analysis[a].reference.item)
    BY DEF Compares, Settled, At, Item
  <2>2. ASSUME NEW reference, NEW item, NEW i, Finds(reference, item, i)
        PROVE  Finds(reference, item, i)'
    BY <2>2, StaysReadable DEF Finds
  <2> QED
    BY <2>1, <2>2 DEF Finds, Readable, Known
<1> QED
  BY <1>1, <1>2, <1>3, <1>4 DEF Compares, Frame

LEMMA AnalysisInvNext ==
  MemoryInv /\ FileInv /\ AnalysisInv /\ [Next]_vars => AnalysisInv'
<1> SUFFICES ASSUME MemoryInv, FileInv, AnalysisInv, [Next]_vars PROVE AnalysisInv'
  OBVIOUS
<1>1. /\ [MemoryNext]_memoryVars /\ Analyses \subseteq Requests
      /\ AnalysisTypes /\ \A a \in Analyses : Compares(a)
  BY AnalysesUseTheMemory, AnalysisAssumption DEF AnalysisInv
<1>2. UNCHANGED memoryVars => \A r \in Requests : Settled(r)
  BY DEF Settled, memoryVars
<1>3. ASSUME UNCHANGED analysis, \A r \in Analyses : Settled(r) PROVE AnalysisInv'
  BY <1>1, <1>3, ComparesOn DEF AnalysisInv, AnalysisTypes
\* One analysis moves, to a value that is one of an analysis.
<1>4. ASSUME NEW a \in Analyses, NEW t, analysis' = [analysis EXCEPT ![a] = t],
             t \in [at : AnalysisStates, skip : BOOLEAN,
                    reference : References \cup {NoReference}, readable : BOOLEAN,
                    pack : SUBSET Shown, sent : SUBSET Shown],
             \A b \in Analyses \ {a} : Settled(b), Compares(a)'
      PROVE  AnalysisInv'
  <2>1. \A b \in Analyses \ {a} : Compares(b)'
    BY <1>1, <1>4, ComparesOn DEF AnalysisTypes
  <2>2. AnalysisTypes'
    BY <1>1, <1>4 DEF AnalysisTypes
  <2> QED
    BY <1>4, <2>1, <2>2 DEF AnalysisInv
<1>5. ASSUME NEW a \in Analyses, NEW w \in Works, NEW skip \in BOOLEAN,
             NEW reference \in References \cup {NoReference}, Begins(a, w, skip, reference)
      PROVE  AnalysisInv'
  <2> DEFINE readable == Finds(reference, w.item, reference.item)
             t == [analysis[a] EXCEPT !.at = "indexing", !.skip = skip,
                                      !.reference = reference, !.readable = readable]
  <2>1. /\ \A r \in Requests : Settled(r)
        /\ task'[a].at = "arrived" /\ task'[a].work = w
        /\ UNCHANGED assets
    BY <1>1, <1>5, ArrivesSettled DEF Begins, Arrives
  <2>2. analysis' = [analysis EXCEPT ![a] = t]
    BY <1>5 DEF Begins
  <2>3. /\ t \in [at : AnalysisStates, skip : BOOLEAN, reference : References \cup {NoReference},
                  readable : BOOLEAN, pack : SUBSET Shown, sent : SUBSET Shown]
        /\ t.at = "indexing" /\ t.reference = reference /\ t.readable = readable
    BY <1>1 DEF AnalysisTypes, AnalysisStates, Finds, Readable, Known
  <2> HIDE DEF t
  <2>4. analysis'[a] = t
    BY <1>1, <2>2 DEF AnalysisTypes
  <2>5. readable => Finds(reference, w.item, reference.item)'
    BY <2>1 DEF Finds, Readable, Known
  <2>6. Compares(a)'
    BY <2>1, <2>3, <2>4, <2>5 DEF Compares, Is, At, Item, Finds, Readable, Known
  <2> QED
    BY <1>1, <1>4, <2>1, <2>2, <2>3, <2>6
<1>6. ASSUME NEW a \in Analyses,
             Indexed(a) \/ Searches(a) \/ (\E i \in Images \cup Texts : Reads(a, i)) \/ Answers(a)
             \/ CallFails(a)
      PROVE  AnalysisInv'
  <2>1. UNCHANGED memoryVars
    <3>1. CASE CallFails(a)
      BY <3>1 DEF CallFails
    <3> QED
      BY <1>6, <3>1 DEF Indexed, Searches, Reads, Answers
  <2>2. /\ UNCHANGED <<task, assets>> /\ \A r \in Requests : Settled(r)
        /\ Item(a)' = Item(a) /\ Frame(a)' = Frame(a)
        /\ \A reference, item, i : Finds(reference, item, i)' <=> Finds(reference, item, i)
    BY <1>2, <2>1 DEF memoryVars, Finds, Readable, Known, Item, Frame
  <2>3. /\ Compares(a)
        /\ analysis[a] \in [at : AnalysisStates, skip : BOOLEAN,
                            reference : References \cup {NoReference}, readable : BOOLEAN,
                            pack : SUBSET Shown, sent : SUBSET Shown]
    BY <1>1 DEF AnalysisTypes
  <2>4. ASSUME Indexed(a) PROVE AnalysisInv'
    <3> DEFINE at == IF analysis[a].skip /\ task[a].level = "identical"
                       THEN "skipped" ELSE "searching"
               t == [analysis[a] EXCEPT !.at = at]
    <3>1. analysis' = [analysis EXCEPT ![a] = t]
      BY <2>4 DEF Indexed, Reaches
    <3>2. /\ t \in [at : AnalysisStates, skip : BOOLEAN, reference : References \cup {NoReference},
                    readable : BOOLEAN, pack : SUBSET Shown, sent : SUBSET Shown]
          /\ t.at = at /\ t.reference = analysis[a].reference /\ t.readable = analysis[a].readable
      BY <2>3 DEF AnalysisStates
    <3> HIDE DEF t
    <3>3. analysis'[a] = t
      BY <1>1, <3>1 DEF AnalysisTypes
    <3>4. Compares(a)'
      BY <2>2, <2>3, <2>4, <3>2, <3>3 DEF Compares, Indexed, Is, At
    <3> QED
      BY <1>1, <1>4, <2>2, <3>1, <3>2, <3>4
  <2>5. ASSUME Searches(a) PROVE AnalysisInv'
    <3> DEFINE named == analysis[a].reference.item
               reference == IF named = Frame(a) THEN Nobody ELSE named
    <3>1. PICK pack \in Packs(reference, Found(Namespace[Item(a)]) \ {Frame(a)}) :
            analysis' = [analysis EXCEPT ![a].at = "reading", ![a].pack = pack]
      BY <2>5 DEF Searches
    <3> DEFINE t == [analysis[a] EXCEPT !.at = "reading", !.pack = pack]
    <3>2. analysis' = [analysis EXCEPT ![a] = t]
      BY <3>1
    <3>3. /\ pack \in SUBSET Shown
          /\ analysis[a].readable /\ named # Frame(a) => named \in pack
      <4>1. /\ pack \in SUBSET (Found(Namespace[Item(a)]) \cup ({reference} \ {Nobody}))
            /\ reference # Nobody => reference \in pack
        BY DEF Packs, Shortened
      <4>2. analysis[a].readable => named \in Images /\ named # Nobody
        BY <2>3, AnalysisAssumption DEF Compares, Finds, Readable
      <4>3. reference # Nobody => reference \in Shown
        BY <2>3 DEF Shown, NoReference
      <4> QED
        BY <4>1, <4>2, <4>3 DEF Found, Shown
    <3>4. /\ t \in [at : AnalysisStates, skip : BOOLEAN, reference : References \cup {NoReference},
                    readable : BOOLEAN, pack : SUBSET Shown, sent : SUBSET Shown]
          /\ t.at = "reading" /\ t.reference = analysis[a].reference
          /\ t.readable = analysis[a].readable /\ t.pack = pack
      BY <2>3, <3>3 DEF AnalysisStates
    <3> HIDE DEF t
    <3>5. analysis'[a] = t
      BY <1>1, <3>2 DEF AnalysisTypes
    <3>6. Compares(a)'
      BY <2>2, <2>3, <2>5, <3>3, <3>4, <3>5 DEF Compares, Searches, Is, At
    <3> QED
      BY <1>1, <1>4, <2>2, <3>2, <3>4, <3>6
  <2>6. ASSUME NEW i \in Images \cup Texts, Reads(a, i) PROVE AnalysisInv'
    <3> DEFINE sent == IF Finds(analysis[a].reference, Item(a), i) THEN analysis[a].sent \cup {i}
                       ELSE analysis[a].sent
               t == [analysis[a] EXCEPT !.pack = analysis[a].pack \ {i}, !.sent = sent]
    <3>1. analysis' = [analysis EXCEPT ![a] = t] /\ Is(a, "reading")
      BY <1>1, <2>6 DEF Reads, AnalysisTypes
    <3>2. /\ t \in [at : AnalysisStates, skip : BOOLEAN, reference : References \cup {NoReference},
                    readable : BOOLEAN, pack : SUBSET Shown, sent : SUBSET Shown]
          /\ t.at = analysis[a].at /\ t.reference = analysis[a].reference
          /\ t.readable = analysis[a].readable
          /\ t.pack = analysis[a].pack \ {i} /\ t.sent = sent
      BY <2>3 DEF Shown
    <3> HIDE DEF t
    <3>3. analysis'[a] = t
      BY <1>1, <3>1 DEF AnalysisTypes
    <3>4. /\ analysis[a].readable =>
               Finds(analysis[a].reference, Item(a), analysis[a].reference.item)
          /\ analysis[a].sent \subseteq sent
          /\ Finds(analysis[a].reference, Item(a), i) => i \in sent
      BY <2>3 DEF Compares
    <3> HIDE DEF sent
    <3>5. Compares(a)'
      BY <2>2, <2>3, <3>1, <3>2, <3>3, <3>4 DEF Compares, Is, At
    <3> QED
      BY <1>1, <1>4, <2>2, <3>1, <3>2, <3>5
  <2>7. ASSUME Answers(a) PROVE AnalysisInv'
    <3> DEFINE t == [analysis[a] EXCEPT !.at = "answered"]
    <3>1. analysis' = [analysis EXCEPT ![a] = t]
      BY <2>7 DEF Answers, Reaches
    <3>2. /\ t \in [at : AnalysisStates, skip : BOOLEAN, reference : References \cup {NoReference},
                    readable : BOOLEAN, pack : SUBSET Shown, sent : SUBSET Shown]
          /\ t.at = "answered" /\ t.reference = analysis[a].reference
          /\ t.readable = analysis[a].readable
          /\ t.pack = analysis[a].pack /\ t.sent = analysis[a].sent
      BY <2>3 DEF AnalysisStates
    <3> HIDE DEF t
    <3>3. analysis'[a] = t
      BY <1>1, <3>1 DEF AnalysisTypes
    <3>4. Compares(a)'
      BY <2>2, <2>3, <2>7, <3>2, <3>3 DEF Compares, Answers, Is, At
    <3> QED
      BY <1>1, <1>4, <2>2, <3>1, <3>2, <3>4
  <2>8. ASSUME CallFails(a) PROVE AnalysisInv'
    <3> DEFINE t == [NewAnalysis EXCEPT !.at = "failed"]
    <3>1. analysis' = [analysis EXCEPT ![a] = t]
      BY <2>8 DEF CallFails
    <3>2. /\ t \in [at : AnalysisStates, skip : BOOLEAN, reference : References \cup {NoReference},
                    readable : BOOLEAN, pack : SUBSET Shown, sent : SUBSET Shown]
          /\ t.at = "failed" /\ t.readable = FALSE
      BY DEF AnalysisStates, NewAnalysis
    <3> HIDE DEF t
    <3>3. analysis'[a] = t
      BY <1>1, <3>1 DEF AnalysisTypes
    <3>4. ~Is(a, "new")
      BY <2>8 DEF CallFails, Is
    <3>5. Compares(a)'
      BY <2>2, <2>3, <3>2, <3>3, <3>4 DEF Compares, Is, At
    <3> QED
      BY <1>1, <1>4, <2>2, <3>1, <3>2, <3>5
  <2> QED
    BY <1>6, <2>4, <2>5, <2>6, <2>7, <2>8
<1>7. ASSUME NEW a \in Analyses, Analyzes(a) PROVE AnalysisInv'
  BY <1>5, <1>6, <1>7 DEF Analyzes
<1>8. ASSUME MemoryStep, UNCHANGED analysis PROVE AnalysisInv'
  BY <1>1, <1>3, <1>8, MemorySettled
<1>9. ASSUME NEW r \in Requests \ Analyses, NEW w \in Works, Arrives(r, w), UNCHANGED analysis
      PROVE  AnalysisInv'
  BY <1>1, <1>3, <1>9, ArrivesSettled
<1>10. ASSUME UNCHANGED vars PROVE AnalysisInv'
  BY <1>1, <1>2, <1>3, <1>10 DEF vars
<1> QED
  BY <1>7, <1>8, <1>9, <1>10 DEF Next

\* An answered comparison saw its reference, whatever indexing, repeated frames,
\* upgrades, failures and restarts of the memory it was interleaved with.
THEOREM ReferenceSentHolds == Spec => []ReferenceSent
<1>1. Init => FileInv
  BY DEF Init, MemoryInit, FileInv, FileReady, RetainedOnDisk, NewTask
<1>2. Init => AnalysisInv
  BY DEF Init, NewAnalysis, AnalysisInv, AnalysisTypes, AnalysisStates, Compares, Is
<1>3. AnalysisInv => ReferenceSent
  <2> SUFFICES ASSUME AnalysisInv, NEW a \in Analyses, Is(a, "answered"), analysis[a].readable,
                      analysis[a].reference.item # Frame(a)
               PROVE  analysis[a].reference.item \in analysis[a].sent
    BY DEF ReferenceSent
  <2> QED
    BY DEF AnalysisInv, Compares, Is
<1> QED
  BY <1>1, <1>2, <1>3, AnalysesUseTheMemory, MemoryInvariance, FileInvNext, AnalysisInvNext, PTL
     DEF Spec

-----------------------------------------------------------------------------
(* The sequences of observations                                           *)

Observations == [item : Items \cup {Nobody}, scope : Scopes, number : Nat,
                 prev : Nat, next : Nat]

\* A link is to an observation there is, and there is a highest number.
ObservedInv ==
  /\ observations \in Seq(Observations)
  /\ \A k \in DOMAIN observations : /\ observations[k].prev \in 0..Len(observations)
                                    /\ observations[k].next \in 0..Len(observations)
  /\ \E m \in Nat : \A k \in DOMAIN observations : NumberOf(k) <= m
  /\ \A scope \in Scopes \ {Unscoped} : Linked(scope)

\* A set of numbers that is not empty has a least one, and if it is bounded a
\* greatest.
LEMMA Least ==
  ASSUME NEW S \in SUBSET Nat, S # {}
  PROVE  \E x \in S : \A y \in S : x <= y
<1>1. PICK x \in S : \A y \in S : <<y, x>> \notin OpToRel(<, Nat)
  BY NatLessThanWellFounded, WFMin, Zenon
<1>2. \A y \in S : ~(y < x)
  BY <1>1, Zenon DEF OpToRel
<1> QED
  BY <1>2

LEMMA Greatest ==
  ASSUME NEW S \in SUBSET Nat, S # {}, NEW m \in Nat, \A x \in S : x <= m
  PROVE  \E x \in S : \A y \in S : y <= x
<1> DEFINE D == {m - x : x \in S}
<1>1. D \in SUBSET Nat /\ D # {}
  <2>1. \A x \in S : m - x \in Nat
    OBVIOUS
  <2>2. PICK x \in S : TRUE
    OBVIOUS
  <2> QED
    BY <2>1, <2>2
<1>2. PICK d \in D : \A e \in D : d <= e
  BY <1>1, Least
<1>3. PICK x \in S : d = m - x
  BY <1>2
<1>4. \A y \in S : m - x <= m - y
  BY <1>2, <1>3
<1> QED
  BY <1>3, <1>4

\* The least and the greatest by a number that each has.
LEMMA LeastBy ==
  ASSUME NEW K, K # {}, NEW f, \A k \in K : f[k].number \in Nat
  PROVE  \E k \in K : \A j \in K : f[j].number >= f[k].number
<1> DEFINE S == {f[k].number : k \in K}
<1>1. S \in SUBSET Nat /\ S # {}
  OBVIOUS
<1>2. PICK x \in S : \A y \in S : x <= y
  BY <1>1, Least
<1> QED
  BY <1>2

LEMMA GreatestBy ==
  ASSUME NEW K, K # {}, NEW f, NEW m \in Nat, \A k \in K : f[k].number \in Nat /\ f[k].number <= m
  PROVE  \E k \in K : \A j \in K : f[j].number <= f[k].number
<1> DEFINE S == {f[k].number : k \in K}
<1>1. S \in SUBSET Nat /\ S # {} /\ \A x \in S : x <= m
  OBVIOUS
<1>2. PICK x \in S : \A y \in S : y <= x
  BY <1>1, Greatest
<1> QED
  BY <1>2

\* A number that an observation is given is its own in its scope.
LEMMA NumberGiven ==
  ASSUME ObservedInv, NEW w, w.number \in Nat \cup {Unnumbered}, ~Refused(w)
  PROVE  LET number == IF w.number = Unnumbered THEN NextNumber(w.scope) ELSE w.number
         IN  /\ number \in Nat
             /\ w.scope # Unscoped => \A k \in Peers(w.scope) : NumberOf(k) # number
<1> DEFINE S == {NumberOf(k) : k \in Peers(w.scope)} \cup {0}
<1>1. \A k \in DOMAIN observations : NumberOf(k) \in Nat
  <2>1. observations \in [DOMAIN observations -> Observations]
    BY LenProperties DEF ObservedInv
  <2> QED
    BY <2>1 DEF NumberOf, Observations
<1>2. PICK m \in Nat : \A k \in DOMAIN observations : NumberOf(k) <= m
  BY DEF ObservedInv
<1>3. S \in SUBSET Nat /\ S # {} /\ \A x \in S : x <= m
  BY <1>1, <1>2 DEF Peers
<1>4. /\ \A k \in Peers(w.scope) : NumberOf(k) \in S
      /\ NextNumber(w.scope) = IF Peers(w.scope) = {} THEN 1 ELSE Max(S) + 1
  BY DEF NextNumber
<1> HIDE DEF S
<1>5. PICK x \in S : \A y \in S : y <= x
  BY <1>2, <1>3, Greatest
<1>6. \A y \in S : x >= y
  BY <1>3, <1>5
<1>7. PICK max \in S : max = Max(S) /\ \A y \in S : max >= y
  BY <1>6 DEF Max
<1>8. CASE w.number = Unnumbered
  <2>1. NextNumber(w.scope) \in Nat
    BY <1>3, <1>4, <1>7
  <2>2. \A k \in Peers(w.scope) : NumberOf(k) # NextNumber(w.scope)
    BY <1>3, <1>4, <1>7
  <2> QED
    BY <1>8, <2>1, <2>2
<1>9. CASE w.number # Unnumbered
  BY <1>9 DEF Refused
<1> QED
  BY <1>8, <1>9

\* A new observation goes between the neighbours that its number gives it.
LEMMA ObservedStep ==
  ASSUME ObservedInv, NEW w, w.number \in Nat \cup {Unnumbered}, w.scope \in Scopes,
         w.item \in Items \cup {Nobody}, ~Refused(w), observations' = Observed(w)
  PROVE  ObservedInv'
<1> DEFINE last == Len(observations)
           new == last + 1
           peers == IF w.scope = Unscoped THEN {} ELSE Peers(w.scope)
           number == IF w.number = Unnumbered THEN NextNumber(w.scope) ELSE w.number
           before == {k \in peers : NumberOf(k) < number}
           after == {k \in peers : NumberOf(k) > number}
           prev == IF before = {} THEN 0
                   ELSE CHOOSE k \in before : \A j \in before : NumberOf(j) <= NumberOf(k)
           next == IF after = {} THEN 0
                   ELSE CHOOSE k \in after : \A j \in after : NumberOf(j) >= NumberOf(k)
<1>1. /\ last \in Nat /\ DOMAIN observations = 1..last
      /\ \A k \in 1..last : /\ observations[k] \in Observations
                            /\ observations[k].prev \in 0..last
                            /\ observations[k].next \in 0..last
  BY LenProperties DEF ObservedInv
<1>2. number \in Nat /\ \A k \in peers : NumberOf(k) # number
  BY NumberGiven
<1>3. /\ peers \subseteq 1..last /\ before \subseteq peers /\ after \subseteq peers
      /\ \A k \in peers : observations[k].scope = w.scope /\ w.scope # Unscoped
      /\ \A k \in 1..last : NumberOf(k) \in Nat /\ observations[k].number = NumberOf(k)
  BY <1>1 DEF Peers, NumberOf, Observations
<1>4. PICK m \in Nat : \A k \in 1..last : NumberOf(k) <= m
  BY <1>1 DEF ObservedInv
<1>5. /\ before = {} => prev = 0
      /\ before # {} => prev \in before /\ \A j \in before : NumberOf(j) <= NumberOf(prev)
  <2>1. ASSUME before # {}
        PROVE  \E k \in before : \A j \in before : NumberOf(j) <= NumberOf(k)
    <3>1. \A k \in before : observations[k].number \in Nat /\ observations[k].number <= m
      BY <1>3, <1>4
    <3> HIDE DEF before
    <3> QED
      BY <2>1, <3>1, GreatestBy DEF NumberOf
  <2> HIDE DEF before
  <2> QED
    BY <2>1
<1>6. /\ after = {} => next = 0
      /\ after # {} => next \in after /\ \A j \in after : NumberOf(j) >= NumberOf(next)
  <2>1. ASSUME after # {}
        PROVE  \E k \in after : \A j \in after : NumberOf(j) >= NumberOf(k)
    <3>1. \A k \in after : observations[k].number \in Nat
      BY <1>3
    <3> HIDE DEF after
    <3> QED
      BY <2>1, <3>1, LeastBy DEF NumberOf
  <2> HIDE DEF after
  <2> QED
    BY <2>1
<1>7. observations' = [k \in 1..new |->
         CASE k = new -> [item |-> w.item, scope |-> w.scope, number |-> number,
                          prev |-> prev, next |-> next]
           [] k = prev -> [observations[k] EXCEPT !.next = new]
           [] k = next -> [observations[k] EXCEPT !.prev = new]
           [] OTHER -> observations[k]]
  BY DEF Observed
<1>8. /\ \A k \in peers : (k \in before <=> NumberOf(k) < number)
                          /\ (k \in after <=> NumberOf(k) > number)
      /\ before \cap after = {}
  BY <1>2, <1>3
<1> HIDE DEF last, number, peers, before, after, prev, next
<1>9. /\ prev \in 0..last /\ next \in 0..last /\ (prev # 0 => prev # next)
      /\ prev # 0 <=> before # {}
      /\ next # 0 <=> after # {}
  <2>1. \A k \in before \cup after : k \in 1..last /\ k # 0 /\ k \in 0..last
    BY <1>1, <1>3
  <2>2. prev # 0 <=> before # {}
    BY <1>5, <2>1
  <2>3. next # 0 <=> after # {}
    BY <1>6, <2>1
  <2>4. prev \in 0..last /\ next \in 0..last
    BY <1>1, <1>5, <1>6, <2>1
  <2>5. prev # 0 => prev # next
    BY <1>5, <1>6, <1>8, <2>2, <2>3
  <2> QED
    BY <2>2, <2>3, <2>4, <2>5
<1> USE DEF new
\* Each observation afterwards.
<1>10. /\ new \in 1..new /\ observations'[new] = [item |-> w.item, scope |-> w.scope,
                                                number |-> number, prev |-> prev, next |-> next]
       /\ \A k \in 1..last : k \in 1..new /\ k # new
  <2>1. new \in 1..new /\ \A k \in 1..last : k \in 1..new /\ k # new
    BY <1>1
  <2>2. new # prev /\ new # next
    BY <1>1, <1>9
  <2> HIDE DEF new
  <2> QED
    BY <1>7, <2>1, <2>2
<1>11. \A k \in 1..last :
         /\ observations'[k] \in Observations
         /\ observations'[k].scope = observations[k].scope
         /\ observations'[k].number = NumberOf(k)
         /\ observations'[k].next = IF k = prev THEN new ELSE observations[k].next
         /\ observations'[k].prev = IF k = next THEN new ELSE observations[k].prev
  <2> SUFFICES ASSUME NEW k \in 1..last
               PROVE /\ observations'[k] \in Observations
                     /\ observations'[k].scope = observations[k].scope
                     /\ observations'[k].number = NumberOf(k)
                     /\ observations'[k].next = IF k = prev THEN new ELSE observations[k].next
                     /\ observations'[k].prev = IF k = next THEN new ELSE observations[k].prev
    OBVIOUS
  <2>1. observations[k] \in Observations /\ observations[k].number = NumberOf(k) /\ new \in Nat
    BY <1>1, <1>3
  <2>2. CASE k = prev
    <3>1. observations'[k] = [observations[k] EXCEPT !.next = new] /\ k # next
      BY <1>1, <1>7, <1>9, <1>10, <2>2
    <3> QED
      BY <2>1, <2>2, <3>1 DEF Observations
  <2>3. CASE k = next
    <3>1. observations'[k] = [observations[k] EXCEPT !.prev = new] /\ k # prev
      BY <1>1, <1>7, <1>9, <1>10, <2>3
    <3> QED
      BY <2>1, <2>3, <3>1 DEF Observations
  <2>4. CASE k # prev /\ k # next
    <3>1. observations'[k] = observations[k]
      BY <1>7, <1>10, <2>4
    <3> QED
      BY <2>1, <2>4, <3>1
  <2> QED
    BY <2>2, <2>3, <2>4
<1>12. observations' \in [1..new -> Observations] /\ Len(observations') = new
       /\ DOMAIN observations' = 1..new
  <2>1. observations'[new] \in Observations
    BY <1>1, <1>2, <1>9, <1>10 DEF Observations
  <2>2. \A k \in 1..new : k = new \/ k \in 1..last
    BY <1>1
  <2>3. \A k \in 1..new : observations'[k] \in Observations
    BY <1>11, <2>1, <2>2
  <2>4. observations' \in [1..new -> Observations]
    BY <1>7, <2>3
  <2>5. observations' \in Seq(Observations) /\ new \in Nat
    BY <1>1, <2>4, SeqDef
  <2> QED
    BY <2>4, <2>5, LenProperties
<1>13. observations' \in Seq(Observations)
  BY <1>1, <1>12, SeqDef
<1>14. \A k \in 1..new : observations'[k].prev \in 0..new /\ observations'[k].next \in 0..new
  <2>1. \A k \in 1..new : k = new \/ k \in 1..last
    BY <1>1
  <2>2. prev \in 0..new /\ next \in 0..new /\ new \in 0..new
    BY <1>1, <1>9
  <2>3. \A k \in 1..last : observations[k].prev \in 0..new /\ observations[k].next \in 0..new
    BY <1>1
  <2>4. observations'[new].prev = prev /\ observations'[new].next = next
    BY <1>10
  <2> HIDE DEF new
  <2> QED
    BY <1>11, <2>1, <2>2, <2>3, <2>4
<1>15. \E n \in Nat : \A k \in 1..new : observations'[k].number <= n
  <2> DEFINE n == IF m < number THEN number ELSE m
  <2>1. \A k \in 1..new : k = new \/ k \in 1..last
    BY <1>1
  <2>2. n \in Nat /\ \A k \in 1..new : observations'[k].number <= n
    BY <1>2, <1>3, <1>4, <1>10, <1>11, <2>1
  <2> QED
    BY <2>2
<1>16. ASSUME NEW scope \in Scopes \ {Unscoped} PROVE Linked(scope)'
  <2> DEFINE Before(k, j) == /\ NumberOf(k) < NumberOf(j)
                             /\ ~\E i \in Peers(scope) :
                                   NumberOf(k) < NumberOf(i) /\ NumberOf(i) < NumberOf(j)
             at(k) == observations'[k].number
  <2>1. \A k, j \in Peers(scope) :
          /\ k # j => NumberOf(k) # NumberOf(j)
          /\ observations[k].next = j <=> observations[j].prev = k
          /\ observations[k].next = j <=> Before(k, j)
    BY DEF ObservedInv, Linked
  <2>2. Peers(scope)' = {k \in 1..new : observations'[k].scope = scope}
    BY <1>12 DEF Peers
  <2>3. Peers(scope) = {k \in 1..last : observations[k].scope = scope}
    BY <1>1 DEF Peers
  <2>4. \A k : NumberOf(k)' = at(k)
    BY DEF NumberOf
  <2>5. SUFFICES \A k, j \in Peers(scope)' :
                   /\ k # j => at(k) # at(j)
                   /\ observations'[k].next = j <=> observations'[j].prev = k
                   /\ observations'[k].next = j <=>
                        /\ at(k) < at(j)
                        /\ ~\E i \in Peers(scope)' : at(k) < at(i) /\ at(i) < at(j)
    BY <2>4 DEF Linked
  <2>6. \A k \in Peers(scope) : k \in 1..last /\ at(k) = NumberOf(k) /\ NumberOf(k) \in Nat
    BY <1>3, <1>11, <2>3
  <2>7. CASE scope # w.scope
    <3>1. Peers(scope)' = Peers(scope)
      <4>1. \A k \in 1..new : k = new \/ k \in 1..last
        BY <1>1
      <4> QED
        BY <1>10, <1>11, <2>2, <2>3, <2>7, <4>1
    <3>2. prev \notin Peers(scope) /\ next \notin Peers(scope)
      BY <1>1, <1>3, <1>5, <1>6, <2>3, <2>7
    <3>3. \A k \in Peers(scope) : /\ observations'[k].next = observations[k].next
                                  /\ observations'[k].prev = observations[k].prev
      BY <1>11, <2>6, <3>2
    <3> QED
      BY <2>1, <2>6, <3>1, <3>3
  <2>8. CASE scope = w.scope
    <3>1. peers = Peers(scope)
      BY <2>8 DEF peers
    <3>2. Peers(scope)' = peers \cup {new} /\ new \notin peers
      <4>1. \A k \in 1..new : k = new \/ k \in 1..last
        BY <1>1
      <4> QED
        BY <1>3, <1>10, <1>11, <2>2, <2>3, <2>8, <3>1, <4>1
    <3>3. at(new) = number /\ observations'[new].next = next /\ observations'[new].prev = prev
      BY <1>10
    <3>4. \A k \in peers :
            /\ observations'[k].next = IF k = prev THEN new ELSE observations[k].next
            /\ observations'[k].prev = IF k = next THEN new ELSE observations[k].prev
            /\ at(k) = NumberOf(k) /\ NumberOf(k) \in Nat /\ NumberOf(k) # number
            /\ k # new /\ k # 0 /\ observations[k].next # new /\ observations[k].prev # new
      <4>1. \A k \in 1..last : k # new /\ k # 0 /\ observations[k].next # new
                               /\ observations[k].prev # new
        BY <1>1
      <4>2. \A k \in peers : k \in 1..last
        BY <1>3
      <4>3. \A k \in peers : at(k) = NumberOf(k) /\ NumberOf(k) \in Nat /\ NumberOf(k) # number
        BY <1>2, <1>3, <1>11, <4>2
      <4> HIDE DEF at, new
      <4> QED
        BY <1>11, <4>1, <4>2, <4>3
    <3>5. /\ prev # 0 => /\ prev \in peers /\ NumberOf(prev) < number
                         /\ \A i \in peers : NumberOf(i) < number => NumberOf(i) <= NumberOf(prev)
          /\ next # 0 => /\ next \in peers /\ NumberOf(next) > number
                         /\ \A i \in peers : NumberOf(i) > number => NumberOf(i) >= NumberOf(next)
          /\ prev = 0 => \A i \in peers : NumberOf(i) > number
          /\ next = 0 => \A i \in peers : NumberOf(i) < number
          /\ prev # new /\ next # new /\ number \in Nat
      <4>1. \A i \in peers : NumberOf(i) < number \/ NumberOf(i) > number
        BY <1>2, <1>3
      <4> QED
        BY <1>1, <1>2, <1>3, <1>5, <1>6, <1>8, <1>9, <4>1
    <3> HIDE DEF at
    <3>6. ASSUME NEW k \in peers, NEW j \in peers
          PROVE  /\ k # j => at(k) # at(j)
                 /\ observations'[k].next = j <=> observations'[j].prev = k
                 /\ observations'[k].next = j <=>
                      /\ at(k) < at(j)
                      /\ ~\E i \in peers \cup {new} : at(k) < at(i) /\ at(i) < at(j)
      <4>1. (\E i \in peers \cup {new} : at(k) < at(i) /\ at(i) < at(j)) <=>
              \/ \E i \in peers : NumberOf(k) < NumberOf(i) /\ NumberOf(i) < NumberOf(j)
              \/ NumberOf(k) < number /\ number < NumberOf(j)
        BY <3>3, <3>4
      <4>2. /\ k # j => NumberOf(k) # NumberOf(j)
            /\ observations[k].next = j <=> observations[j].prev = k
            /\ observations[k].next = j <=> Before(k, j)
        BY <2>1, <3>1
      <4>3. CASE NumberOf(k) < number /\ number < NumberOf(j)
        \* They are neighbours no more, if they were.
        <5>1. prev # 0 /\ next # 0
          BY <3>4, <3>5, <4>3
        <5>2. Before(k, j) => k = prev /\ j = next
          BY <2>1, <3>1, <3>4, <3>5, <4>3, <5>1
        <5>3. k # next /\ j # prev
          BY <3>4, <3>5, <4>3, <5>1
        <5> QED
          BY <3>4, <4>1, <4>2, <4>3, <5>1, <5>2
      <4>4. CASE ~(NumberOf(k) < number /\ number < NumberOf(j))
        <5>1. k = prev => ~Before(k, j)
          BY <3>1, <3>4, <3>5, <4>4
        <5>2. j = next => ~Before(k, j)
          BY <3>1, <3>4, <3>5, <4>4
        <5>3. /\ observations'[k].next = j <=> Before(k, j)
              /\ observations'[j].prev = k <=> Before(k, j)
          BY <3>4, <4>2, <5>1, <5>2
        <5>4. (/\ at(k) < at(j)
               /\ ~\E i \in peers \cup {new} : at(k) < at(i) /\ at(i) < at(j)) <=> Before(k, j)
          BY <3>1, <3>4, <4>1, <4>4
        <5> QED
          BY <3>4, <4>2, <5>3, <5>4
      <4> QED
        BY <4>3, <4>4
    <3>7. ASSUME NEW j \in peers
          PROVE  /\ at(new) # at(j)
                 /\ observations'[new].next = j <=> observations'[j].prev = new
                 /\ observations'[new].next = j <=>
                      /\ at(new) < at(j)
                      /\ ~\E i \in peers \cup {new} : at(new) < at(i) /\ at(i) < at(j)
      <4>1. (\E i \in peers \cup {new} : at(new) < at(i) /\ at(i) < at(j)) <=>
              \E i \in peers : number < NumberOf(i) /\ NumberOf(i) < NumberOf(j)
        BY <3>3, <3>4, <3>5
      <4>2. next = j <=> /\ number < NumberOf(j)
                         /\ ~\E i \in peers : number < NumberOf(i) /\ NumberOf(i) < NumberOf(j)
        <5>1. next # 0 => next \in peers
          BY <3>5
        <5>2. next # 0 /\ next # j => NumberOf(next) # NumberOf(j)
          BY <2>1, <3>1, <5>1
        <5> QED
          BY <3>4, <3>5, <5>2
      <4> QED
        BY <3>3, <3>4, <4>1, <4>2
    <3>8. ASSUME NEW k \in peers
          PROVE  /\ at(k) # at(new)
                 /\ observations'[k].next = new <=> observations'[new].prev = k
                 /\ observations'[k].next = new <=>
                      /\ at(k) < at(new)
                      /\ ~\E i \in peers \cup {new} : at(k) < at(i) /\ at(i) < at(new)
      <4>1. (\E i \in peers \cup {new} : at(k) < at(i) /\ at(i) < at(new)) <=>
              \E i \in peers : NumberOf(k) < NumberOf(i) /\ NumberOf(i) < number
        BY <3>3, <3>4, <3>5
      <4>2. prev = k <=> /\ NumberOf(k) < number
                         /\ ~\E i \in peers : NumberOf(k) < NumberOf(i) /\ NumberOf(i) < number
        <5>1. prev # 0 => prev \in peers
          BY <3>5
        <5>2. prev # 0 /\ prev # k => NumberOf(prev) # NumberOf(k)
          BY <2>1, <3>1, <5>1
        <5> QED
          BY <3>4, <3>5, <5>2
      <4> QED
        BY <3>3, <3>4, <4>1, <4>2
    <3>9. /\ observations'[new].next # new /\ observations'[new].prev # new
          /\ ~(at(new) < at(new))
      BY <3>3, <3>5
    <3> QED
      BY <3>2, <3>6, <3>7, <3>8, <3>9
  <2> QED
    BY <2>7, <2>8
<1> QED
  BY <1>12, <1>13, <1>14, <1>15, <1>16 DEF ObservedInv, NumberOf

LEMMA ObservedInvNext == MemoryInv /\ ObservedInv /\ [MemoryNext]_memoryVars => ObservedInv'
<1> SUFFICES ASSUME MemoryInv, ObservedInv, [MemoryNext]_memoryVars PROVE ObservedInv'
  OBVIOUS
<1>1. UNCHANGED observations => ObservedInv'
  BY DEF ObservedInv, Linked, Peers, NumberOf
<1>2. \A r \in Requests : task[r] \in Tasks /\ task[r].work \in Works \cup {NoWork}
  BY DEF MemoryInv, MemoryTypes, TaskTypes, Tasks
<1>3. ASSUME NEW r \in Requests, Commits(r) PROVE ObservedInv'
  <2> DEFINE w == task[r].work
  <2>1. \/ UNCHANGED observations
        \/ ~Refused(w) /\ observations' = Observed(w)
    BY <1>3 DEF Commits
  <2>2. /\ w.number \in Nat \cup {Unnumbered} /\ w.scope \in Scopes
        /\ w.item \in Items \cup {Nobody}
    BY <1>2, WorkTypes
  <2> HIDE DEF w
  <2> QED
    BY <1>1, <2>1, <2>2, ObservedStep
<1>4. ASSUME NEW r \in Requests, Repeats(r) PROVE ObservedInv'
  <2> DEFINE w == [task[r].work EXCEPT !.item = task[r].of]
  <2>1. \/ UNCHANGED observations
        \/ ~Refused(w) /\ observations' = Observed(w)
    BY <1>4 DEF Repeats
  <2>2. /\ w.number \in Nat \cup {Unnumbered} /\ w.scope \in Scopes
        /\ w.item \in Items \cup {Nobody}
    <3>1. /\ task[r].work.number \in Nat \cup {Unnumbered} /\ task[r].work.scope \in Scopes
          /\ DOMAIN task[r].work = {"item", "crops", "retention", "scope", "number"}
          /\ task[r].of \in Items \cup {Nobody}
      BY <1>2, WorkTypes DEF NoWork, Tasks
    <3> QED
      BY <3>1
  <2> HIDE DEF w
  <2> QED
    BY <1>1, <2>1, <2>2, ObservedStep
<1>5. ASSUME NEW r \in Requests, RequestStep(r) PROVE ObservedInv'
  BY <1>1, <1>3, <1>4, <1>5 DEF RequestStep, Checks, Keeps, Kept, Chooses, Stores, Adds, Added,
     Rejects, AddFails
<1> QED
  BY <1>1, <1>5 DEF MemoryNext, MemoryStep, OpensIndex, Rebuilds, Arrives, MemoryRestarts, memoryVars

\* The observations of a session stay a doubly linked list in the order of their
\* numbers, for any number of frames that arrive, are numbered or are refused.
THEOREM SequencesLinkedHolds == Spec => []SequencesLinked
<1>1. Init => ObservedInv
  <2> SUFFICES ASSUME Init PROVE ObservedInv
    OBVIOUS
  <2>1. observations = <<>> /\ Len(observations) = 0 /\ DOMAIN observations = {}
    BY DEF Init, MemoryInit
  <2> QED
    BY <2>1 DEF ObservedInv, Linked, Peers
<1>2. ObservedInv => SequencesLinked
  <2> SUFFICES ASSUME ObservedInv,
                      NEW scope \in {observations[k].scope : k \in DOMAIN observations} \ {Unscoped}
               PROVE  Linked(scope)
    BY DEF SequencesLinked
  <2>1. observations \in [DOMAIN observations -> Observations]
    BY LenProperties DEF ObservedInv
  <2>2. scope \in Scopes
    BY <2>1 DEF Observations
  <2> QED
    BY <2>2 DEF ObservedInv
<1> QED
  BY <1>1, <1>2, AnalysesUseTheMemory, MemoryInvariance, ObservedInvNext, PTL DEF Spec

-----------------------------------------------------------------------------
(* The abstract store                                                      *)

\* A request for an image has the event loop to itself while it is under way, so
\* that the retention it has found to be less is still less when it writes its own.
OnLoop(r) == task[r].at \notin {"new", "done", "failed", "lost"} /\ IsImage(r) => loop = r
Raises(r) ==
  task[r].at \in {"keeping", "kept"} =>
    IsImage(r) /\ Known(Item(r)) /\ task[r].work.retention > assets[Item(r)]
UpgradeInv == \A r \in Requests : OnLoop(r) /\ Raises(r)

\* What a step of a request does to the tasks and to the event loop.
Advances(r) ==
  /\ \A q \in Requests \ {r} : task'[q] = task[q]
  /\ task'[r].work = task[r].work
  /\ \/ loop' = loop
     \/ Frees(r) /\ task'[r].at \in {"done", "failed"}
  /\ task'[r].at \in {"keeping", "kept"} =>
       UNCHANGED assets /\ ((IsImage(r) /\ Upgraded(r)) \/ task[r].at = "keeping")

LEMMA StepAdvances ==
  ASSUME MemoryInv, NEW r \in Requests, RequestStep(r)
  PROVE  Advances(r)
<1> USE DEF At
<1>1. TaskTypes /\ task[r] \in Tasks /\ task[r].at # "new" /\ DOMAIN assets \subseteq Items
  BY IndexParts DEF RequestStep, Checks, Keeps, Kept, Chooses, Repeats, Stores, Commits, Adds,
     Added, Rejects, AddFails, WriterInv
<1>2. task'[r].work = task[r].work
  BY <1>1, RequestSettled DEF Settled
<1>3. ASSUME NEW t, Moved(r, t), t.at \notin {"keeping", "kept"},
             loop' = loop \/ (Frees(r) /\ t.at \in {"done", "failed"})
      PROVE  Advances(r)
  BY <1>2, <1>3 DEF Moved, Advances
<1>4. ASSUME NEW at \in {"done", "failed"}, Ends(r, at) PROVE Advances(r)
  <2> DEFINE t == [task[r] EXCEPT !.at = at, !.need = {}, !.known = FALSE]
  <2>1. Moved(r, t) /\ Frees(r)
    BY <1>1, <1>4, EndsMoves DEF TaskStates, Ends
  <2>2. t.at = at
    BY <1>1 DEF Tasks
  <2> HIDE DEF t
  <2> QED
    BY <1>3, <2>1, <2>2
<1>5. ASSUME NEW at \in TaskStates \ {"new"}, Goes(r, at), loop' = loop,
             at \in {"keeping", "kept"} =>
               UNCHANGED assets /\ ((IsImage(r) /\ Upgraded(r)) \/ task[r].at = "keeping")
      PROVE  Advances(r)
  <2> DEFINE t == [task[r] EXCEPT !.at = at]
  <2>1. Moved(r, t)
    BY <1>1, <1>5, GoesMoves
  <2>2. t.at = at
    BY <1>1 DEF Tasks
  <2> HIDE DEF t
  <2> QED
    BY <1>2, <1>5, <2>1, <2>2 DEF Moved, Advances
<1>6. CASE Checks(r)
  <2>1. CASE IsImage(r) /\ Upgraded(r)
    BY <1>5, <1>6, <2>1 DEF Checks, TaskStates
  <2>2. CASE ~(IsImage(r) /\ Upgraded(r))
    BY <1>5, <1>6, <2>2 DEF Checks, TaskStates
  <2> QED
    BY <2>1, <2>2
<1>7. CASE Keeps(r) \/ Kept(r)
  BY <1>5, <1>7 DEF Keeps, Kept, TaskStates
<1>8. CASE Chooses(r)
  <2> DEFINE need == task[r].work.crops \ CropsOf(Item(r))
             s == [task[r] EXCEPT !.at = "repeating", !.level = "identical"]
             n(i) == [task[r] EXCEPT !.at = "repeating", !.level = "near_duplicate", !.of = i]
             t == [task[r] EXCEPT !.at = "storing", !.need = need]
  <2>1. Moved(r, s) \/ (\E i \in Items : Moved(r, n(i))) \/ Moved(r, t)
    BY <1>1, <1>8, ChoosesMoves
  <2>2. s.at = "repeating" /\ t.at = "storing" /\ \A i : n(i).at = "repeating"
    BY <1>1 DEF Tasks
  <2>3. loop' = loop
    BY <1>8 DEF Chooses
  <2> HIDE DEF s, n, t
  <2> QED
    BY <1>3, <2>1, <2>2, <2>3
<1>9. CASE Repeats(r) \/ Rejects(r) \/ AddFails(r)
  BY <1>4, <1>9 DEF Repeats, Rejects, AddFails
<1>10. CASE Stores(r)
  <2> DEFINE t == [task[r] EXCEPT !.at = "committing", !.known = Known(Item(r)),
                                  !.level = IF Known(Item(r)) THEN "identical" ELSE "none"]
  <2>1. Moved(r, t) /\ loop' = loop
    BY <1>1, <1>10, StoresMoves DEF Stores
  <2>2. t.at = "committing"
    BY <1>1 DEF Tasks
  <2> HIDE DEF t
  <2> QED
    BY <1>3, <2>1, <2>2
<1>11. CASE Commits(r)
  <2> DEFINE t == [task[r] EXCEPT !.at = "adding", !.todo = Wanted(r)]
  <2>1. CASE Ends(r, "failed")
    BY <1>4, <2>1
  <2>2. CASE ~Ends(r, "failed")
    <3>1. vectors' \in Seq(Vectors) /\ loop' = loop
      BY <1>11, <2>2, CommitStep DEF Commits
    <3>2. Moved(r, t)
      BY <1>1, <1>11, <2>2, <3>1, CommitsMoves
    <3>3. t.at = "adding"
      BY <1>1 DEF Tasks
    <3> HIDE DEF t
    <3> QED
      BY <1>3, <3>1, <3>2, <3>3
  <2> QED
    BY <2>1, <2>2
<1>12. ASSUME task[r].at = "adding", NEW v, Takes(r, v) PROVE Advances(r)
  <2> DEFINE d == [task[r] EXCEPT !.at = "done", !.need = {}, !.known = FALSE, !.todo = {}]
             s == [task[r] EXCEPT !.todo = @ \ {v}]
  <2>1. \/ Moved(r, d) /\ Frees(r)
        \/ Moved(r, s) /\ loop' = loop
    BY <1>1, <1>12, TakesMoves DEF Takes
  <2>2. d.at = "done" /\ s.at = "adding"
    BY <1>1, <1>12 DEF Tasks
  <2> HIDE DEF d, s
  <2> QED
    BY <1>3, <2>1, <2>2
<1>13. CASE Adds(r) \/ Added(r)
  <2>1. CASE UNCHANGED <<task, loop>> /\ task[r].at = "adding"
    BY <2>1 DEF Advances
  <2>2. task[r].at = "adding"
    BY <1>13, IndexParts DEF Adds, Added, WriterInv
  <2> QED
    BY <1>12, <1>13, <2>1, <2>2 DEF Adds, Added
<1> QED
  BY <1>6, <1>7, <1>8, <1>9, <1>10, <1>11, <1>13 DEF RequestStep

\* A request other than the one that takes a step.
LEMMA OthersUpgrade ==
  ASSUME MemoryInv, UpgradeInv, NEW r \in Requests, RequestStep(r), NEW q \in Requests \ {r}
  PROVE  OnLoop(q)' /\ Raises(q)'
<1>1. task'[q] = task[q] /\ (loop' = loop \/ Frees(r)) /\ OnLoop(q) /\ Raises(q)
  BY StepAdvances DEF Advances, UpgradeInv
<1>2. /\ Item(q)' = Item(q) /\ (IsImage(q)' <=> IsImage(q))
      /\ r # Nobody /\ q # Nobody
  BY <1>1, MemoryAssumption DEF Item, IsImage
<1>3. OnLoop(q)'
  BY <1>1, <1>2 DEF OnLoop, Frees
<1>4. ASSUME task[q].at \in {"keeping", "kept"}, Known(Item(q))
      PROVE  Known(Item(q))' /\ assets'[Item(q)] = assets[Item(q)]
  <2>1. loop = q
    BY <1>1, <1>4 DEF Raises, OnLoop
  <2>2. ~Kept(r)
    BY <2>1 DEF UpgradeInv, Raises, OnLoop, Kept, At
  <2>3. Commits(r) => \/ UNCHANGED assets
                      \/ /\ ~Known(Item(r))
                         /\ assets' = [i \in DOMAIN assets \cup {Item(r)} |->
                                         IF i = Item(r) THEN task[r].work.retention ELSE assets[i]]
    BY DEF Commits
  <2>4. ~Commits(r) => UNCHANGED assets
    BY <2>2 DEF RequestStep, Checks, Keeps, Chooses, Repeats, Stores, Adds, Added, Rejects, AddFails
  <2> QED
    BY <1>2, <1>4, <2>3, <2>4 DEF Known
<1>5. Raises(q)'
  BY <1>1, <1>2, <1>4 DEF Raises
<1> QED
  BY <1>3, <1>5

LEMMA UpgradeInvNext == MemoryInv /\ UpgradeInv /\ [MemoryNext]_memoryVars => UpgradeInv'
<1> SUFFICES ASSUME MemoryInv, UpgradeInv, [MemoryNext]_memoryVars PROVE UpgradeInv'
  OBVIOUS
<1>1. ASSUME NEW r \in Requests, RequestStep(r) PROVE UpgradeInv'
  <2>1. Advances(r) /\ OnLoop(r) /\ Raises(r)
    BY <1>1, StepAdvances DEF UpgradeInv
  <2>2. task[r].at \notin {"new", "done", "failed", "lost"}
    BY <1>1, IndexParts DEF RequestStep, Checks, Keeps, Kept, Chooses, Repeats, Stores, Commits,
       Adds, Added, Rejects, AddFails, WriterInv, At
  <2>3. Item(r)' = Item(r) /\ (IsImage(r)' <=> IsImage(r))
    BY <2>1 DEF Advances, Item, IsImage
  <2>4. OnLoop(r)'
    BY <2>1, <2>2, <2>3 DEF OnLoop, Advances
  <2>5. Raises(r)'
    BY <2>1, <2>3 DEF Raises, Advances, Upgraded, Known
  <2> QED
    BY <1>1, <2>4, <2>5, OthersUpgrade DEF UpgradeInv
<1>2. ASSUME NEW r \in Requests, NEW w \in Works, Arrives(r, w) PROVE UpgradeInv'
  <2>1. /\ loop = Nobody /\ UNCHANGED assets
        /\ loop' = IF w.item \in Images THEN r ELSE loop
    BY <1>2 DEF Arrives
  <2>2. /\ task'[r].at = "arrived" /\ task'[r].work = w
        /\ \A q \in Requests \ {r} : task'[q] = task[q]
    BY <1>2, ArrivesSettled
  <2>3. OnLoop(r)' /\ Raises(r)'
    BY <2>1, <2>2 DEF OnLoop, Raises, IsImage, Item
  <2>4. ASSUME NEW q \in Requests \ {r} PROVE OnLoop(q)' /\ Raises(q)'
    <3>1. task'[q] = task[q] /\ OnLoop(q) /\ Raises(q) /\ q # Nobody
      BY <2>2, MemoryAssumption DEF UpgradeInv
    <3>2. Item(q)' = Item(q) /\ (IsImage(q)' <=> IsImage(q))
      BY <3>1 DEF Item, IsImage
    <3> QED
      BY <2>1, <3>1, <3>2 DEF OnLoop, Raises, Known
  <2> QED
    BY <2>3, <2>4 DEF UpgradeInv
<1>3. ASSUME NEW v, MemoryRestarts(v) PROVE UpgradeInv'
  <2> SUFFICES ASSUME NEW r \in Requests PROVE task'[r].at \in {"new", "done", "failed", "lost"}
    BY DEF UpgradeInv, OnLoop, Raises
  <2>1. task'[r] = IF task[r].at \in {"new", "done", "failed"} THEN task[r] ELSE Ended(r, "lost")
    BY <1>3 DEF MemoryRestarts
  <2>2. Ended(r, "lost").at = "lost"
    BY IndexParts DEF Ended, Tasks
  <2> QED
    BY <2>1, <2>2
<1>4. CASE UNCHANGED <<task, loop, assets>>
  BY <1>4 DEF UpgradeInv, OnLoop, Raises, IsImage, Item, Known
<1> QED
  BY <1>1, <1>2, <1>3, <1>4 DEF MemoryNext, MemoryStep, OpensIndex, Rebuilds, memoryVars

LEMMA UpgradeInvInit == MemoryInit => UpgradeInv
  BY DEF MemoryInit, UpgradeInv, OnLoop, Raises, NewTask

\* What can be read back is what is retained.
LEMMA RetainedIs ==
  ASSUME FileInv, FileInv'
  PROVE  /\ Retained = {i \in DOMAIN assets \cap Images : assets[i] > 0}
         /\ Retained' = {i \in DOMAIN assets' \cap Images : assets'[i] > 0}
         /\ UNCHANGED assets => Retained' = Retained
<1>1. Retained = {i \in DOMAIN assets \cap Images : assets[i] > 0}
  BY DEF FileInv, RetainedOnDisk, Retained
<1>2. Retained' = {i \in DOMAIN assets' \cap Images : assets'[i] > 0}
  BY DEF FileInv, RetainedOnDisk, Retained
<1> QED
  BY <1>1, <1>2

\* A step that changes neither the assets nor what can be found is none of the store.
LEMMA StoreStutters ==
  ASSUME FileInv, FileInv', UNCHANGED <<assets, vectors, revision>>,
         index'.open = index.open, index.open => index'.content = index.content
  PROVE  UNCHANGED Store!vars
<1>1. Retained' = Retained
  BY RetainedIs
<1>2. Findable' = Findable
  BY DEF Findable
<1> QED
  BY <1>1, <1>2 DEF Store!vars

\* A label reaches the index in memory.
LEMMA LabelsStore ==
  ASSUME MemoryInv, FileInv, FileInv', NEW r \in Requests, task[r].at = "adding",
         UNCHANGED <<assets, vectors, revision>>, index'.open = index.open,
         index'.content = index.content \cup {Min(task[r].todo)}
  PROVE  [Store!Next]_(Store!vars)
<1> DEFINE v == Min(task[r].todo)
<1>1. index.open /\ v \in Current
  BY IndexParts DEF TaskInv
<1>2. CASE v \in index.content
  <2>1. index'.content = index.content
    BY <1>2
  <2> QED
    BY <2>1, StoreStutters
<1>3. CASE v \notin index.content
  <2>1. Retained' = Retained
    BY RetainedIs
  <2> HIDE DEF v
  <2>2. Findable = index.content /\ Findable' = Findable \cup {v}
    BY <1>1 DEF Findable, v
  <2>3. v \in DOMAIN vectors /\ v \in Store!Searchable
    BY <1>1 DEF Current, Store!Searchable
  <2>4. Store!Indexes(v)
    BY <1>1, <1>3, <2>1, <2>2, <2>3 DEF Store!Indexes
  <2> QED
    BY <2>3, <2>4 DEF Store!Next
<1> QED
  BY <1>2, <1>3

\* A transaction stores an asset, or more vectors of one.
LEMMA CommitsStore ==
  ASSUME MemoryInv, FileInv, FileInv', NEW r \in Requests, Commits(r), ~Ends(r, "failed")
  PROVE  Store!Next
<1> DEFINE item == Item(r)
           kept == task[r].work.retention
<1>1. /\ task[r].at = "committing" /\ index.open /\ task[r].need # {}
      /\ UNCHANGED <<index, revision>> /\ vectors' = Embedded(r)
  BY IndexParts DEF Commits, At, TaskInv, Outside
<1>2. Extends(r)
  BY <1>1, IndexParts, EmbeddedExtends DEF NeedInv, MemoryInv
<1>3. item \in Items /\ kept \in 0..2
  BY <1>1, IndexParts, AtWork, WorkTypes DEF Item
<1>4. Store!Embeds(item)
  <2>1. Findable' = Findable
    BY <1>1 DEF Findable
  <2> QED
    BY <1>1, <1>2, <2>1 DEF Store!Embeds, Extends
<1>5. CASE Known(item)
  <2>1. UNCHANGED assets
    BY <1>5 DEF Commits
  <2>2. Store!Extends(item)
    BY <1>4, <1>5, <2>1, RetainedIs DEF Store!Extends, Known
  <2> QED
    BY <1>3, <2>2 DEF Store!Next, Items
<1>6. CASE ~Known(item)
  <2>1. assets' = [i \in DOMAIN assets \cup {item} |-> IF i = item THEN kept ELSE assets[i]]
    BY <1>6 DEF Commits
  <2>2. DOMAIN vectors' # DOMAIN vectors
    <3>1. PICK c \in task[r].need, v \in DOMAIN vectors' : vectors'[v].item = item
      BY <1>1, <1>2 DEF Extends
    <3>2. v \notin DOMAIN vectors
      BY <1>2, <1>6, <3>1, IndexParts DEF Extends, TaskInv
    <3> QED
      BY <3>1, <3>2
  <2> HIDE DEF item, kept
  <2>3. Retained' = Retained \cup {i \in Images : i = item /\ kept > 0}
    BY <1>6, <2>1, RetainedIs DEF Known
  <2>4. Store!Stores(item, kept)
    BY <1>4, <1>6, <2>1, <2>2, <2>3 DEF Store!Stores, Known
  <2> QED
    BY <1>3, <2>4 DEF Store!Next, Items
<1> QED
  BY <1>5, <1>6

\* More is retained of an image.
LEMMA KeptStore ==
  ASSUME MemoryInv, FileInv, FileInv', UpgradeInv, NEW r \in Requests, Kept(r)
  PROVE  Store!Next
<1> DEFINE i == Item(r)
           kept == task[r].work.retention
<1>1. /\ i \in Images /\ i \in DOMAIN assets /\ kept > assets[i]
      /\ assets' = [assets EXCEPT ![i] = kept] /\ UNCHANGED <<vectors, index, revision>>
  BY DEF UpgradeInv, Raises, Kept, At, IsImage, Known
<1>2. kept \in 0..2 /\ assets[i] \in 0..2
  BY <1>1, IndexParts, WorkTypes DEF Tasks, MemoryTypes
<1> HIDE DEF i, kept
<1>3. Retained' = Retained \cup {i}
  BY <1>1, <1>2, RetainedIs
<1>4. Findable' = Findable
  BY <1>1 DEF Findable
<1>5. Store!Upgrades(i, kept)
  BY <1>1, <1>3, <1>4 DEF Store!Upgrades
<1> QED
  BY <1>1, <1>2, <1>5 DEF Store!Next

\* An index that is opened, from its files or anew, finds whatever is stored.
LEMMA OpensStore ==
  ASSUME MemoryInv, FileInv, FileInv', OpensIndex \/ Rebuilds
  PROVE  [Store!Next]_(Store!vars)
<1>1. ~index.open /\ UNCHANGED <<assets, vectors, revision>>
  BY IndexParts DEF OpensIndex, Rebuilds, WriterInv, Nobody
<1>2. CASE index'.open /\ index'.content = Current
  <2>1. Retained' = Retained
    BY <1>1, RetainedIs
  <2>2. Findable' = Store!Searchable /\ index'.open = TRUE
    BY <1>2, IndexParts DEF Findable, Store!Searchable, Current, Indexes, OpensIndex, Rebuilds, Closed
  <2> QED
    BY <1>1, <2>1, <2>2 DEF Store!Opens, Store!Next
<1>3. CASE OpensIndex /\ Loadable
  <2>1. /\ files[revision].content \subseteq Current
        /\ files[revision].digest \subseteq files[revision].content
    BY IndexParts DEF WriterInv
  <2>2. files[revision].content = Current
    BY <1>3, <2>1 DEF Loadable
  <2>3. index' = [Closed EXCEPT !.open = TRUE, !.content = files[revision].content,
                                !.labels = Current]
    BY <1>3 DEF OpensIndex
  <2> QED
    BY <1>2, <2>2, <2>3 DEF Closed
<1>4. CASE OpensIndex /\ ~Loadable
  <2>1. index' = [Closed EXCEPT !.content = Current, !.labels = Current, !.writer = "rebuild"]
    BY <1>4 DEF OpensIndex
  <2>2. index'.open = FALSE /\ index.open = FALSE
    BY <1>1, <2>1, IndexParts DEF Closed, Indexes
  <2> QED
    BY <1>1, <2>2, StoreStutters
<1>5. CASE Rebuilds
  <2>1. index.content = Current
    BY <1>5, IndexParts DEF Rebuilds, WriterInv
  <2>2. index'.open /\ index'.content = Current
    BY <1>5, <2>1, IndexParts DEF Rebuilds, Indexes
  <2> QED
    BY <1>2, <2>2
<1> QED
  BY <1>3, <1>4, <1>5

LEMMA RestartsStore ==
  ASSUME FileInv, FileInv', NEW v \in revision..Revisions, MemoryRestarts(v), revision \in Nat
  PROVE  Store!Next
<1>1. /\ UNCHANGED <<assets, vectors>> /\ revision' = v /\ index' = Closed
      /\ index'.open = FALSE /\ revision <= v
  BY DEF MemoryRestarts, Closed
<1>2. Retained' = Retained
  BY <1>1, RetainedIs
<1>3. Findable' = {}
  BY <1>1 DEF Findable
<1>4. Store!Stops(v)
  BY <1>1, <1>2, <1>3 DEF Store!Stops
<1> QED
  BY <1>1, <1>4 DEF Store!Next

LEMMA StoreNext ==
  MemoryInv /\ FileInv /\ FileInv' /\ UpgradeInv /\ [MemoryNext]_memoryVars
    => [Store!Next]_(Store!vars)
<1> SUFFICES ASSUME MemoryInv, FileInv, FileInv', UpgradeInv, [MemoryNext]_memoryVars
             PROVE  [Store!Next]_(Store!vars)
  OBVIOUS
<1>1. UNCHANGED <<assets, vectors, revision, index>> => UNCHANGED Store!vars
  BY StoreStutters
<1>2. ASSUME NEW r \in Requests, Adds(r) \/ Added(r) \/ AddFails(r)
      PROVE  [Store!Next]_(Store!vars)
  <2> DEFINE v == Min(task[r].todo)
  <2>1. /\ task[r].at = "adding" /\ index.open /\ index \in Indexes
        /\ UNCHANGED <<assets, vectors, revision>>
    BY <1>2, IndexParts DEF Adds, Added, AddFails, WriterInv, At
  <2>2. \/ UNCHANGED index
        \/ index' = [index EXCEPT !.writer = Nobody]
        \/ index' = [index EXCEPT !.content = @ \cup {v}, !.labels = @ \cup {v}, !.writer = r]
        \/ index' = [index EXCEPT !.writer = Nobody, !.content = @ \cup {v}, !.labels = @ \cup {v}]
    BY <1>2 DEF Adds, Added, AddFails
  <2> HIDE DEF v
  <2>3. /\ index'.open = index.open
        /\ index'.content = index.content \/ index'.content = index.content \cup {v}
    BY <2>1, <2>2 DEF Indexes
  <2> QED
    BY <2>1, <2>3, StoreStutters, LabelsStore DEF v
<1>3. ASSUME NEW r \in Requests, Commits(r) PROVE [Store!Next]_(Store!vars)
  <2>1. CASE UNCHANGED <<assets, vectors>>
    BY <1>1, <1>3, <2>1 DEF Commits
  <2>2. CASE ~Ends(r, "failed")
    BY <1>3, <2>2, CommitsStore
  <2>3. Ends(r, "failed") => UNCHANGED <<assets, vectors>>
    BY <1>3, FailsQuietly
  <2> QED
    BY <2>1, <2>2, <2>3
<1>4. ASSUME NEW r \in Requests, RequestStep(r) PROVE [Store!Next]_(Store!vars)
  <2>1. CASE Checks(r) \/ Keeps(r) \/ Chooses(r) \/ Repeats(r) \/ Stores(r) \/ Rejects(r)
    BY <1>1, <2>1 DEF Checks, Keeps, Chooses, Repeats, Stores, Rejects
  <2> QED
    BY <1>2, <1>3, <1>4, <2>1, KeptStore DEF RequestStep
<1>5. ASSUME NEW v \in revision..Revisions, MemoryRestarts(v) PROVE [Store!Next]_(Store!vars)
  BY <1>5, IndexParts, RestartsStore
<1>6. ASSUME NEW r \in Requests, NEW w \in Works, Arrives(r, w) PROVE UNCHANGED Store!vars
  BY <1>1, <1>6 DEF Arrives
<1>7. UNCHANGED memoryVars => UNCHANGED Store!vars
  BY <1>1 DEF memoryVars
<1> QED
  BY <1>4, <1>5, <1>6, <1>7, OpensStore DEF MemoryNext, MemoryStep

LEMMA StoreInit == MemoryInit => Store!Init
<1> SUFFICES ASSUME MemoryInit PROVE Store!Init
  OBVIOUS
<1>1. assets = <<>> /\ vectors = <<>> /\ revision = 1 /\ index = Closed /\ index.open = FALSE
  BY DEF MemoryInit, Closed
<1>2. Retained = {} /\ Findable = {}
  BY <1>1 DEF Retained, Findable
<1> QED
  BY <1>1, <1>2 DEF Store!Init

\* The memory implements the abstract store, for any images, texts, requests,
\* revisions of the model, crashes and faults: what is stored stays, is embedded
\* once, and is found by every index that is opened.
THEOREM ImplementsImageStoreHolds == Spec => ImplementsImageStore
<1>1. Init => FileInv
  BY DEF Init, MemoryInit, FileInv, FileReady, RetainedOnDisk, NewTask
<1>2. Init => UpgradeInv /\ Store!Init
  BY UpgradeInvInit, StoreInit DEF Init
<1> QED
  BY <1>1, <1>2, AnalysesUseTheMemory, MemoryInvariance, FileInvNext, UpgradeInvNext, StoreNext, PTL
     DEF Spec, ImplementsImageStore, Store!Spec

=============================================================================
