-------------------------- MODULE MultiRepoWatcher --------------------------
(***************************************************************************)
(* `trelix watch-all`: trelix/indexing/multi_watcher.py.  One loop takes   *)
(* the debounced changes of all repositories a set at a time and handles   *)
(* them one by one.  The set has no order, and a path can be in it twice.  *)
(***************************************************************************)
EXTENDS Naturals

CONSTANTS
  RepoFiles,      \* paths of the registered repositories the walker's filters let through
  Digests,        \* contents, one for each MD5
  NoDigest,       \* no file, no rows, nothing remembered
  MaxWrites,      \* bound: changes of the trees
  MaxRepoErrors   \* bound: calls of index_file() and of delete_file_by_path() that fail

ASSUME MultiAssumption ==
  /\ NoDigest \notin Digests /\ NoDigest \notin RepoFiles
  /\ MaxWrites \in Nat /\ MaxRepoErrors \in Nat

Change == [type : {"modified", "deleted"}, file : RepoFiles]

VARIABLES
  trees,     \* the working trees
  repoRows,  \* the content whose hash is stored with each path's rows
  waiting,   \* changes watchfiles has collected for its next set
  changes,   \* what is left of the set the loop is handling
  hashes,    \* _file_hashes
  indexing   \* the path whose index_file() is next

VARIABLES    \* looked back at by the property
  crossed,   \* files one set held both a deletion and a write of
  gaveUp,    \* files not rewritten or removed as a whole since that failed
  between,   \* files index_file() read in another content than the one whose hash is kept
  writes, repoErrors   \* spent so far, of MaxWrites and MaxRepoErrors

multiVars == <<trees, repoRows, waiting, changes, hashes, indexing, crossed, gaveUp, between,
               writes, repoErrors>>

MultiTypeOK ==
  /\ trees \in [RepoFiles -> Digests \cup {NoDigest}]
  /\ repoRows \in [RepoFiles -> Digests \cup {NoDigest}]
  /\ hashes \in [RepoFiles -> Digests \cup {NoDigest}]
  /\ waiting \subseteq Change /\ changes \subseteq Change
  /\ indexing \in RepoFiles \cup {NoDigest}
  /\ crossed \subseteq RepoFiles /\ gaveUp \subseteq RepoFiles /\ between \subseteq RepoFiles
  /\ writes \in 0 .. MaxWrites /\ repoErrors \in 0 .. MaxRepoErrors

MultiInit ==
  /\ trees = [f \in RepoFiles |-> NoDigest] /\ repoRows = trees /\ hashes = trees
  /\ waiting = {} /\ changes = {} /\ indexing = NoDigest
  /\ crossed = {} /\ gaveUp = {} /\ between = {} /\ writes = 0 /\ repoErrors = 0

WriteTree(f, d) ==
  /\ writes < MaxWrites /\ d # trees[f]
  /\ trees' = [trees EXCEPT ![f] = d]
  /\ waiting' = waiting \cup
       {[type |-> IF d = NoDigest THEN "deleted" ELSE "modified", file |-> f]}
  /\ writes' = writes + 1
  /\ UNCHANGED <<repoRows, changes, hashes, indexing, crossed, gaveUp, between, repoErrors>>

\* awatch() yields what was collected while the last set was handled.
TakeChanges ==
  /\ changes = {} /\ indexing = NoDigest /\ waiting # {}
  /\ changes' = waiting /\ waiting' = {}
  /\ crossed' = (crossed \ {c.file : c \in waiting}) \cup
       {c.file : c \in {d \in waiting : \E e \in waiting : e.file = d.file /\ e.type # d.type}}
  /\ UNCHANGED <<trees, repoRows, hashes, indexing, gaveUp, between, writes, repoErrors>>

RowsDeleted(f) ==
  \/ /\ repoRows' = [repoRows EXCEPT ![f] = NoDigest]
     /\ gaveUp' = gaveUp \ {f} /\ between' = between \ {f}
     /\ UNCHANGED repoErrors
  \/ /\ repoErrors < MaxRepoErrors /\ repoErrors' = repoErrors + 1
     /\ gaveUp' = gaveUp \cup {f}
     /\ UNCHANGED <<repoRows, between>>

\* Variant: the hash of a deleted file is remembered.
DeletedKeepsHash(c) ==
  /\ indexing = NoDigest /\ c \in changes /\ c.type = "deleted"
  /\ RowsDeleted(c.file)
  /\ changes' = changes \ {c}
  /\ UNCHANGED <<trees, waiting, hashes, indexing, crossed, writes>>

\* Deletions are not filtered.  The hash goes, then the rows; a failure there is only logged.
Deleted(c) ==
  /\ indexing = NoDigest /\ c \in changes /\ c.type = "deleted"
  /\ hashes' = [hashes EXCEPT ![c.file] = NoDigest]
  /\ RowsDeleted(c.file)
  /\ changes' = changes \ {c}
  /\ UNCHANGED <<trees, waiting, indexing, crossed, writes>>

\* _should_index(), then _is_unchanged(), which remembers the hash it has not seen.
Modified(c) ==
  /\ indexing = NoDigest /\ c \in changes /\ c.type = "modified"
  /\ changes' = changes \ {c}
  /\ IF trees[c.file] \in {NoDigest, hashes[c.file]}
     THEN UNCHANGED <<hashes, indexing>>
     ELSE /\ hashes' = [hashes EXCEPT ![c.file] = trees[c.file]]
          /\ indexing' = c.file
  /\ UNCHANGED <<trees, repoRows, waiting, crossed, gaveUp, between, writes, repoErrors>>

\* index_file() reads the file again, skips what it has the hash of, and may fail before or after
\* it has stored the new one; what it returns is not looked at.
IndexChanged ==
  /\ indexing # NoDigest
  /\ \/ /\ trees[indexing] # NoDigest
        /\ repoRows' = [repoRows EXCEPT ![indexing] = trees[indexing]]
        /\ gaveUp' = IF repoRows[indexing] = trees[indexing] THEN gaveUp
                     ELSE gaveUp \ {indexing}
        /\ between' = IF trees[indexing] = hashes[indexing]
                      THEN between \ {indexing} ELSE between \cup {indexing}
        /\ UNCHANGED repoErrors
     \/ /\ trees[indexing] = NoDigest
        /\ UNCHANGED <<repoRows, gaveUp, between, repoErrors>>
     \/ /\ trees[indexing] # NoDigest
        /\ repoErrors < MaxRepoErrors /\ repoErrors' = repoErrors + 1
        /\ gaveUp' = gaveUp \cup {indexing}
        /\ \E kept \in {repoRows[indexing], trees[indexing]} :
             repoRows' = [repoRows EXCEPT ![indexing] = kept]
        /\ UNCHANGED between
  /\ indexing' = NoDigest
  /\ UNCHANGED <<trees, waiting, changes, hashes, crossed, writes>>

LoopStep ==
  \/ TakeChanges \/ IndexChanged
  \/ \E c \in changes : Deleted(c) \/ Modified(c)

MultiNext ==
  \/ \E f \in RepoFiles : \E d \in Digests \cup {NoDigest} : WriteTree(f, d)
  \/ LoopStep

\* The loop never stops.
MultiSpec == MultiInit /\ [][MultiNext]_multiVars /\ WF_multiVars(LoopStep)

\* Once the trees are quiet the index follows them, save for files whose rewrite or deletion
\* failed with no later one that succeeds (the hash is remembered or forgotten before either, so
\* they are not tried again until they change), that changed between the hash and index_file()'s
\* own read (a change back to the remembered content then looks like none), or whose last set
\* held a deletion and a write of them, which come in any order.
IndexesFollowTrees ==
  <>[](\A f \in RepoFiles \ (crossed \cup gaveUp \cup between) : repoRows[f] = trees[f])
=============================================================================
