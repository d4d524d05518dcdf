---------------------------- MODULE FileWatcher ----------------------------
(***************************************************************************)
(* `trelix watch`: trelix/indexing/watcher.py over one repository.         *)
(*                                                                         *)
(* watchdog's observer thread delivers the events in order.  A write or a  *)
(* creation arms a debounce timer; the timer's thread re-reads the file    *)
(* and rewrites its rows.  A deletion is handled on the observer's thread. *)
(* The lock covers the timers and generations only, not the index.         *)
(*                                                                         *)
(* index_file() is a read of the file and a write of its rows here; its    *)
(* own commits are in IndexPipeline.                                       *)
(***************************************************************************)
EXTENDS Naturals, FiniteSets, Sequences

CONSTANTS
  WatchedFiles,    \* paths the walker's filters let through
  FileBytes,       \* contents of a file
  Absent,          \* no file, no rows
  MaxTouches,      \* bound: changes of the tree
  MaxIndexErrors   \* bound: calls of index_file() and of delete_file_by_path() that fail

ASSUME WatchAssumption ==
  /\ Absent \notin FileBytes /\ Absent \notin WatchedFiles
  /\ MaxTouches \in Nat /\ MaxIndexErrors \in Nat

VARIABLES
  bytes,        \* the working tree
  indexed,      \* the content whose hash is stored with each path's rows
  events,       \* what watchdog has not delivered yet
  deleting,     \* the path whose rows handle_deleted() is about to delete
  timers,       \* _timers: the generation of each path's newest timer, 0 for none
  generations,  \* _generations
  armed,        \* timers that run: neither fired nor cancelled
  fired,        \* timer threads that wait for the lock in _do_reindex()
  callbacks,    \* timer threads past the generation check, and what they have read
  watching      \* the observer runs; stop() has been called; it has returned

VARIABLES       \* looked back at by the property
  overlapped,   \* files two threads work on at once, until one has them for itself again
  unseen,       \* files changed by a rename, which dispatch() does not handle
  failed,       \* files not rewritten or removed as a whole since that failed
  touches, indexErrors   \* spent so far, of MaxTouches and MaxIndexErrors

watchVars == <<bytes, indexed, events, deleting, timers, generations, armed, fired, callbacks,
               watching, overlapped, unseen, failed, touches, indexErrors>>
timerVars == <<timers, generations, armed>>
watchGhosts == <<overlapped, unseen, failed>>

Timer    == [file : WatchedFiles, gen : Nat]
Callback == [file : WatchedFiles, gen : Nat, at : {"filter", "read", "write"},
             got : FileBytes \cup {Absent}]

WatcherTypeOK ==
  /\ bytes \in [WatchedFiles -> FileBytes \cup {Absent}]
  /\ indexed \in [WatchedFiles -> FileBytes \cup {Absent}]
  /\ events \in Seq([type : {"changed", "deleted"}, file : WatchedFiles])
  /\ deleting \in WatchedFiles \cup {Absent}
  /\ timers \in [WatchedFiles -> Nat] /\ generations \in [WatchedFiles -> Nat]
  /\ armed \subseteq Timer /\ fired \subseteq Timer /\ callbacks \subseteq Callback
  /\ watching \in {"on", "stopping", "off"}
  /\ touches \in 0 .. MaxTouches /\ indexErrors \in 0 .. MaxIndexErrors

WatcherInit ==
  /\ bytes = [f \in WatchedFiles |-> Absent] /\ indexed = bytes
  /\ events = << >> /\ deleting = Absent
  /\ timers = [f \in WatchedFiles |-> 0] /\ generations = timers
  /\ armed = {} /\ fired = {} /\ callbacks = {}
  /\ watching = "on"
  /\ overlapped = {} /\ unseen = {} /\ failed = {} /\ touches = 0 /\ indexErrors = 0

----------------------------------------------------------------------------
(* The tree. *)

Tell(type, f) == events' = IF watching = "off" THEN events
                           ELSE Append(events, [type |-> type, file |-> f])

\* A write, a creation or a deletion in place.
Touch(f, c) ==
  /\ touches < MaxTouches /\ c # bytes[f]
  /\ bytes' = [bytes EXCEPT ![f] = c]
  /\ Tell(IF c = Absent THEN "deleted" ELSE "changed", f)
  /\ touches' = touches + 1
  /\ UNCHANGED <<indexed, deleting, timerVars, fired, callbacks, watching, watchGhosts,
                 indexErrors>>

\* A rename is one "moved" event, and dispatch() routes only the other three.
Move(f, g) ==
  /\ touches < MaxTouches /\ f # g /\ bytes[f] # Absent
  /\ bytes' = [bytes EXCEPT ![f] = Absent, ![g] = bytes[f]]
  /\ unseen' = unseen \cup {f, g}
  /\ touches' = touches + 1
  /\ UNCHANGED <<indexed, events, deleting, timerVars, fired, callbacks, watching, overlapped,
                 failed, indexErrors>>

----------------------------------------------------------------------------
(* The observer's thread. *)

\* _schedule_reindex(): the previous timer is cancelled, unless it has fired already.
Schedule(f) ==
  LET gen == generations[f] + 1 IN
    /\ generations' = [generations EXCEPT ![f] = gen]
    /\ timers' = [timers EXCEPT ![f] = gen]
    /\ armed' = (armed \ {[file |-> f, gen |-> timers[f]]}) \cup {[file |-> f, gen |-> gen]}

\* on_created() and on_modified().
HandleChanged ==
  /\ watching # "off" /\ deleting = Absent
  /\ events # << >> /\ Head(events).type = "changed"
  /\ Schedule(Head(events).file)
  /\ events' = Tail(events)
  /\ UNCHANGED <<bytes, indexed, deleting, fired, callbacks, watching, watchGhosts, touches,
                 indexErrors>>

\* Variant: a deletion that finds a timer waiting leaves the file to that timer.
HandleDeletedLeavesTimer ==
  /\ watching # "off" /\ deleting = Absent
  /\ events # << >> /\ Head(events).type = "deleted"
  /\ LET f == Head(events).file IN
       deleting' = IF timers[f] = 0 THEN f ELSE Absent
  /\ events' = Tail(events)
  /\ UNCHANGED <<bytes, indexed, timers, armed, generations, fired, callbacks, watching,
                 watchGhosts, touches, indexErrors>>

\* handle_deleted() under the lock: the timer goes, the generation stays ...
HandleDeleted ==
  /\ watching # "off" /\ deleting = Absent
  /\ events # << >> /\ Head(events).type = "deleted"
  /\ LET f == Head(events).file IN
       /\ armed' = armed \ {[file |-> f, gen |-> timers[f]]}
       /\ timers' = [timers EXCEPT ![f] = 0]
       /\ deleting' = f
  /\ events' = Tail(events)
  /\ UNCHANGED <<bytes, indexed, generations, fired, callbacks, watching, watchGhosts, touches,
                 indexErrors>>

InCallback(f) == {c \in callbacks : c.file = f /\ c.at # "filter"}

\* ... and, without it, delete_file_by_path(), whose failure is logged and never made up for.
DeleteRows ==
  /\ deleting # Absent
  /\ \/ /\ indexed' = [indexed EXCEPT ![deleting] = Absent]
        /\ failed' = failed \ {deleting}
        /\ overlapped' = IF InCallback(deleting) = {} THEN overlapped \ {deleting}
                         ELSE overlapped \cup {deleting}
        /\ UNCHANGED indexErrors
     \/ /\ indexErrors < MaxIndexErrors /\ indexErrors' = indexErrors + 1
        /\ failed' = failed \cup {deleting}
        /\ overlapped' = IF InCallback(deleting) = {} THEN overlapped
                         ELSE overlapped \cup {deleting}
        /\ UNCHANGED indexed
  /\ deleting' = Absent
  /\ UNCHANGED <<bytes, events, timerVars, fired, callbacks, watching, unseen, touches>>

----------------------------------------------------------------------------
(* The timers' threads. *)

Fire(t) ==
  /\ t \in armed
  /\ armed' = armed \ {t} /\ fired' = fired \cup {t}
  /\ UNCHANGED <<bytes, indexed, events, deleting, timers, generations, callbacks, watching,
                 watchGhosts, touches, indexErrors>>

\* _do_reindex() takes the lock: a newer timer's generation ends it here.
CheckGeneration(t) ==
  /\ t \in fired
  /\ fired' = fired \ {t}
  /\ IF generations[t.file] = t.gen
     THEN /\ timers' = [timers EXCEPT ![t.file] = 0]
          /\ callbacks' = callbacks \cup
               {[file |-> t.file, gen |-> t.gen, at |-> "filter", got |-> Absent]}
     ELSE UNCHANGED <<timers, callbacks>>
  /\ UNCHANGED <<bytes, indexed, events, deleting, generations, armed, watching, watchGhosts,
                 touches, indexErrors>>

Advance(c, at, got) == callbacks' = (callbacks \ {c}) \cup {[c EXCEPT !.at = at, !.got = got]}
EndCallback(c) == callbacks' = callbacks \ {c}

\* _should_index(): a path that is no file (any more) is skipped.
Filter(c) ==
  /\ c \in callbacks /\ c.at = "filter"
  /\ IF bytes[c.file] = Absent
     THEN EndCallback(c) /\ UNCHANGED overlapped
     ELSE /\ Advance(c, "read", Absent)
          /\ overlapped' = IF InCallback(c.file) = {} THEN overlapped \ {c.file}
                           ELSE overlapped \cup {c.file}
  /\ UNCHANGED <<bytes, indexed, events, deleting, timerVars, fired, watching, unseen, failed,
                 touches, indexErrors>>

\* index_file() reads the bytes; it fails if they are gone, and skips what it has already.
ReadBytes(c) ==
  /\ c \in callbacks /\ c.at = "read"
  /\ IF bytes[c.file] \in {Absent, indexed[c.file]}
     THEN EndCallback(c) ELSE Advance(c, "write", bytes[c.file])
  /\ UNCHANGED <<bytes, indexed, events, deleting, timerVars, fired, watching, watchGhosts,
                 touches, indexErrors>>

\* It rewrites the rows, or ends with {"status": "error"}, before or after the commit of the
\* hash, and is not called again.
WriteRows(c) ==
  /\ c \in callbacks /\ c.at = "write"
  /\ EndCallback(c)
  /\ \/ /\ indexed' = [indexed EXCEPT ![c.file] = c.got]
        /\ failed' = failed \ {c.file}
        /\ UNCHANGED indexErrors
     \/ /\ indexErrors < MaxIndexErrors /\ indexErrors' = indexErrors + 1
        /\ failed' = failed \cup {c.file}
        /\ \E kept \in {indexed[c.file], c.got} : indexed' = [indexed EXCEPT ![c.file] = kept]
  /\ UNCHANGED <<bytes, events, deleting, timerVars, fired, watching, overlapped, unseen, touches>>

----------------------------------------------------------------------------
\* stop() clears timers and generations first, and only then stops the observer: an event
\* handled in between arms a timer that nothing cancels.
StopTimers ==
  /\ watching = "on" /\ watching' = "stopping"
  /\ armed' = {} /\ timers' = [f \in WatchedFiles |-> 0]
  /\ generations' = [f \in WatchedFiles |-> 0]
  /\ UNCHANGED <<bytes, indexed, events, deleting, fired, callbacks, watchGhosts, touches,
                 indexErrors>>

StopObserver ==
  /\ watching = "stopping" /\ deleting = Absent
  /\ watching' = "off" /\ events' = << >>
  /\ UNCHANGED <<bytes, indexed, deleting, timerVars, fired, callbacks, watchGhosts, touches,
                 indexErrors>>

ObserverStep == HandleChanged \/ HandleDeleted \/ DeleteRows
TimerStep ==
  \/ \E t \in armed : Fire(t)
  \/ \E t \in fired : CheckGeneration(t)
  \/ \E c \in callbacks : Filter(c) \/ ReadBytes(c) \/ WriteRows(c)

WatcherNext ==
  \/ \E f \in WatchedFiles : \E c \in FileBytes \cup {Absent} : Touch(f, c)
  \/ \E f, g \in WatchedFiles : Move(f, g)
  \/ ObserverStep \/ TimerStep \/ StopTimers \/ StopObserver

\* The operating system runs the observer's thread and every timer's.
WatcherSpec ==
  /\ WatcherInit /\ [][WatcherNext]_watchVars
  /\ WF_watchVars(ObserverStep) /\ WF_watchVars(TimerStep)

\* Once the tree is quiet the index follows it, deletions included, however writes, deletions
\* and timers interleaved: save for files that were renamed, whose rewrite or deletion failed
\* with no later one that succeeds, or that two threads worked on at once when they were last
\* handled.  What an earlier overlap left behind the next change puts right.
IndexFollowsTree ==
  <>[](watching = "on" =>
         \A f \in WatchedFiles \ (overlapped \cup unseen \cup failed) : indexed[f] = bytes[f])
=============================================================================
