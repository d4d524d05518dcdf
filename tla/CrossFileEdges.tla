--------------------------- MODULE CrossFileEdges ---------------------------
(***************************************************************************)
(* Call and type edges between symbols (tables calls and type_edges of     *)
(* trelix/store/db.py) while files are rewritten one at a time.            *)
(*                                                                         *)
(* An edge belongs to its caller's row and goes with it; deleting the row  *)
(* it points at sets it NULL.  _insert_one() (trelix/indexing/indexer.py)  *)
(* deletes and re-inserts changed symbols under new ids, so it notes who   *)
(* points at them first, and points those edges at the new rows later.     *)
(* What stays NULL waits for the resolve passes at the end of a full run.  *)
(*                                                                         *)
(* A symbol is its qualified name and its body; the body decides what it   *)
(* uses.  (A type hint inferred from another method of the class, which    *)
(* can change while the body does not, is left out.)  A content lists its  *)
(* symbols, and may list several of one name: a getter and its setter,     *)
(* overloads, redefinitions.                                               *)
(***************************************************************************)
EXTENDS Naturals, Sequences, FiniteSets

CONSTANTS
  Paths,         \* files of the repository
  Texts,         \* contents a file may hold
  QNames,        \* qualified names
  Short,         \* the bare name of each qualified name
  Owner,         \* the class a method's qualified name starts with, or NoName
  Classes,       \* the qualified names that name a class, interface, struct or enum
  Defs,          \* the symbols of each content, in order: qualified name and body
  Uses,          \* what each symbol calls and derives from: name, hint and kind of edge
  NoName,        \* no hint, no owner, no file, NULL
  MaxSaves,      \* bound: contents the user saves
  MaxKills       \* bound: kills and exceptions

SymsOf(t) == {Defs[t][i] : i \in DOMAIN Defs[t]}
Sym2 == UNION {SymsOf(t) : t \in Texts}
Use  == UNION {Uses[s] : s \in Sym2}

ASSUME EdgeNames ==
  /\ Short \in [QNames -> STRING] /\ DOMAIN Owner = QNames /\ Classes \subseteq QNames
  /\ \A s \in Sym2 : s.qn \in QNames
  /\ \A u \in Use : u.kind \in {"call", "type"}
  /\ NoName \notin Texts /\ NoName \notin Paths /\ NoName \notin Nat \X Nat
ASSUME EdgeDefs == \A t \in Texts : Defs[t] \in Seq(Sym2)
ASSUME EdgeBounds == MaxSaves \in Nat /\ MaxKills \in Nat

VARIABLES
  content,   \* the working tree
  stored,    \* files.hash of each path
  rows,      \* symbol rows
  edges,     \* call and type edges: caller's row, what it names, the row it resolves to
  stamp,     \* number of the last insert; an id is its insert and its local index
  job,       \* the run: none, full (index(), the streaming walk) or single (index_file())
  place,     \* where it is in _insert_one()
  left,      \* files the run has still to rewrite
  path,      \* the file being rewritten
  links      \* stale_callee_links and stale_type_links: the edges, and the rows they pointed at

VARIABLES    \* looked back at by the properties, read by no action
  linked,    \* edges into the remembered rows of the file as its rewrite began
  cut,       \* files whose rewrite was cut short
  resolved,  \* since the last full run only bodies changed, of symbols that share no name
  saves, kills   \* spent so far, of MaxSaves and MaxKills

edgeVars == <<content, stored, rows, edges, stamp, job, place, left, path, links,
              linked, cut, resolved, saves, kills>>

RowId == Nat \X Nat
Row   == [id : RowId, file : Paths, sym : Sym2]
Edge  == [from : RowId, use : Use, to : RowId \cup {NoName}, stamp : Nat]

EdgesTypeOK ==
  /\ content \in [Paths -> Texts \cup {NoName}] /\ stored \in [Paths -> Texts \cup {NoName}]
  /\ rows \subseteq Row /\ edges \subseteq Edge /\ stamp \in Nat
  /\ job \in {"none", "full", "single"}
  /\ place \in {"idle", "next", "drop", "insert", "repoint", "store"}
  /\ left \subseteq Paths /\ path \in Paths \cup {NoName} /\ cut \subseteq Paths
  /\ resolved \in BOOLEAN /\ saves \in 0 .. MaxSaves /\ kills \in 0 .. MaxKills

EdgesInit ==
  /\ content = [p \in Paths |-> NoName] /\ stored = [p \in Paths |-> NoName]
  /\ rows = {} /\ edges = {} /\ stamp = 0
  /\ job = "none" /\ place = "idle" /\ left = {} /\ path = NoName /\ links = {}
  /\ linked = {} /\ cut = {} /\ resolved = FALSE /\ saves = 0 /\ kills = 0

----------------------------------------------------------------------------
(* Resolution. *)

NamedExactly(n) == {r \in rows : r.sym.qn = n}
NamedShort(n)   == {r \in rows : Short[r.sym.qn] = n}
OfOwner(n, h)   == {r \in NamedShort(n) : h # NoName /\ Owner[r.sym.qn] = h}
OnlyId(set)     == IF Cardinality(set) = 1 THEN (CHOOSE r \in set : TRUE).id ELSE NoName

\* _resolve_symbol_match(), when an edge is stored: each level must give exactly one row.
LocalMatch(u) ==
  LET matches == NamedExactly(u.name) \cup NamedShort(u.name)
      hinted  == {r \in matches : u.hint # NoName /\ Owner[r.sym.qn] = u.hint}
  IN CASE Cardinality(NamedExactly(u.name)) = 1 -> OnlyId(NamedExactly(u.name))
       [] Cardinality(NamedExactly(u.name)) # 1 /\ Cardinality(hinted) = 1 -> OnlyId(hinted)
       [] OTHER -> OnlyId(matches)

\* resolve_cross_file_calls() takes any row of its first two passes (LIMIT 1) and a unique one
\* of its third; resolve_cross_file_type_edges() takes any class of that name.
GlobalMatches(u) ==
  IF u.kind = "type" THEN {r \in NamedShort(u.name) : r.sym.qn \in Classes}
  ELSE IF NamedExactly(u.name) # {} THEN NamedExactly(u.name)
  ELSE IF OfOwner(u.name, u.hint) # {} THEN OfOwner(u.name, u.hint)
  ELSE IF Cardinality(NamedShort(u.name)) = 1 THEN NamedShort(u.name) ELSE {}

\* Variant: the row goes and the edges into it keep its id (foreign keys not enforced).
EdgesWithoutNulling(ids) == {e \in edges : e.from \notin ids}

\* ON DELETE: an edge goes with its caller's row and is set NULL with its target's.
EdgesWithout(ids) ==
  {[e EXCEPT !.to = IF @ \in ids THEN NoName ELSE @] : e \in {d \in edges : d.from \notin ids}}

----------------------------------------------------------------------------
(* The tree and the runs. *)

Save(p, t) ==
  /\ job = "none" /\ saves < MaxSaves /\ t # content[p]
  /\ content' = [content EXCEPT ![p] = t]
  /\ saves' = saves + 1
  /\ UNCHANGED <<stored, rows, edges, stamp, job, place, left, path, links, linked, cut,
                 resolved, kills>>

\* delete_file_by_path(), by a watcher or a prune, for a file that is gone.
DeleteFileRows(p) ==
  /\ job = "none" /\ saves < MaxSaves /\ content[p] # NoName
  /\ content' = [content EXCEPT ![p] = NoName] /\ stored' = [stored EXCEPT ![p] = NoName]
  /\ LET gone == {r.id : r \in {q \in rows : q.file = p}} IN
       /\ edges' = EdgesWithout(gone)
       /\ rows' = {r \in rows : r.file # p}
  /\ saves' = saves + 1
  /\ cut' = cut \ {p} /\ resolved' = FALSE /\ linked' = {}
  /\ UNCHANGED <<stamp, job, place, left, path, links, kills>>

Changed == {p \in Paths : content[p] # NoName /\ stored[p] # content[p]}

\* index() returns early, and resolves nothing, if no file changed and nothing is to repair;
\* index_file() rewrites one changed file.
StartRewrite(kind, set) ==
  /\ job = "none" /\ set # {} /\ set \subseteq Changed
  /\ job' = kind /\ left' = set /\ place' = "next"
  /\ linked' = {}
  /\ UNCHANGED <<content, stored, rows, edges, stamp, path, links, cut, resolved, saves, kills>>

----------------------------------------------------------------------------
(* _insert_one(). *)

NamesIn(p) == {r.sym.qn : r \in {q \in rows : q.file = p}}

\* get_symbol_hashes_for_file() and existing_ids_by_qn: dicts by qualified name, so of the
\* rows with one name the last is remembered.
After(q, r) == q.id[1] > r.id[1] \/ (q.id[1] = r.id[1] /\ q.id[2] > r.id[2])
Remembered(p) ==
  {r \in rows : /\ r.file = p
                /\ \A q \in rows : (q.file = p /\ q.sym.qn = r.sym.qn) => ~After(q, r)}

\* Edges and the rows of a set they point at.
PointingAt(set) == {l \in [edge : edges, row : set] : l.edge.to = l.row.id}

\* No name comes twice, in the rows or in the new content of the file.
OneOfEachName(p) ==
  /\ \A r, q \in rows : (r.file = p /\ q.file = p /\ r.sym.qn = q.sym.qn) => r = q
  /\ \A i, j \in DOMAIN Defs[content[p]] :
       Defs[content[p]][i].qn = Defs[content[p]][j].qn => i = j

\* upsert_file() commits the hash.
BeginFile(p) ==
  /\ place = "next" /\ p \in left
  /\ stored' = [stored EXCEPT ![p] = content[p]]
  /\ left' = left \ {p} /\ path' = p /\ place' = "drop"
  /\ linked' = PointingAt(Remembered(p))
  /\ resolved' = (/\ resolved /\ OneOfEachName(p)
                  /\ NamesIn(p) = {s.qn : s \in SymsOf(content[p])})
  /\ UNCHANGED <<content, rows, edges, stamp, job, links, cut, saves, kills>>

\* Symbols of the new content with the hash remembered for their name.
Unchanged == SymsOf(content[path]) \cap {r.sym : r \in Remembered(path)}

\* The rows to delete: by name, every row of a name none of whose symbols is unchanged.
StaleRows == {r \in rows : r.file = path /\ \A s \in Unchanged : s.qn # r.sym.qn}

\* Variant: only edges out of the file itself are noted.
DeleteStaleOwnLinks ==
  /\ place = "drop"
  /\ LET ids == {r.id : r \in StaleRows} IN
       /\ links' = {l \in PointingAt(StaleRows \cap Remembered(path)) :
                     \E r \in rows : r.id = l.edge.from /\ r.file = path}
       /\ edges' = EdgesWithout(ids)
       /\ rows' = rows \ StaleRows
  /\ place' = "insert"
  /\ UNCHANGED <<content, stored, stamp, job, left, path, linked, cut, resolved, saves, kills>>

\* Note who points at the remembered rows of the names to be deleted, then delete every row
\* of these names.
DeleteStale ==
  /\ place = "drop"
  /\ LET ids == {r.id : r \in StaleRows} IN
       /\ links' = PointingAt(StaleRows \cap Remembered(path))
       /\ edges' = EdgesWithout(ids)
       /\ rows' = rows \ StaleRows
  /\ place' = "insert"
  /\ UNCHANGED <<content, stored, stamp, job, left, path, linked, cut, resolved, saves, kills>>

\* A row for every local index whose symbol is not the one remembered for its name.
NewRows ==
  LET defs == Defs[content[path]] IN
    {[id |-> <<stamp + 1, i>>, file |-> path, sym |-> defs[i]]
       : i \in {j \in DOMAIN defs : defs[j] \notin Unchanged}}

InsertRows ==
  /\ place = "insert"
  /\ stamp' = stamp + 1
  /\ rows' = rows \cup NewRows
  /\ place' = "repoint"
  /\ UNCHANGED <<content, stored, edges, job, left, path, links, linked, cut, resolved,
                 saves, kills>>

\* The rows this rewrite inserted: changed_or_new_symbols.
Inserted == {r \in rows : r.file = path /\ r.id[1] = stamp}

\* repoint_call_callee_ids() and repoint_type_edge_targets(): by edge id, to the row inserted
\* last of those with the name (new_id_by_qn); where none came back the edge stays NULL.
SameEdge(d, e) == d.from = e.from /\ d.use = e.use /\ d.stamp = e.stamp
NewTarget(e) ==
  {r \in Inserted :
     /\ \E l \in links : SameEdge(l.edge, e) /\ r.sym.qn = l.row.sym.qn
     /\ \A q \in Inserted : q.sym.qn = r.sym.qn => ~After(q, r)}

Repoint ==
  /\ place = "repoint"
  /\ edges' = {IF NewTarget(e) = {} THEN e ELSE [e EXCEPT !.to = OnlyId(NewTarget(e))]
                 : e \in edges}
  /\ links' = {}
  /\ place' = "store"
  /\ UNCHANGED <<content, stored, rows, stamp, job, left, path, linked, cut, resolved,
                 saves, kills>>

\* Variant: the edges of every symbol of the file are stored, the unchanged ones' again.
StoreEdgesOfAll ==
  /\ place = "store"
  /\ stamp' = stamp + 1
  /\ edges' = edges \cup
       UNION {{[from |-> r.id, use |-> u, to |-> LocalMatch(u), stamp |-> stamp']
                 : u \in Uses[r.sym]} : r \in {q \in rows : q.file = path}}
  /\ place' = "next" /\ path' = NoName
  /\ UNCHANGED <<content, stored, rows, job, left, links, linked, cut, resolved, saves, kills>>

\* Variant: what a new edge names is left to the resolve passes.
StoreEdgesUnresolved ==
  /\ place = "store"
  /\ stamp' = stamp + 1
  /\ edges' = edges \cup
       UNION {{[from |-> r.id, use |-> u, to |-> NoName, stamp |-> stamp']
                 : u \in Uses[r.sym]} : r \in Inserted}
  /\ place' = "next" /\ path' = NoName
  /\ UNCHANGED <<content, stored, rows, job, left, links, linked, cut, resolved, saves, kills>>

\* _store_call_edges() and _store_type_edges(), for the symbols just inserted.
StoreEdges ==
  /\ place = "store"
  /\ stamp' = stamp + 1
  /\ edges' = edges \cup
       UNION {{[from |-> r.id, use |-> u, to |-> LocalMatch(u), stamp |-> stamp']
                 : u \in Uses[r.sym]} : r \in Inserted}
  /\ place' = "next" /\ path' = NoName
  /\ UNCHANGED <<content, stored, rows, job, left, links, linked, cut, resolved, saves, kills>>

----------------------------------------------------------------------------
(* The end of a run. *)

\* index_file() skips the resolve passes for a batch below _FULL_RESOLVE_THRESHOLD files.
EndSingle ==
  /\ job = "single" /\ place = "next" /\ left = {}
  /\ job' = "none" /\ place' = "idle"
  /\ UNCHANGED <<content, stored, rows, edges, stamp, left, path, links, linked, cut, resolved,
                 saves, kills>>

\* Phase 4: every NULL edge gets a row its name matches, if there is one.
ResolveAll ==
  /\ job = "full" /\ place = "next" /\ left = {}
  /\ \E pick \in [edges -> {r.id : r \in rows} \cup {NoName}] :
       /\ \A e \in edges :
            pick[e] \in IF e.to # NoName \/ GlobalMatches(e.use) = {} THEN {e.to}
                        ELSE {r.id : r \in GlobalMatches(e.use)}
       /\ edges' = {[e EXCEPT !.to = pick[e]] : e \in edges}
  /\ resolved' = TRUE
  /\ job' = "none" /\ place' = "idle"
  /\ UNCHANGED <<content, stored, rows, stamp, left, path, links, linked, cut, saves, kills>>

\* A kill, or an exception that gives the file up.
KillRewrite ==
  /\ job # "none" /\ kills < MaxKills /\ kills' = kills + 1
  /\ cut' = cut \cup ({path} \ {NoName})
  /\ job' = "none" /\ place' = "idle" /\ left' = {} /\ path' = NoName /\ links' = {}
  /\ linked' = {} /\ resolved' = FALSE
  /\ UNCHANGED <<content, stored, rows, edges, stamp, saves>>

EdgesNext ==
  \/ \E p \in Paths : DeleteFileRows(p) \/ \E t \in Texts : Save(p, t)
  \/ StartRewrite("full", Changed) \/ \E p \in Paths : StartRewrite("single", {p})
  \/ \E p \in Paths : BeginFile(p)
  \/ DeleteStale \/ InsertRows \/ Repoint \/ StoreEdges
  \/ EndSingle \/ ResolveAll \/ KillRewrite

EdgesSpec == EdgesInit /\ [][EdgesNext]_edgeVars

----------------------------------------------------------------------------
\* An edge that resolves to a row resolves to a living row its name matches.
EdgesFitTheirNames ==
  \A e \in edges : e.to # NoName =>
    \E r \in rows : r.id = e.to /\ e.use.name \in {r.sym.qn, Short[r.sym.qn]}

\* Every row of a file that was never cut has each edge of its symbol's body exactly once:
\* none lost with a rewrite, none stored again for a row that was left alone.
EdgesStoredOnce ==
  \A r \in rows : r.file \notin cut \cup {path} =>
    \A u \in Use : Cardinality({e \in edges : e.from = r.id /\ e.use = u})
                     = IF u \in Uses[r.sym] THEN 1 ELSE 0

\* Rewriting a file does not loosen what pointed at its remembered rows: where the caller and
\* the target's name are still there, the edge points at a row of the file with that name, even
\* if the name alone is ambiguous by now.  (An edge at another row of a name with several, an
\* older one, is not noted; it is set NULL if the name's rows go.)
LinksSurvive ==
  place = "next" =>
    \A l \in linked : \A e \in edges : SameEdge(e, l.edge) =>
      LET namesakes == {r \in rows : r.file = l.row.file /\ r.sym.qn = l.row.sym.qn} IN
        namesakes # {} => e.to \in {r.id : r \in namesakes}

\* index_file() may skip the resolve passes: after a full run, as long as files only change the
\* bodies of their symbols and no name comes twice in them, every edge that names exactly one
\* row points at that row.  (A symbol added or removed by index_file() waits for a full run that
\* has something to do.)
ResolvedStays ==
  resolved /\ job = "none" =>
    \A e \in edges :
      LET named == NamedExactly(e.use.name) \cup NamedShort(e.use.name) IN
        Cardinality(named) = 1 /\ GlobalMatches(e.use) = named => e.to = OnlyId(named)
=============================================================================
