------------------------ MODULE CrossFileEdgesProofs ------------------------
(***************************************************************************)
(* Why an edge never points at a dead row or at one of another name.  Rows *)
(* go together with the edges into them, which ON DELETE sets NULL; a row  *)
(* an edge gets, when it is stored, re-pointed or resolved, is found by    *)
(* name; and re-pointing goes by the name of the noted row, which fitted   *)
(* the edge while the row was alive.                                       *)
(*                                                                         *)
(* Then why edges are stored once, why what pointed into a rewritten file  *)
(* follows its targets, and why the resolve passes may be left out while   *)
(* only bodies change.                                                     *)
(***************************************************************************)
EXTENDS CrossFileEdges, FiniteSetTheorems, WellFoundedInduction, TLAPS

FitsName(u, qn) == u.name \in {qn, Short[qn]}

\* Content is left alone while a run is on its way, so a file being rewritten has one.
InRun ==
  /\ job = "none" => left = {} /\ place = "idle"
  /\ \A p \in left : content[p] # NoName
  /\ place \in {"drop", "insert", "repoint", "store"} => path \in Paths /\ content[path] # NoName

\* Ids are drawn, and an id is one row.
IdsApart ==
  /\ \A r \in rows : r.id[1] <= stamp
  /\ \A r, q \in rows : r.id = q.id => r = q

\* A noted edge pointed at a row its name fitted.
LinksFit ==
  \A l \in links : l.edge \in Edge /\ l.row \in Row /\ FitsName(l.edge.use, l.row.sym.qn)

EdgeInv == EdgesTypeOK /\ InRun /\ IdsApart /\ LinksFit /\ EdgesFitTheirNames

----------------------------------------------------------------------------
LEMMA OnlyIdIsMember ==
  ASSUME NEW S, OnlyId(S) # NoName
  PROVE  \E r \in S : OnlyId(S) = r.id
  <1>1. Cardinality(S) = 1 /\ OnlyId(S) = (CHOOSE r \in S : TRUE).id
    BY DEF OnlyId
  <1>2. S # {}
    BY <1>1, FS_EmptySet
  <1> QED BY <1>1, <1>2

LEMMA LocalMatchFits ==
  ASSUME NEW u, LocalMatch(u) # NoName
  PROVE  \E r \in rows : LocalMatch(u) = r.id /\ FitsName(u, r.sym.qn)
  <1> DEFINE matches == NamedExactly(u.name) \cup NamedShort(u.name)
             hinted  == {r \in matches : u.hint # NoName /\ Owner[r.sym.qn] = u.hint}
  <1>1. LocalMatch(u) \in {OnlyId(NamedExactly(u.name)), OnlyId(hinted), OnlyId(matches)}
    BY DEF LocalMatch
  <1>2. PICK S \in SUBSET matches : LocalMatch(u) = OnlyId(S)
    BY <1>1
  <1>3. PICK r \in S : OnlyId(S) = r.id
    BY <1>2, OnlyIdIsMember
  <1>4. r \in rows /\ FitsName(u, r.sym.qn)
    BY DEF NamedExactly, NamedShort, FitsName
  <1> QED BY <1>2, <1>3, <1>4

LEMMA GlobalMatchFits ==
  ASSUME NEW u, NEW r \in GlobalMatches(u)
  PROVE  r \in rows /\ FitsName(u, r.sym.qn)
  BY DEF GlobalMatches, NamedExactly, NamedShort, OfOwner, FitsName

\* Deleting rows together with ON DELETE leaves only edges to rows that stay.
LEMMA DeletionFits ==
  ASSUME edges \subseteq Edge, EdgesFitTheirNames, NEW ids, NEW left2 \in SUBSET rows,
         \A r \in rows \ left2 : r.id \in ids,
         NEW e \in EdgesWithout(ids)
  PROVE  /\ e \in Edge
         /\ e.to # NoName => \E r \in left2 : r.id = e.to /\ FitsName(e.use, r.sym.qn)
  <1>1. PICK d \in edges : e = [d EXCEPT !.to = IF @ \in ids THEN NoName ELSE @]
    BY DEF EdgesWithout
  <1>2. d \in Edge /\ e \in Edge /\ e.use = d.use /\ e.to = IF d.to \in ids THEN NoName ELSE d.to
    BY <1>1 DEF Edge
  <1>3. ASSUME e.to # NoName
        PROVE  \E r \in left2 : r.id = e.to /\ FitsName(e.use, r.sym.qn)
    <2>1. d.to # NoName /\ d.to \notin ids /\ e.to = d.to
      BY <1>2, <1>3
    <2>2. PICK r \in rows : r.id = d.to /\ d.use.name \in {r.sym.qn, Short[r.sym.qn]}
      BY <2>1 DEF EdgesFitTheirNames
    <2>3. r \in left2
      BY <2>1, <2>2
    <2> QED BY <1>2, <2>1, <2>2, <2>3 DEF FitsName
  <1> QED BY <1>2, <1>3

----------------------------------------------------------------------------
LEMMA EdgeInitInv == EdgesInit => EdgeInv
  <1>1. SUFFICES ASSUME EdgesInit PROVE EdgeInv
    OBVIOUS
  <1>2. EdgesTypeOK
    <2>1. saves \in 0 .. MaxSaves /\ kills \in 0 .. MaxKills
      BY <1>1, EdgeBounds DEF EdgesInit
    <2>2. /\ content \in [Paths -> Texts \cup {NoName}] /\ stored \in [Paths -> Texts \cup {NoName}]
          /\ stamp \in Nat
      BY <1>1 DEF EdgesInit
    <2> QED BY <1>1, <2>1, <2>2, Zenon DEF EdgesInit, EdgesTypeOK
  <1> QED
    BY <1>1, <1>2 DEF EdgesInit, EdgeInv, InRun, IdsApart, LinksFit, EdgesFitTheirNames

\* A step that leaves rows and edges alone.
LEMMA TablesAlone ==
  ASSUME EdgeInv, UNCHANGED <<rows, edges, stamp>>, EdgesTypeOK', InRun',
         links' = links \/ links' = {}
  PROVE  EdgeInv'
  BY DEF EdgeInv, IdsApart, LinksFit, EdgesFitTheirNames

LEMMA SaveKeeps ==
  ASSUME EdgeInv, NEW p \in Paths, NEW t \in Texts, Save(p, t)
  PROVE  EdgeInv'
  <1>1. EdgesTypeOK'
    BY EdgeBounds DEF Save, EdgeInv, EdgesTypeOK
  <1>2. InRun'
    BY DEF Save, EdgeInv, InRun
  <1> QED BY <1>1, <1>2, TablesAlone DEF Save

LEMMA DeleteFileKeeps ==
  ASSUME EdgeInv, NEW p \in Paths, DeleteFileRows(p)
  PROVE  EdgeInv'
  <1> DEFINE gone == {r.id : r \in {q \in rows : q.file = p}}
  <1>1. edges' = EdgesWithout(gone) /\ rows' = {r \in rows : r.file # p} /\ links' = links
    BY DEF DeleteFileRows
  <1>2. \A r \in rows \ rows' : r.id \in gone
    BY <1>1
  <1>3. \A e \in edges' : /\ e \in Edge
                          /\ e.to # NoName =>
                               \E r \in rows' : r.id = e.to /\ FitsName(e.use, r.sym.qn)
    <2> HIDE DEF gone
    <2> QED BY <1>1, <1>2, DeletionFits DEF EdgeInv, EdgesTypeOK
  <1>4. EdgesTypeOK'
    <2>1. rows' \subseteq Row /\ edges' \subseteq Edge
      BY <1>1, <1>3 DEF EdgeInv, EdgesTypeOK
    <2>2. saves' \in 0 .. MaxSaves
      BY EdgeBounds DEF DeleteFileRows, EdgeInv, EdgesTypeOK
    <2>3. /\ content' \in [Paths -> Texts \cup {NoName}]
          /\ stored' \in [Paths -> Texts \cup {NoName}]
          /\ cut' \subseteq Paths /\ resolved' \in BOOLEAN
      BY DEF DeleteFileRows, EdgeInv, EdgesTypeOK
    <2>4. UNCHANGED <<stamp, job, place, left, path, kills>>
      BY DEF DeleteFileRows
    <2> QED BY <2>1, <2>2, <2>3, <2>4 DEF EdgeInv, EdgesTypeOK
  <1>5. InRun'
    BY DEF DeleteFileRows, EdgeInv, InRun
  <1>6. EdgesFitTheirNames' /\ IdsApart' /\ LinksFit'
    BY <1>1, <1>3 DEF DeleteFileRows, EdgesFitTheirNames, FitsName, EdgeInv, IdsApart, LinksFit
  <1> QED BY <1>4, <1>5, <1>6 DEF EdgeInv

LEMMA StartKeeps ==
  ASSUME EdgeInv, NEW kind \in {"full", "single"}, NEW set \in SUBSET Paths, StartRewrite(kind, set)
  PROVE  EdgeInv'
  <1>1. EdgesTypeOK'
    BY DEF StartRewrite, EdgeInv, EdgesTypeOK
  <1>2. InRun'
    BY DEF StartRewrite, Changed, EdgeInv, InRun
  <1> QED BY <1>1, <1>2, TablesAlone DEF StartRewrite

LEMMA BeginKeeps ==
  ASSUME EdgeInv, NEW p \in Paths, BeginFile(p)
  PROVE  EdgeInv'
  <1>1. EdgesTypeOK'
    BY DEF BeginFile, EdgeInv, EdgesTypeOK
  <1>2. InRun'
    BY DEF BeginFile, EdgeInv, InRun
  <1> QED BY <1>1, <1>2, TablesAlone DEF BeginFile

LEMMA DeleteStaleKeeps ==
  ASSUME EdgeInv, DeleteStale
  PROVE  EdgeInv'
  <1> DEFINE ids == {r.id : r \in StaleRows}
             noted == StaleRows \cap Remembered(path)
  <1>1. /\ links' = PointingAt(noted)
        /\ edges' = EdgesWithout(ids) /\ rows' = rows \ StaleRows
    BY DEF DeleteStale
  <1>2. rows' \in SUBSET rows /\ \A r \in rows \ rows' : r.id \in ids
    BY <1>1 DEF StaleRows
  <1>3. \A e \in edges' : /\ e \in Edge
                          /\ e.to # NoName =>
                               \E r \in rows' : r.id = e.to /\ FitsName(e.use, r.sym.qn)
    <2> HIDE DEF ids
    <2> QED BY <1>1, <1>2, DeletionFits DEF EdgeInv, EdgesTypeOK
  <1>4. EdgesTypeOK'
    BY <1>2, <1>3 DEF DeleteStale, EdgeInv, EdgesTypeOK
  <1>5. InRun'
    BY DEF DeleteStale, EdgeInv, InRun
  <1>6. LinksFit'
    <2>1. SUFFICES ASSUME NEW l \in PointingAt(noted)
                   PROVE  l.edge \in Edge /\ l.row \in Row /\ FitsName(l.edge.use, l.row.sym.qn)
      BY <1>1 DEF LinksFit
    <2>2. l.edge \in edges /\ l.row \in rows /\ l.edge.to = l.row.id
      BY DEF PointingAt, StaleRows
    <2>3. l.edge \in Edge /\ l.row \in Row
      BY <2>2 DEF EdgeInv, EdgesTypeOK
    <2>4. l.edge.to # NoName
      BY <2>2, <2>3, EdgeNames DEF Row, RowId
    <2>5. PICK r \in rows : r.id = l.edge.to /\ l.edge.use.name \in {r.sym.qn, Short[r.sym.qn]}
      BY <2>2, <2>4 DEF EdgeInv, EdgesFitTheirNames
    <2>6. r = l.row
      BY <2>2, <2>5 DEF EdgeInv, IdsApart
    <2> QED BY <2>3, <2>5, <2>6 DEF FitsName
  <1>7. EdgesFitTheirNames' /\ IdsApart'
    BY <1>2, <1>3 DEF DeleteStale, EdgesFitTheirNames, FitsName, EdgeInv, IdsApart
  <1> QED BY <1>4, <1>5, <1>6, <1>7 DEF EdgeInv

\* What InsertRows adds: rows with new ids, one for each local index that is new.
LEMMA NewRowsFit ==
  ASSUME EdgeInv, place = "insert"
  PROVE  /\ path \in Paths /\ content[path] \in Texts /\ stamp \in Nat
         /\ \A r \in NewRows :
              /\ r \in Row /\ r.file = path
              /\ r.id[1] = stamp + 1 /\ r.id[2] \in DOMAIN Defs[content[path]]
              /\ r.sym = Defs[content[path]][r.id[2]]
              /\ r.sym \in SymsOf(content[path]) /\ r.sym \notin Unchanged
         /\ \A s \in SymsOf(content[path]) \ Unchanged : \E r \in NewRows : r.sym = s
         /\ \A r, q \in NewRows : r.id = q.id => r = q
  <1> DEFINE defs == Defs[content[path]]
  <1>1. path \in Paths /\ content[path] \in Texts /\ stamp \in Nat
    BY DEF EdgeInv, InRun, EdgesTypeOK
  <1>2. defs \in Seq(Sym2) /\ DOMAIN defs \subseteq Nat
    BY <1>1, EdgeDefs
  <1>3. ASSUME NEW r \in NewRows
        PROVE  \E i \in DOMAIN defs :
                 /\ r = [id |-> <<stamp + 1, i>>, file |-> path, sym |-> defs[i]]
                 /\ defs[i] \notin Unchanged
    BY DEF NewRows
  <1>4. ASSUME NEW r \in NewRows
        PROVE  /\ r \in Row /\ r.file = path
               /\ r.id[1] = stamp + 1 /\ r.id[2] \in DOMAIN defs /\ r.sym = defs[r.id[2]]
               /\ r.id = <<stamp + 1, r.id[2]>>
               /\ r.sym \in SymsOf(content[path]) /\ r.sym \notin Unchanged
    <2>1. PICK i \in DOMAIN defs : /\ r = [id |-> <<stamp + 1, i>>, file |-> path, sym |-> defs[i]]
                                   /\ defs[i] \notin Unchanged
      BY <1>3
    <2>2. defs[i] \in SymsOf(content[path]) /\ defs[i] \in Sym2 /\ i \in Nat
      BY <1>1, <1>2 DEF SymsOf, Sym2
    <2>3. <<stamp + 1, i>> \in RowId
      BY <1>1, <2>2 DEF RowId
    <2> QED BY <1>1, <2>1, <2>2, <2>3 DEF Row
  <1>5. ASSUME NEW s \in SymsOf(content[path]) \ Unchanged
        PROVE  \E r \in NewRows : r.sym = s
    <2>1. PICK i \in DOMAIN defs : defs[i] = s
      BY DEF SymsOf
    <2>2. [id |-> <<stamp + 1, i>>, file |-> path, sym |-> defs[i]] \in NewRows
      BY <1>5, <2>1 DEF NewRows
    <2> QED BY <2>1, <2>2
  <1>6. ASSUME NEW r \in NewRows, NEW q \in NewRows, r.id = q.id
        PROVE  r = q
    <2>1. PICK i \in DOMAIN defs : r = [id |-> <<stamp + 1, i>>, file |-> path, sym |-> defs[i]]
      BY <1>3
    <2>2. PICK j \in DOMAIN defs : q = [id |-> <<stamp + 1, j>>, file |-> path, sym |-> defs[j]]
      BY <1>3
    <2>3. <<stamp + 1, i>> = <<stamp + 1, j>>
      BY <1>6, <2>1, <2>2
    <2> QED BY <2>1, <2>2, <2>3
  <1> QED BY <1>1, <1>4, <1>5, <1>6

LEMMA InsertKeeps ==
  ASSUME EdgeInv, InsertRows
  PROVE  EdgeInv'
  <1>1. rows' = rows \cup NewRows /\ stamp' = stamp + 1 /\ place = "insert"
        /\ UNCHANGED <<content, stored, edges, job, left, path, links, linked, cut, resolved,
                       saves, kills>>
    BY DEF InsertRows
  <1>2. stamp \in Nat
    BY DEF EdgeInv, EdgesTypeOK
  <1>3. \A r \in NewRows : r \in Row /\ r.id[1] = stamp + 1
    BY <1>1, NewRowsFit
  <1>4. \A r \in rows : r.id[1] \in Nat /\ r.id[1] <= stamp
    BY DEF EdgeInv, EdgesTypeOK, Row, RowId, IdsApart
  <1>5. EdgesTypeOK'
    BY <1>1, <1>3 DEF InsertRows, EdgeInv, EdgesTypeOK
  <1>6. InRun'
    BY DEF InsertRows, EdgeInv, InRun
  <1>7. IdsApart'
    <2>1. \A r \in rows' : r.id[1] <= stamp'
      BY <1>1, <1>2, <1>3, <1>4
    <2>2. ASSUME NEW r \in rows', NEW q \in rows', r.id = q.id
          PROVE  r = q
      <3>1. CASE r \in rows /\ q \in rows
        BY <2>2, <3>1 DEF EdgeInv, IdsApart
      <3>2. CASE r \in NewRows /\ q \in NewRows
        BY <1>1, <2>2, <3>2, NewRowsFit
      <3>3. CASE (r \in rows /\ q \in NewRows) \/ (r \in NewRows /\ q \in rows)
        BY <1>2, <1>3, <1>4, <2>2, <3>3
      <3> QED BY <1>1, <3>1, <3>2, <3>3
    <2> QED BY <2>1, <2>2 DEF IdsApart
  <1>8. LinksFit' /\ EdgesFitTheirNames'
    BY <1>1 DEF EdgeInv, LinksFit, EdgesFitTheirNames
  <1> QED BY <1>5, <1>6, <1>7, <1>8 DEF EdgeInv

LEMMA RepointKeeps ==
  ASSUME EdgeInv, Repoint
  PROVE  EdgeInv'
  <1>1. edges' = {IF NewTarget(e) = {} THEN e ELSE [e EXCEPT !.to = OnlyId(NewTarget(e))]
                    : e \in edges}
        /\ rows' = rows /\ links' = {}
    BY DEF Repoint
  <1>2. ASSUME NEW f \in edges'
        PROVE  /\ f \in Edge
               /\ f.to # NoName => \E r \in rows : r.id = f.to /\ FitsName(f.use, r.sym.qn)
    <2>1. PICK e \in edges : f = IF NewTarget(e) = {} THEN e
                                 ELSE [e EXCEPT !.to = OnlyId(NewTarget(e))]
      BY <1>1, <1>2
    <2>2. e \in Edge
      BY DEF EdgeInv, EdgesTypeOK
    <2>3. CASE NewTarget(e) = {}
      BY <2>1, <2>2, <2>3 DEF EdgeInv, EdgesFitTheirNames, FitsName
    <2>4. CASE NewTarget(e) # {}
      <3>1. f = [e EXCEPT !.to = OnlyId(NewTarget(e))]
        BY <2>1, <2>4
      <3>2. f.use = e.use /\ f.to = OnlyId(NewTarget(e))
        BY <2>2, <3>1 DEF Edge
      <3>3. ASSUME f.to # NoName
            PROVE  \E r \in rows : r.id = f.to /\ FitsName(f.use, r.sym.qn)
        <4>1. PICK r \in NewTarget(e) : f.to = r.id
          BY <3>2, <3>3, OnlyIdIsMember
        <4>2. PICK l \in links : l.edge.use = e.use /\ r.sym.qn = l.row.sym.qn
          BY <4>1 DEF NewTarget, SameEdge
        <4>3. r \in rows
          BY <4>1 DEF NewTarget, Inserted
        <4>4. FitsName(e.use, r.sym.qn)
          BY <4>2 DEF EdgeInv, LinksFit
        <4> QED BY <3>2, <4>1, <4>3, <4>4
      <3>4. f \in Edge
        <4>1. f.to \in RowId \cup {NoName}
          BY <3>3 DEF EdgeInv, EdgesTypeOK, Row
        <4> QED BY <2>2, <3>1, <3>2, <4>1 DEF Edge
      <3> QED BY <3>3, <3>4
    <2> QED BY <2>3, <2>4
  <1>3. EdgesTypeOK'
    BY <1>2 DEF Repoint, EdgeInv, EdgesTypeOK
  <1>4. InRun'
    BY DEF Repoint, EdgeInv, InRun
  <1>5. IdsApart' /\ LinksFit'
    BY <1>1 DEF Repoint, EdgeInv, IdsApart, LinksFit
  <1>6. EdgesFitTheirNames'
    BY <1>1, <1>2 DEF EdgesFitTheirNames, FitsName
  <1> QED BY <1>3, <1>4, <1>5, <1>6 DEF EdgeInv

LEMMA StoreKeeps ==
  ASSUME EdgeInv, StoreEdges
  PROVE  EdgeInv'
  <1> DEFINE new == UNION {{[from |-> r.id, use |-> u, to |-> LocalMatch(u), stamp |-> stamp + 1]
                              : u \in Uses[r.sym]} : r \in Inserted}
  <1>1. edges' = edges \cup new /\ stamp' = stamp + 1 /\ rows' = rows /\ links' = links
    BY DEF StoreEdges
  <1>2. ASSUME NEW f \in new
        PROVE  /\ f \in Edge
               /\ f.to # NoName => \E r \in rows : r.id = f.to /\ FitsName(f.use, r.sym.qn)
    <2>0. PICK r \in Inserted :
            f \in {[from |-> r.id, use |-> u, to |-> LocalMatch(u), stamp |-> stamp + 1]
                      : u \in Uses[r.sym]}
      BY <1>2
    <2>1. PICK u \in Uses[r.sym] :
            f = [from |-> r.id, use |-> u, to |-> LocalMatch(u), stamp |-> stamp + 1]
      BY <2>0
    <2>2. r \in Row /\ r.id \in RowId /\ u \in Use
      BY <2>1 DEF Inserted, EdgeInv, EdgesTypeOK, Row, Use
    <2>3. ASSUME LocalMatch(u) # NoName
          PROVE  \E q \in rows : LocalMatch(u) = q.id /\ FitsName(u, q.sym.qn)
      BY <2>3, LocalMatchFits
    <2>4. LocalMatch(u) \in RowId \cup {NoName}
      BY <2>3 DEF EdgeInv, EdgesTypeOK, Row
    <2>5. f \in Edge
      BY <2>1, <2>2, <2>4 DEF Edge, EdgeInv, EdgesTypeOK
    <2>6. f.to = LocalMatch(u) /\ f.use = u
      BY <2>1
    <2> QED BY <2>3, <2>5, <2>6
  <1> HIDE DEF new
  <1>3. EdgesTypeOK'
    BY <1>1, <1>2 DEF StoreEdges, EdgeInv, EdgesTypeOK
  <1>4. InRun'
    BY DEF StoreEdges, EdgeInv, InRun
  <1>5. IdsApart' /\ LinksFit'
    <2>1. \A r \in rows : r.id[1] \in Nat /\ r.id[1] <= stamp
      BY DEF EdgeInv, EdgesTypeOK, Row, RowId, IdsApart
    <2>2. stamp \in Nat
      BY DEF EdgeInv, EdgesTypeOK
    <2> QED BY <1>1, <2>1, <2>2 DEF EdgeInv, IdsApart, LinksFit
  <1>6. EdgesFitTheirNames'
    BY <1>1, <1>2 DEF EdgeInv, EdgesFitTheirNames, FitsName
  <1> QED BY <1>3, <1>4, <1>5, <1>6 DEF EdgeInv

LEMMA ResolveKeeps ==
  ASSUME EdgeInv, ResolveAll
  PROVE  EdgeInv'
  <1>1. PICK pick \in [edges -> {r.id : r \in rows} \cup {NoName}] :
          /\ \A e \in edges :
               pick[e] \in IF e.to # NoName \/ GlobalMatches(e.use) = {} THEN {e.to}
                           ELSE {r.id : r \in GlobalMatches(e.use)}
          /\ edges' = {[e EXCEPT !.to = pick[e]] : e \in edges}
    BY DEF ResolveAll
  <1>2. rows' = rows /\ links' = links
    BY DEF ResolveAll
  <1>3. ASSUME NEW f \in edges'
        PROVE  /\ f \in Edge
               /\ f.to # NoName => \E r \in rows : r.id = f.to /\ FitsName(f.use, r.sym.qn)
    <2>1. PICK e \in edges : f = [e EXCEPT !.to = pick[e]]
      BY <1>1, <1>3
    <2>2. e \in Edge /\ pick[e] \in RowId \cup {NoName}
      BY <1>1 DEF EdgeInv, EdgesTypeOK, Row
    <2>3. f \in Edge /\ f.use = e.use /\ f.to = pick[e]
      BY <2>1, <2>2 DEF Edge
    <2>4. CASE e.to # NoName \/ GlobalMatches(e.use) = {}
      <3>1. f.to = e.to
        BY <1>1, <2>3, <2>4
      <3> QED BY <2>3, <3>1 DEF EdgeInv, EdgesFitTheirNames, FitsName
    <2>5. CASE ~(e.to # NoName \/ GlobalMatches(e.use) = {})
      <3>1. PICK r \in GlobalMatches(e.use) : f.to = r.id
        BY <1>1, <2>3, <2>5
      <3> QED BY <2>3, <3>1, GlobalMatchFits
    <2> QED BY <2>4, <2>5
  <1>4. EdgesTypeOK'
    BY <1>3 DEF ResolveAll, EdgeInv, EdgesTypeOK
  <1>5. InRun'
    BY DEF ResolveAll, EdgeInv, InRun
  <1>6. IdsApart' /\ LinksFit'
    BY <1>2 DEF ResolveAll, EdgeInv, IdsApart, LinksFit
  <1>7. EdgesFitTheirNames'
    BY <1>2, <1>3 DEF EdgesFitTheirNames, FitsName
  <1> QED BY <1>4, <1>5, <1>6, <1>7 DEF EdgeInv

LEMMA EndKeeps ==
  ASSUME EdgeInv, EndSingle \/ KillRewrite
  PROVE  EdgeInv'
  <1>1. EdgesTypeOK'
    <2>1. kills' \in 0 .. MaxKills
      BY EdgeBounds DEF EndSingle, KillRewrite, EdgeInv, EdgesTypeOK
    <2>2. left' \subseteq Paths /\ path' \in Paths \cup {NoName} /\ cut' \subseteq Paths
          /\ resolved' \in BOOLEAN
      BY DEF EndSingle, KillRewrite, EdgeInv, EdgesTypeOK
    <2>3. /\ UNCHANGED <<content, stored, rows, edges, stamp, saves>>
          /\ job' = "none" /\ place' = "idle"
      BY DEF EndSingle, KillRewrite
    <2> QED BY <2>1, <2>2, <2>3 DEF EdgeInv, EdgesTypeOK
  <1>2. InRun'
    BY DEF EndSingle, KillRewrite, EdgeInv, InRun
  <1> QED BY <1>1, <1>2, TablesAlone DEF EndSingle, KillRewrite

----------------------------------------------------------------------------
LEMMA EdgeStepInv == EdgeInv /\ [EdgesNext]_edgeVars => EdgeInv'
  <1> SUFFICES ASSUME EdgeInv, [EdgesNext]_edgeVars PROVE EdgeInv'
    OBVIOUS
  <1>1. CASE UNCHANGED edgeVars
    <2>1. EdgesTypeOK' /\ InRun'
      BY <1>1 DEF edgeVars, EdgeInv, EdgesTypeOK, InRun
    <2> QED BY <1>1, <2>1, TablesAlone DEF edgeVars
  <1>2. ASSUME NEW p \in Paths, DeleteFileRows(p) PROVE EdgeInv'
    BY <1>2, DeleteFileKeeps
  <1>3. ASSUME NEW p \in Paths, NEW t \in Texts, Save(p, t) PROVE EdgeInv'
    BY <1>3, SaveKeeps
  <1>4. ASSUME StartRewrite("full", Changed) PROVE EdgeInv'
    BY <1>4, StartKeeps DEF Changed
  <1>5. ASSUME NEW p \in Paths, StartRewrite("single", {p}) PROVE EdgeInv'
    BY <1>5, StartKeeps
  <1>6. ASSUME NEW p \in Paths, BeginFile(p) PROVE EdgeInv'
    BY <1>6, BeginKeeps
  <1>7. ASSUME DeleteStale PROVE EdgeInv'
    BY <1>7, DeleteStaleKeeps
  <1>8. ASSUME InsertRows PROVE EdgeInv'
    BY <1>8, InsertKeeps
  <1>9. ASSUME Repoint PROVE EdgeInv'
    BY <1>9, RepointKeeps
  <1>10. ASSUME StoreEdges PROVE EdgeInv'
    BY <1>10, StoreKeeps
  <1>11. ASSUME EndSingle \/ KillRewrite PROVE EdgeInv'
    BY <1>11, EndKeeps
  <1>12. ASSUME ResolveAll PROVE EdgeInv'
    BY <1>12, ResolveKeeps
  <1> QED
    BY <1>1, <1>2, <1>3, <1>4, <1>5, <1>6, <1>7, <1>8, <1>9, <1>10, <1>11, <1>12 DEF EdgesNext

\* The invariant that carries the theorems below holds of every state rewriting files reaches.
THEOREM EdgeInvariant == EdgesSpec => []EdgeInv
  BY EdgeInitInv, EdgeStepInv, PTL DEF EdgesSpec

\* Rows, edges and the run's variables keep their types.
THEOREM EdgeTypes == EdgesSpec => []EdgesTypeOK
  <1>1. EdgeInv => EdgesTypeOK
    BY DEF EdgeInv
  <1> QED BY <1>1, EdgeInvariant, PTL

\* _insert_one(), the link repair and the resolve passes, for any repository: an edge that
\* resolves to a row resolves to a living row its name matches, through kills and deletions.
THEOREM EdgesAlwaysFit == EdgesSpec => []EdgesFitTheirNames
  <1>1. EdgeInv => EdgesFitTheirNames
    BY DEF EdgeInv
  <1> QED BY <1>1, EdgeInvariant, PTL

----------------------------------------------------------------------------
(* Edges stored once, links that survive a rewrite, and edges that stay     *)
(* resolved.  All three rest on the same facts: ids tell rows apart, the    *)
(* rows of one name go together, and an edge is known by its caller's row   *)
(* and what it names.                                                       *)

SameUse(d, e) == d.from = e.from /\ d.use = e.use

Keyed(D) == \A d, e \in D : SameUse(d, e) => d = e

\* E is what becomes of the edges of D, or of some, as they get the targets T.
Retargeted(E, D, T) ==
  E \subseteq Edge /\ \A f \in E : \E d \in D : SameEdge(f, d) /\ f.to = T[d]

\* Stamps are drawn; after the delete no stale row is left; and what was inserted has local
\* indices of the content.
RowsOnce ==
  /\ \A e \in edges : e.stamp <= stamp
  /\ place = "insert" => StaleRows = {}
  /\ place \in {"repoint", "store"} =>
       \A r \in Inserted : r.id[2] \in DOMAIN Defs[content[path]]

\* An edge is known by its caller and its use, comes from a living row that has that use, and
\* not from the rows a rewrite has only just inserted.
EdgesOnce ==
  /\ Keyed(edges)
  /\ \A e \in edges : \E r \in rows : r.id = e.from /\ e.use \in Uses[r.sym]
  /\ place \in {"repoint", "store"} => \A e \in edges : e.from[1] # stamp

HasEdges(r) == \A u \in Uses[r.sym] : \E e \in edges : e.from = r.id /\ e.use = u

\* Only rows of cut files, and those just inserted, are without their edges.
EdgesThere ==
  \A r \in rows : \/ HasEdges(r)
                  \/ r.file \in cut
                  \/ place \in {"repoint", "store"} /\ r \in Inserted

LinksOnce == \A k, l \in links : SameUse(k.edge, l.edge) => k = l

\* What has become of an edge that pointed into the file as its rewrite began: it points at a
\* row that has the name of its target, if there is one; its target is deleted, the edge noted,
\* and the name not back or back under new ids; or its target was not touched.
Namesake(l, r) == r.file = l.row.file /\ r.sym.qn = l.row.sym.qn
Followed(l, e) ==
  (\E r \in rows : Namesake(l, r)) => \E r \in rows : Namesake(l, r) /\ e.to = r.id
Noted(l) ==
  /\ l \in links
  /\ \A r \in rows : Namesake(l, r) => place = "repoint" /\ r \in Inserted
Untouched(l, e) ==
  /\ \A k \in links : ~SameEdge(k.edge, e)
  /\ \E r \in rows : Namesake(l, r) /\ e.to = r.id

LinkedInv ==
  /\ \A l \in linked : l.edge \in Edge /\ l.edge.stamp <= stamp
  /\ place \in {"drop", "insert", "repoint", "store"} => \A l \in linked : l.row.file = path
  /\ place = "drop" => linked \subseteq PointingAt(Remembered(path))
  /\ place \in {"insert", "repoint"} =>
       \A l \in linked, e \in edges : SameEdge(e, l.edge) => Noted(l) \/ Untouched(l, e)
  /\ place = "store" =>
       \A l \in linked, e \in edges : SameEdge(e, l.edge) => Followed(l, e)

\* A use names exactly one row, and one a resolve pass would take; or it will once the rows of
\* the new content are there, those of the other files known by their ids.
Wants(u, n) == FitsName(u, n) /\ (u.kind = "type" => Short[n] = u.name /\ n \in Classes)
OneRow(u) == \E r \in rows : /\ Wants(u, r.sym.qn)
                             /\ \A q \in rows : FitsName(u, q.sym.qn) => q = r
Coming == {<<r.sym.qn, r.id>> : r \in {q \in rows : q.file # path}}
            \cup {<<s.qn, NoName>> : s \in SymsOf(content[path])}
OneComing(u) == \E p \in Coming : /\ Wants(u, p[1])
                                  /\ \A q \in Coming : FitsName(u, q[1]) => q = p

IsNoted(e) == \E k \in links : SameEdge(k.edge, e)

\* While only bodies change, an edge that names one row is resolved, or noted and about to be:
\* the names a rewrite takes away are those it puts back.
ResolvedInv == resolved =>
  /\ place = "drop" =>
       OneOfEachName(path) /\ NamesIn(path) = {s.qn : s \in SymsOf(content[path])}
  /\ place = "insert" =>
       /\ \A k \in links : \E s \in SymsOf(content[path]) \ Unchanged : s.qn = k.row.sym.qn
       /\ \A e \in edges : OneComing(e.use) => e.to # NoName \/ IsNoted(e)
  /\ place = "repoint" =>
       /\ \A k \in links : \E r \in Inserted : r.sym.qn = k.row.sym.qn
       /\ \A e \in edges : OneRow(e.use) => e.to # NoName \/ IsNoted(e)
  /\ place \notin {"insert", "repoint"} =>
       \A e \in edges : OneRow(e.use) => e.to # NoName

\* What all three theorems below start from.
OnceInv == RowsOnce /\ EdgesOnce /\ EdgesThere /\ LinksOnce

----------------------------------------------------------------------------
\* A nonempty set of local indices has a largest one.
LEMMA LargestIndex ==
  ASSUME NEW L \in Nat, NEW I, I \subseteq 1 .. L, I # {}
  PROVE  \E m \in I : \A i \in I : i <= m
  <1> DEFINE from(i) == i .. L
             T == {j \in SUBSET (1 .. L) : \E i \in I : j = from(i)}
  <1>1. IsFiniteSet(1 .. L)
    BY FS_Interval
  <1>2. T \subseteq FiniteSubsetsOf(1 .. L)
    BY <1>1, FS_Subset DEF FiniteSubsetsOf
  <1>3. T # {}
    <2>1. PICK i \in I : TRUE
      OBVIOUS
    <2>2. from(i) \in SUBSET (1 .. L)
      OBVIOUS
    <2>3. from(i) \in T
      BY <2>2
    <2> QED BY <2>3
  <1>4. PICK S \in T : \A U \in T : <<U, S>> \notin StrictSubsetOrdering(1 .. L)
    <2> HIDE DEF T
    <2>1. IsWellFoundedOn(StrictSubsetOrdering(1 .. L), FiniteSubsetsOf(1 .. L))
      BY FS_StrictSubsetOrderingWellFounded
    <2> QED BY <1>2, <1>3, <2>1, WFMin
  <1>5. PICK m \in I : S = from(m)
    OBVIOUS
  <1>6. ASSUME NEW i \in I, ~(i <= m)
        PROVE  FALSE
    <2>1. from(i) \in T
      OBVIOUS
    <2>2. from(i) \subseteq S /\ from(i) # S
      <3>1. m \in from(m) /\ m \notin from(i)
        BY <1>6
      <3> QED BY <1>5, <1>6, <3>1
    <2>3. <<from(i), S>> \in StrictSubsetOrdering(1 .. L)
      BY <2>1, <2>2 DEF StrictSubsetOrdering
    <2> QED BY <1>4, <2>1, <2>3
  <1> QED BY <1>6

\* Of the rows inserted with one name there is exactly one no other comes after.
LEMMA LastOfName ==
  ASSUME EdgeInv, OnceInv, place = "repoint", NEW n, \E r \in Inserted : r.sym.qn = n
  PROVE  \E r \in Inserted :
           /\ r.sym.qn = n
           /\ \A q \in Inserted : q.sym.qn = n => ~After(q, r)
           /\ \A q \in Inserted :
                q.sym.qn = n /\ (\A x \in Inserted : x.sym.qn = n => ~After(x, q)) => q = r
  <1> DEFINE S == {r \in Inserted : r.sym.qn = n}
             I == {r.id[2] : r \in S}
  <1>1. content[path] \in Texts
    BY DEF EdgeInv, InRun, EdgesTypeOK
  <1>2. PICK L \in Nat : DOMAIN Defs[content[path]] = 1 .. L
    BY <1>1, EdgeDefs
  <1>3. \A r \in S : /\ r.id[2] \in 1 .. L /\ r.id[1] = stamp
                     /\ r \in rows /\ r.id = <<r.id[1], r.id[2]>>
    BY <1>2 DEF OnceInv, RowsOnce, Inserted, EdgeInv, EdgesTypeOK, Row, RowId
  <1>4. I \subseteq 1 .. L /\ I # {}
    BY <1>3
  <1>5. PICK m \in I : \A i \in I : i <= m
    <2> HIDE DEF I
    <2> QED BY <1>4, LargestIndex
  <1>6. PICK r \in S : r.id[2] = m
    OBVIOUS
  <1>7. stamp \in Nat
    BY DEF EdgeInv, EdgesTypeOK
  <1>i. \A q \in S : q.id[1] = stamp /\ q.id[2] \in Nat /\ m \in Nat /\ q.id[2] <= m
    BY <1>3, <1>5
  <1>8. \A q \in S : ~After(q, r)
    <2> HIDE DEF S, I
    <2> QED BY <1>6, <1>7, <1>i DEF After
  <1>9. ASSUME NEW q \in S, \A x \in S : ~After(x, q)
        PROVE  q = r
    <2>1. ~After(r, q)
      BY <1>9
    <2>2. r.id[2] = q.id[2]
      <3> HIDE DEF S, I
      <3> QED BY <1>6, <1>7, <1>i, <2>1 DEF After
    <2>3. r.id = q.id
      BY <1>3, <2>2
    <2> QED BY <1>3, <2>3 DEF EdgeInv, IdsApart
  <1> QED BY <1>8, <1>9

\* A noted edge whose target's name is back has one new target: a row of that name.
LEMMA NewTargetOfNoted ==
  ASSUME EdgeInv, OnceInv, place = "repoint", NEW e, NEW l \in links, SameEdge(l.edge, e),
         \E r \in Inserted : r.sym.qn = l.row.sym.qn
  PROVE  \E r \in Inserted : r.sym.qn = l.row.sym.qn /\ NewTarget(e) = {r}
  <1>1. PICK r \in Inserted :
          /\ r.sym.qn = l.row.sym.qn
          /\ \A q \in Inserted : q.sym.qn = l.row.sym.qn => ~After(q, r)
          /\ \A q \in Inserted :
               q.sym.qn = l.row.sym.qn
               /\ (\A x \in Inserted : x.sym.qn = l.row.sym.qn => ~After(x, q)) => q = r
    BY LastOfName
  <1>2. r \in NewTarget(e)
    BY <1>1 DEF NewTarget
  <1>3. ASSUME NEW q \in NewTarget(e) PROVE q = r
    <2>1. PICK k \in links : SameEdge(k.edge, e) /\ q.sym.qn = k.row.sym.qn
      BY DEF NewTarget
    <2>2. k = l
      BY <2>1 DEF OnceInv, LinksOnce, SameEdge, SameUse
    <2>3. q \in Inserted /\ \A x \in Inserted : x.sym.qn = q.sym.qn => ~After(x, q)
      BY DEF NewTarget
    <2> QED BY <1>1, <2>1, <2>2, <2>3
  <1> QED BY <1>1, <1>2, <1>3

\* Giving edges other targets keeps them apart.
LEMMA KeyKept ==
  ASSUME NEW E, NEW D, NEW T, Keyed(D), Retargeted(E, D, T)
  PROVE  Keyed(E)
  <1>1. SUFFICES ASSUME NEW f \in E, NEW g \in E, SameUse(f, g) PROVE f = g
    BY DEF Keyed
  <1>2. PICK d \in D : SameEdge(f, d) /\ f.to = T[d]
    BY DEF Retargeted
  <1>3. PICK e \in D : SameEdge(g, e) /\ g.to = T[e]
    BY DEF Retargeted
  <1>4. d = e
    BY <1>1, <1>2, <1>3 DEF SameEdge, SameUse, Keyed
  <1>5. f.from = g.from /\ f.use = g.use /\ f.stamp = g.stamp /\ f.to = g.to
    BY <1>1, <1>2, <1>3, <1>4 DEF SameEdge, SameUse
  <1> QED BY <1>5 DEF Edge, Retargeted

\* ON DELETE, edge by edge.
LEMMA DeletionMaps ==
  ASSUME edges \subseteq Edge, NEW ids
  PROVE  /\ \A f \in EdgesWithout(ids) : \E e \in edges :
              /\ e.from \notin ids /\ SameEdge(f, e)
              /\ f.to = IF e.to \in ids THEN NoName ELSE e.to
         /\ \A e \in edges : e.from \notin ids => \E f \in EdgesWithout(ids) : SameEdge(f, e)
  <1>1. ASSUME NEW f \in EdgesWithout(ids)
        PROVE  \E e \in edges : /\ e.from \notin ids /\ SameEdge(f, e)
                                /\ f.to = IF e.to \in ids THEN NoName ELSE e.to
    <2>1. PICK e \in edges :
            e.from \notin ids /\ f = [e EXCEPT !.to = IF @ \in ids THEN NoName ELSE @]
      BY DEF EdgesWithout
    <2> QED BY <2>1 DEF Edge, SameEdge, SameUse
  <1>2. ASSUME NEW e \in edges, e.from \notin ids
        PROVE  \E f \in EdgesWithout(ids) : SameEdge(f, e)
    <2>1. [e EXCEPT !.to = IF @ \in ids THEN NoName ELSE @] \in EdgesWithout(ids)
      BY <1>2 DEF EdgesWithout
    <2> QED BY <2>1 DEF Edge, SameEdge, SameUse
  <1> QED BY <1>1, <1>2

IdsOfRows(set) == {r.id : r \in set}

\* What deleting rows and their edges leaves is still stored once.
LEMMA DeletionKeepsOnce ==
  ASSUME EdgeInv, OnceInv, NEW gone \in SUBSET rows
  PROVE  /\ Keyed(EdgesWithout(IdsOfRows(gone)))
         /\ \A e \in EdgesWithout(IdsOfRows(gone)) : e.stamp <= stamp
         /\ \A e \in EdgesWithout(IdsOfRows(gone)) :
              \E r \in rows \ gone : r.id = e.from /\ e.use \in Uses[r.sym]
         /\ \A r \in rows \ gone : HasEdges(r) =>
              \A u \in Uses[r.sym] :
                \E e \in EdgesWithout(IdsOfRows(gone)) : e.from = r.id /\ e.use = u
  <1> DEFINE ids == IdsOfRows(gone)
  <1> DEFINE T == [e \in edges |-> IF e.to \in ids THEN NoName ELSE e.to]
  <1>t. edges \subseteq Edge
    BY DEF EdgeInv, EdgesTypeOK
  <1>i. \A r \in gone : r.id \in ids
    BY DEF IdsOfRows
  <1>1. \A f \in EdgesWithout(ids) : f \in Edge
    <2>1. \A r \in rows \ (rows \ gone) : r.id \in ids
      BY <1>i
    <2> QED BY <1>t, <2>1, DeletionFits DEF EdgeInv
  <1>2. \A f \in EdgesWithout(ids) : \E e \in edges :
          e.from \notin ids /\ SameEdge(f, e) /\ f.to = T[e]
    BY <1>t, DeletionMaps
  <1>3. Keyed(EdgesWithout(ids))
    <2>1. Retargeted(EdgesWithout(ids), edges, T)
      BY <1>1, <1>2 DEF Retargeted
    <2>2. Keyed(edges)
      BY DEF OnceInv, EdgesOnce
    <2> QED BY <2>1, <2>2, KeyKept
  <1>4. \A e \in EdgesWithout(ids) : e.stamp <= stamp
    BY <1>2 DEF SameEdge, OnceInv, RowsOnce
  <1>5. ASSUME NEW f \in EdgesWithout(ids)
        PROVE  \E r \in rows \ gone : r.id = f.from /\ f.use \in Uses[r.sym]
    <2>1. PICK e \in edges : e.from \notin ids /\ SameEdge(f, e)
      BY <1>2
    <2>2. PICK r \in rows : r.id = e.from /\ e.use \in Uses[r.sym]
      BY DEF OnceInv, EdgesOnce
    <2> QED BY <1>i, <2>1, <2>2 DEF SameEdge, SameUse
  <1>6. ASSUME NEW r \in rows \ gone, HasEdges(r), NEW u \in Uses[r.sym]
        PROVE  \E e \in EdgesWithout(ids) : e.from = r.id /\ e.use = u
    <2>1. PICK e \in edges : e.from = r.id /\ e.use = u
      BY <1>6 DEF HasEdges
    <2>2. r.id \notin ids
      BY DEF IdsOfRows, EdgeInv, IdsApart
    <2>3. \E f \in EdgesWithout(ids) : SameEdge(f, e)
      BY <1>t, <2>1, <2>2, DeletionMaps
    <2> QED BY <2>1, <2>3 DEF SameEdge, SameUse
  <1> QED BY <1>3, <1>4, <1>5, <1>6

----------------------------------------------------------------------------
(* OnceInv, action by action. *)

\* A step that leaves the tables alone and starts no phase of a rewrite but the first.
LEMMA TablesAloneOnce ==
  ASSUME OnceInv, UNCHANGED <<rows, edges, stamp>>, links' = links \/ links' = {},
         place' \notin {"insert", "repoint", "store"},
         cut \subseteq cut', place \in {"repoint", "store"} => path \in cut'
  PROVE  OnceInv'
  <1>1. RowsOnce' /\ EdgesOnce' /\ LinksOnce'
    BY DEF OnceInv, RowsOnce, EdgesOnce, LinksOnce
  <1>2. EdgesThere'
    BY DEF OnceInv, EdgesThere, HasEdges, Inserted
  <1> QED BY <1>1, <1>2 DEF OnceInv

LEMMA DeleteFileOnce ==
  ASSUME EdgeInv, OnceInv, NEW p \in Paths, DeleteFileRows(p)
  PROVE  OnceInv'
  <1> DEFINE dead == {q \in rows : q.file = p}
  <1>1. /\ edges' = EdgesWithout(IdsOfRows(dead)) /\ rows' = rows \ dead /\ dead \in SUBSET rows
        /\ place = "idle" /\ UNCHANGED <<stamp, place, links, path>> /\ cut' = cut \ {p}
    BY DEF DeleteFileRows, EdgeInv, InRun, IdsOfRows
  <1>2. \A r \in rows' : r \in rows \ dead /\ r.file # p
    BY <1>1
  <1> HIDE DEF dead
  <1>3. /\ Keyed(edges')
        /\ \A e \in edges' : e.stamp <= stamp
        /\ \A e \in edges' : \E r \in rows' : r.id = e.from /\ e.use \in Uses[r.sym]
        /\ \A r \in rows \ dead : HasEdges(r) =>
             \A u \in Uses[r.sym] : \E e \in edges' : e.from = r.id /\ e.use = u
    BY <1>1, DeletionKeepsOnce
  <1>4. RowsOnce' /\ EdgesOnce' /\ LinksOnce'
    BY <1>1, <1>2, <1>3 DEF OnceInv, RowsOnce, EdgesOnce, LinksOnce
  <1>5. EdgesThere'
    BY <1>1, <1>2, <1>3 DEF OnceInv, EdgesThere, HasEdges
  <1> QED BY <1>4, <1>5 DEF OnceInv

\* Rows of one name go or stay together, so the symbols remembered and in the new content are
\* the same after the delete as before, and nothing is stale any more.
LEMMA DropLeavesUnchanged ==
  ASSUME DeleteStale
  PROVE  Unchanged' = Unchanged /\ StaleRows' = {}
  <1>1. rows' = rows \ StaleRows /\ UNCHANGED <<path, content>>
    BY DEF DeleteStale
  <1>2. ASSUME NEW r \in rows, NEW q \in rows, r.file = path, q.sym.qn = r.sym.qn,
               r \notin StaleRows
        PROVE  q \notin StaleRows
    BY <1>2 DEF StaleRows
  <1>3. Unchanged' \subseteq Unchanged
    <2>1. SUFFICES ASSUME NEW r \in rows', r \in Remembered(path)', r.sym \in SymsOf(content[path])
                   PROVE  r.sym \in Unchanged
      BY <1>1 DEF Unchanged, Remembered
    <2>2. r \in rows /\ r.file = path /\ r \notin StaleRows
      BY <1>1, <2>1 DEF Remembered
    <2>3. \A q \in rows : q.file = path /\ q.sym.qn = r.sym.qn => q \in rows'
      BY <1>1, <1>2, <2>2
    <2>4. \A q \in rows' : q.file = path /\ q.sym.qn = r.sym.qn => ~After(q, r)
      BY <1>1, <2>1 DEF Remembered
    <2>5. r \in Remembered(path)
      BY <2>2, <2>3, <2>4 DEF Remembered
    <2> QED BY <2>1, <2>5 DEF Unchanged
  <1>4. Unchanged \subseteq Unchanged'
    <2>1. SUFFICES ASSUME NEW r \in Remembered(path), r.sym \in SymsOf(content[path])
                   PROVE  r.sym \in Unchanged'
      BY DEF Unchanged
    <2>2. r.sym \in Unchanged /\ r \in rows /\ r.file = path
      BY <2>1 DEF Unchanged, Remembered
    <2>3. r \in rows'
      BY <1>1, <2>2 DEF StaleRows
    <2>4. r \in Remembered(path)'
      BY <1>1, <2>1, <2>3 DEF Remembered
    <2> QED BY <1>1, <2>1, <2>4 DEF Unchanged
  <1>5. Unchanged' = Unchanged
    BY <1>3, <1>4
  <1>6. StaleRows' = {r \in rows' : r.file = path' /\ \A t \in Unchanged' : t.qn # r.sym.qn}
    BY DEF StaleRows
  <1>7. ASSUME NEW r \in StaleRows' PROVE FALSE
    <2>1. r \in rows' /\ r.file = path /\ \A t \in Unchanged : t.qn # r.sym.qn
      BY <1>1, <1>5, <1>6, <1>7
    <2>2. r \in rows /\ r \notin StaleRows
      BY <1>1, <2>1
    <2> QED BY <2>1, <2>2 DEF StaleRows
  <1> QED BY <1>5, <1>7

LEMMA DeleteStaleOnce ==
  ASSUME EdgeInv, OnceInv, DeleteStale
  PROVE  OnceInv'
  <1>1. /\ edges' = EdgesWithout(IdsOfRows(StaleRows))
        /\ rows' = rows \ StaleRows /\ StaleRows \in SUBSET rows
        /\ links' = PointingAt(StaleRows \cap Remembered(path))
        /\ place = "drop" /\ place' = "insert" /\ UNCHANGED <<content, stamp, path, cut>>
    BY DEF DeleteStale, StaleRows, IdsOfRows
  <1>2. /\ Keyed(edges')
        /\ \A e \in edges' : e.stamp <= stamp
        /\ \A e \in edges' : \E r \in rows' : r.id = e.from /\ e.use \in Uses[r.sym]
        /\ \A r \in rows \ StaleRows : HasEdges(r) =>
             \A u \in Uses[r.sym] : \E e \in edges' : e.from = r.id /\ e.use = u
    BY <1>1, DeletionKeepsOnce
  <1>3. RowsOnce'
    BY <1>1, <1>2, DropLeavesUnchanged DEF OnceInv, RowsOnce
  <1>4. EdgesOnce' /\ LinksOnce'
    <2>1. EdgesOnce'
      BY <1>1, <1>2 DEF OnceInv, EdgesOnce
    <2>2. ASSUME NEW k \in links', NEW l \in links', SameUse(k.edge, l.edge) PROVE k = l
      <3>1. /\ k \in [edge : edges, row : rows] /\ k.edge.to = k.row.id
            /\ l \in [edge : edges, row : rows] /\ l.edge.to = l.row.id
        BY <1>1 DEF PointingAt
      <3>2. k.edge = l.edge
        BY <2>2, <3>1 DEF OnceInv, EdgesOnce, Keyed
      <3>3. k.row = l.row
        BY <3>1, <3>2 DEF EdgeInv, IdsApart
      <3> QED BY <3>1, <3>2, <3>3
    <2> QED BY <2>1, <2>2 DEF LinksOnce
  <1>5. EdgesThere'
    BY <1>1, <1>2 DEF OnceInv, EdgesThere, HasEdges
  <1> QED BY <1>3, <1>4, <1>5 DEF OnceInv

\* After the insert every name of the new content has a row, and every row of the file the
\* name of a symbol of it.
LEMMA InsertedRows ==
  ASSUME EdgeInv, OnceInv, InsertRows
  PROVE  /\ rows \subseteq rows' /\ stamp \in Nat
         /\ \A r \in rows' \ rows : r \in NewRows /\ r \in Inserted'
         /\ \A r \in Inserted' : r \in NewRows
         /\ \A s \in SymsOf(content[path]) \ Unchanged : \E r \in Inserted' : r.sym = s
         /\ \A s \in SymsOf(content[path]) : \E r \in rows' : r.file = path /\ r.sym = s
         /\ \A r \in rows' : r.file = path => \E s \in SymsOf(content[path]) : s.qn = r.sym.qn
  <1>1. rows' = rows \cup NewRows /\ stamp' = stamp + 1 /\ path' = path /\ place = "insert"
    BY DEF InsertRows
  <1>2. /\ stamp \in Nat
        /\ \A r \in NewRows : /\ r.file = path /\ r.id[1] = stamp + 1
                              /\ r.sym \in SymsOf(content[path])
        /\ \A s \in SymsOf(content[path]) \ Unchanged : \E r \in NewRows : r.sym = s
    BY <1>1, NewRowsFit
  <1>3. \A r \in rows : r.id[1] \in Nat /\ r.id[1] <= stamp
    BY DEF EdgeInv, EdgesTypeOK, Row, RowId, IdsApart
  <1>4. Inserted' = NewRows
    BY <1>1, <1>2, <1>3 DEF Inserted
  <1>5. \A s \in Unchanged : \E r \in rows : r.file = path /\ r.sym = s
    BY DEF Unchanged, Remembered
  <1>6. \A r \in rows : r.file = path => \E s \in Unchanged : s.qn = r.sym.qn
    BY <1>1 DEF OnceInv, RowsOnce, StaleRows
  <1>7. Unchanged \subseteq SymsOf(content[path])
    BY DEF Unchanged
  <1> HIDE DEF Unchanged
  <1> QED BY <1>1, <1>2, <1>4, <1>5, <1>6, <1>7

LEMMA InsertOnce ==
  ASSUME EdgeInv, OnceInv, InsertRows
  PROVE  OnceInv'
  <1>1. /\ stamp' = stamp + 1 /\ place = "insert" /\ place' = "repoint"
        /\ UNCHANGED <<content, edges, path, links, cut>>
    BY DEF InsertRows
  <1>2. /\ rows \subseteq rows' /\ stamp \in Nat
        /\ \A r \in rows' \ rows : r \in Inserted'
        /\ \A r \in Inserted' : r \in NewRows
    BY InsertedRows
  <1>3. \A r \in rows : r.id[1] \in Nat /\ r.id[1] <= stamp
    BY DEF EdgeInv, EdgesTypeOK, Row, RowId, IdsApart
  <1>4. RowsOnce'
    <2>1. \A e \in edges' : e.stamp <= stamp'
      BY <1>1, <1>2 DEF OnceInv, RowsOnce, EdgeInv, EdgesTypeOK, Edge
    <2>2. \A r \in Inserted' : r.id[2] \in DOMAIN Defs[content[path]]
      BY <1>1, <1>2, NewRowsFit
    <2> QED BY <1>1, <2>1, <2>2 DEF RowsOnce
  <1>5. EdgesOnce'
    <2>1. \A e \in edges : \E r \in rows : r.id = e.from /\ e.use \in Uses[r.sym]
      BY DEF OnceInv, EdgesOnce
    <2>2. \A e \in edges : \E r \in rows' : r.id = e.from /\ e.use \in Uses[r.sym]
      BY <1>2, <2>1
    <2>3. \A e \in edges : e.from[1] # stamp + 1
      BY <1>2, <1>3, <2>1
    <2> QED BY <1>1, <2>2, <2>3 DEF OnceInv, EdgesOnce
  <1>6. EdgesThere'
    <2>1. \A r \in rows : HasEdges(r) \/ r.file \in cut
      BY <1>1 DEF OnceInv, EdgesThere
    <2>2. \A r \in rows' : HasEdges(r)' \/ r.file \in cut' \/ r \in Inserted'
      BY <1>1, <1>2, <2>1 DEF HasEdges
    <2> QED BY <1>1, <2>2 DEF EdgesThere
  <1> QED BY <1>1, <1>4, <1>5, <1>6 DEF OnceInv, LinksOnce

\* Re-pointing, edge by edge.
LEMMA RepointMaps ==
  ASSUME EdgeInv, Repoint
  PROVE  /\ Retargeted(edges', edges,
              [e \in edges |-> IF NewTarget(e) = {} THEN e.to ELSE OnlyId(NewTarget(e))])
         /\ \A e \in edges : \E f \in edges' : SameEdge(f, e)
  <1> DEFINE T == [e \in edges |-> IF NewTarget(e) = {} THEN e.to ELSE OnlyId(NewTarget(e))]
  <1>1. edges' = {IF NewTarget(e) = {} THEN e ELSE [e EXCEPT !.to = OnlyId(NewTarget(e))]
                    : e \in edges}
    BY DEF Repoint
  <1>t. edges \subseteq Edge
    BY DEF EdgeInv, EdgesTypeOK
  <1>2. edges' \subseteq Edge
    BY RepointKeeps DEF EdgeInv, EdgesTypeOK
  <1>3. ASSUME NEW f \in edges'
        PROVE  \E e \in edges : SameEdge(f, e) /\ f.to = T[e]
    <2>1. PICK e \in edges : f = IF NewTarget(e) = {} THEN e
                                 ELSE [e EXCEPT !.to = OnlyId(NewTarget(e))]
      BY <1>1
    <2> QED BY <1>t, <2>1 DEF Edge, SameEdge, SameUse
  <1>4. ASSUME NEW e \in edges
        PROVE  \E f \in edges' : SameEdge(f, e)
    <2>1. (IF NewTarget(e) = {} THEN e ELSE [e EXCEPT !.to = OnlyId(NewTarget(e))]) \in edges'
      BY <1>1
    <2> QED BY <1>t, <2>1 DEF Edge, SameEdge, SameUse
  <1> QED BY <1>2, <1>3, <1>4 DEF Retargeted

\* Resolving, edge by edge.
LEMMA ResolveMaps ==
  ASSUME EdgeInv, ResolveAll
  PROVE  \E pick :
           /\ Retargeted(edges', edges, pick)
           /\ \A e \in edges :
                pick[e] \in IF e.to # NoName \/ GlobalMatches(e.use) = {} THEN {e.to}
                            ELSE {r.id : r \in GlobalMatches(e.use)}
           /\ \A e \in edges : \E f \in edges' : SameEdge(f, e)
  <1>1. PICK pick \in [edges -> {r.id : r \in rows} \cup {NoName}] :
          /\ \A e \in edges :
               pick[e] \in IF e.to # NoName \/ GlobalMatches(e.use) = {} THEN {e.to}
                           ELSE {r.id : r \in GlobalMatches(e.use)}
          /\ edges' = {[e EXCEPT !.to = pick[e]] : e \in edges}
    BY DEF ResolveAll
  <1>t. edges \subseteq Edge
    BY DEF EdgeInv, EdgesTypeOK
  <1>2. edges' \subseteq Edge
    BY ResolveKeeps DEF EdgeInv, EdgesTypeOK
  <1>3. \A f \in edges' : \E e \in edges : SameEdge(f, e) /\ f.to = pick[e]
    BY <1>1, <1>t DEF Edge, SameEdge, SameUse
  <1>4. ASSUME NEW e \in edges
        PROVE  \E f \in edges' : SameEdge(f, e)
    <2>1. [e EXCEPT !.to = pick[e]] \in edges'
      BY <1>1
    <2> QED BY <1>t, <2>1 DEF Edge, SameEdge, SameUse
  <1>5. Retargeted(edges', edges, pick)
    BY <1>2, <1>3 DEF Retargeted
  <1> QED BY <1>1, <1>4, <1>5

\* A step that only gives edges other targets.
LEMMA RetargetOnce ==
  ASSUME EdgeInv, OnceInv, NEW T, Retargeted(edges', edges, T),
         \A e \in edges : \E f \in edges' : SameEdge(f, e),
         UNCHANGED <<rows, stamp, cut, content>>, links' = links \/ links' = {},
         \/ place' \notin {"insert", "repoint", "store"} /\ place \notin {"repoint", "store"}
         \/ place' = "store" /\ place = "repoint" /\ path' = path
  PROVE  OnceInv'
  <1>1. \A f \in edges' : \E e \in edges : SameEdge(f, e)
    BY DEF Retargeted
  <1>2. Keyed(edges')
    BY KeyKept DEF OnceInv, EdgesOnce
  <1>3. RowsOnce' /\ LinksOnce'
    BY <1>1 DEF OnceInv, RowsOnce, LinksOnce, SameEdge, Inserted
  <1>4. EdgesOnce'
    BY <1>1, <1>2 DEF OnceInv, EdgesOnce, SameEdge, SameUse
  <1>5. EdgesThere'
    <2>1. \A r \in rows : HasEdges(r) => HasEdges(r)'
      BY DEF HasEdges, SameEdge, SameUse
    <2> QED BY <2>1 DEF OnceInv, EdgesThere, Inserted
  <1> QED BY <1>3, <1>4, <1>5 DEF OnceInv

\* What StoreEdges adds.
LEMMA StoredEdges ==
  ASSUME EdgeInv, StoreEdges
  PROVE  /\ edges \subseteq edges'
         /\ \A e \in edges' \ edges :
              /\ \E r \in Inserted : e.from = r.id /\ e.use \in Uses[r.sym]
              /\ e.to = LocalMatch(e.use) /\ e.stamp = stamp + 1
              /\ e \in Edge
         /\ \A r \in Inserted : \A u \in Uses[r.sym] : \E e \in edges' : e.from = r.id /\ e.use = u
  <1> DEFINE of(r) == {[from |-> r.id, use |-> u, to |-> LocalMatch(u), stamp |-> stamp + 1]
                         : u \in Uses[r.sym]}
  <1>1. edges' = edges \cup UNION {of(r) : r \in Inserted}
    BY DEF StoreEdges
  <1>2. edges' \subseteq Edge
    BY StoreKeeps DEF EdgeInv, EdgesTypeOK
  <1>3. ASSUME NEW e \in edges' \ edges
        PROVE  /\ \E r \in Inserted : e.from = r.id /\ e.use \in Uses[r.sym]
               /\ e.to = LocalMatch(e.use) /\ e.stamp = stamp + 1
    <2>1. PICK r \in Inserted : e \in of(r)
      BY <1>1
    <2>2. PICK u \in Uses[r.sym] :
            e = [from |-> r.id, use |-> u, to |-> LocalMatch(u), stamp |-> stamp + 1]
      BY <2>1
    <2> QED BY <2>2
  <1>4. ASSUME NEW r \in Inserted, NEW u \in Uses[r.sym]
        PROVE  \E e \in edges' : e.from = r.id /\ e.use = u
    <2>1. [from |-> r.id, use |-> u, to |-> LocalMatch(u), stamp |-> stamp + 1] \in edges'
      BY <1>1
    <2> QED BY <2>1
  <1> QED BY <1>1, <1>2, <1>3, <1>4

LEMMA StoreOnce ==
  ASSUME EdgeInv, OnceInv, StoreEdges
  PROVE  OnceInv'
  <1>1. /\ stamp' = stamp + 1 /\ stamp \in Nat /\ place = "store" /\ place' = "next"
        /\ UNCHANGED <<content, rows, links, cut>>
    BY DEF StoreEdges, EdgeInv, EdgesTypeOK
  <1>2. \A e \in edges' \ edges :
          /\ \E r \in Inserted : e.from = r.id /\ e.use \in Uses[r.sym]
          /\ e.to = LocalMatch(e.use) /\ e.stamp = stamp + 1 /\ e \in Edge
    BY StoredEdges
  <1>3. \A e \in edges : e.from[1] # stamp /\ e \in Edge
    BY <1>1 DEF OnceInv, EdgesOnce, EdgeInv, EdgesTypeOK
  <1>4. \A e \in edges' \ edges : e.from[1] = stamp
    BY <1>2 DEF Inserted
  <1>5. Keyed(edges')
    <2>1. SUFFICES ASSUME NEW d \in edges', NEW e \in edges', SameUse(d, e) PROVE d = e
      BY DEF Keyed
    <2>2. CASE d \in edges /\ e \in edges
      BY <2>1, <2>2 DEF OnceInv, EdgesOnce, Keyed
    <2>3. CASE d \notin edges /\ e \notin edges
      <3>1. d.from = e.from /\ d.use = e.use /\ d.to = e.to /\ d.stamp = e.stamp
        BY <1>2, <2>1, <2>3 DEF SameUse
      <3> QED BY <1>2, <2>3, <3>1 DEF Edge
    <2> QED BY <1>3, <1>4, <2>1, <2>2, <2>3 DEF SameUse
  <1>6. RowsOnce'
    <2>1. \A e \in edges' : e.stamp <= stamp'
      BY <1>1, <1>2, <1>3 DEF OnceInv, RowsOnce, Edge
    <2> QED BY <1>1, <2>1 DEF RowsOnce
  <1>7. EdgesOnce'
    BY <1>1, <1>2, <1>5 DEF OnceInv, EdgesOnce, Inserted
  <1>8. EdgesThere'
    <2>1. \A r \in rows : HasEdges(r) => HasEdges(r)'
      BY StoredEdges DEF HasEdges
    <2>2. \A r \in Inserted : HasEdges(r)'
      BY StoredEdges DEF HasEdges
    <2> QED BY <1>1, <2>1, <2>2 DEF OnceInv, EdgesThere
  <1> QED BY <1>1, <1>6, <1>7, <1>8 DEF OnceInv, LinksOnce

LEMMA OnceStep == EdgeInv /\ OnceInv /\ [EdgesNext]_edgeVars => OnceInv'
  <1> SUFFICES ASSUME EdgeInv, OnceInv, [EdgesNext]_edgeVars PROVE OnceInv'
    OBVIOUS
  <1>1. CASE UNCHANGED edgeVars
    BY <1>1 DEF edgeVars, OnceInv, RowsOnce, EdgesOnce, EdgesThere, LinksOnce, HasEdges, Inserted,
                StaleRows, Unchanged, Remembered
  <1>2. ASSUME NEW p \in Paths, DeleteFileRows(p) PROVE OnceInv'
    BY <1>2, DeleteFileOnce
  <1>3. ASSUME NEW p \in Paths, NEW t \in Texts, Save(p, t) PROVE OnceInv'
    BY <1>3, TablesAloneOnce DEF Save, EdgeInv, InRun
  <1>4. ASSUME NEW kind, NEW set, StartRewrite(kind, set) PROVE OnceInv'
    BY <1>4, TablesAloneOnce DEF StartRewrite, EdgeInv, InRun
  <1>6. ASSUME NEW p \in Paths, BeginFile(p) PROVE OnceInv'
    BY <1>6, TablesAloneOnce DEF BeginFile
  <1>7. CASE DeleteStale
    BY <1>7, DeleteStaleOnce
  <1>8. CASE InsertRows
    BY <1>8, InsertOnce
  <1>9. CASE Repoint
    BY <1>9, RepointMaps, RetargetOnce DEF Repoint
  <1>10. CASE StoreEdges
    BY <1>10, StoreOnce
  <1>11. CASE EndSingle
    BY <1>11, TablesAloneOnce DEF EndSingle
  <1>12. CASE KillRewrite
    <2>1. place \in {"repoint", "store"} => path \in cut'
      BY <1>12, EdgeNames DEF KillRewrite, EdgeInv, InRun
    <2> QED BY <1>12, <2>1, TablesAloneOnce DEF KillRewrite
  <1>13. CASE ResolveAll
    <2>1. PICK pick : /\ Retargeted(edges', edges, pick)
                      /\ \A e \in edges : \E f \in edges' : SameEdge(f, e)
      BY <1>13, ResolveMaps
    <2> QED BY <1>13, <2>1, RetargetOnce DEF ResolveAll
  <1> QED
    BY <1>1, <1>2, <1>3, <1>4, <1>6, <1>7, <1>8, <1>9, <1>10, <1>11, <1>12, <1>13 DEF EdgesNext

LEMMA OnceInvariant == EdgesSpec => []OnceInv
  <1>1. EdgesInit => OnceInv
    BY DEF EdgesInit, OnceInv, RowsOnce, EdgesOnce, EdgesThere, LinksOnce, Keyed
  <1> QED BY <1>1, OnceStep, EdgeInvariant, PTL DEF EdgesSpec

\* Over any sequence of rewrites, deletions and kills, a symbol of a file that was never cut
\* has each edge of its body exactly once.
THEOREM EdgesNeitherLostNorDoubled == EdgesSpec => []EdgesStoredOnce
  <1>1. OnceInv /\ EdgeInv => EdgesStoredOnce
    <2> SUFFICES ASSUME OnceInv, EdgeInv, NEW r \in rows, r.file \notin cut \cup {path},
                        NEW u \in Use
                 PROVE  Cardinality({e \in edges : e.from = r.id /\ e.use = u})
                          = IF u \in Uses[r.sym] THEN 1 ELSE 0
      BY DEF EdgesStoredOnce
    <2> DEFINE S == {e \in edges : e.from = r.id /\ e.use = u}
    <2>1. CASE u \in Uses[r.sym]
      <3>1. HasEdges(r)
        BY DEF OnceInv, EdgesThere, Inserted
      <3>2. PICK e \in edges : e.from = r.id /\ e.use = u
        BY <2>1, <3>1 DEF HasEdges
      <3>3. S = {e}
        BY <3>2 DEF OnceInv, EdgesOnce, Keyed, SameUse
      <3> QED BY <2>1, <3>3, FS_Singleton
    <2>2. CASE u \notin Uses[r.sym]
      <3>1. S = {}
        BY <2>2 DEF OnceInv, EdgesOnce, EdgeInv, IdsApart
      <3> QED BY <2>2, <3>1, FS_EmptySet
    <2> QED BY <2>1, <2>2
  <1> QED BY <1>1, OnceInvariant, EdgeInvariant, PTL

----------------------------------------------------------------------------
(* LinkedInv, action by action. *)

\* Deleting the stale rows notes the edges into the remembered ones and leaves the others
\* untouched.
LEMMA DeleteStaleLinked ==
  ASSUME EdgeInv, OnceInv, LinkedInv, DeleteStale
  PROVE  LinkedInv'
  <1> DEFINE ids == IdsOfRows(StaleRows)
  <1>1. /\ edges' = EdgesWithout(ids) /\ rows' = rows \ StaleRows
        /\ links' = PointingAt(StaleRows \cap Remembered(path))
        /\ place = "drop" /\ place' = "insert" /\ UNCHANGED <<stamp, path, linked>>
    BY DEF DeleteStale, StaleRows, IdsOfRows
  <1>2. \A f \in edges' : \E e \in edges :
          /\ SameEdge(f, e) /\ f.to = IF e.to \in ids THEN NoName ELSE e.to
    BY <1>1, DeletionMaps DEF EdgeInv, EdgesTypeOK
  <1>3. ASSUME NEW l \in linked, NEW f \in edges', SameEdge(f, l.edge)
        PROVE  Noted(l)' \/ Untouched(l, f)'
    <2>1. /\ l \in PointingAt(Remembered(path)) /\ l.edge \in edges
          /\ l.row \in Remembered(path) /\ l.edge.to = l.row.id
      BY <1>1 DEF LinkedInv, PointingAt
    <2>2. l.row \in rows /\ l.row.file = path
      BY <2>1 DEF Remembered
    <2>3. f.to = IF l.edge.to \in ids THEN NoName ELSE l.edge.to
      <3>1. PICK e \in edges :
              SameEdge(f, e) /\ f.to = IF e.to \in ids THEN NoName ELSE e.to
        BY <1>2
      <3>2. e = l.edge
        BY <1>3, <2>1, <3>1 DEF OnceInv, EdgesOnce, Keyed, SameEdge, SameUse
      <3> QED BY <3>1, <3>2
    <2>4. CASE l.row \in StaleRows
      <3>1. l \in links'
        BY <1>1, <2>1, <2>4 DEF PointingAt
      <3>2. \A q \in rows' : ~Namesake(l, q)
        BY <1>1, <2>2, <2>4 DEF StaleRows, Namesake
      <3> QED BY <1>1, <3>1, <3>2 DEF Noted, Namesake
    <2>5. CASE l.row \notin StaleRows
      <3>1. l.edge.to \notin ids
        BY <2>1, <2>2, <2>5 DEF IdsOfRows, EdgeInv, IdsApart, StaleRows
      <3>2. \A k \in links' : ~SameEdge(k.edge, f)
        <4>1. SUFFICES ASSUME NEW k \in links', SameEdge(k.edge, f) PROVE FALSE
          OBVIOUS
        <4>2. k.edge \in edges /\ k.row \in StaleRows /\ k.edge.to = k.row.id
          BY <1>1 DEF PointingAt
        <4>3. k.edge = l.edge
          BY <1>3, <2>1, <4>1, <4>2 DEF OnceInv, EdgesOnce, Keyed, SameEdge, SameUse
        <4> QED BY <3>1, <4>2, <4>3 DEF IdsOfRows
      <3>3. l.row \in rows' /\ f.to = l.row.id
        BY <1>1, <2>1, <2>2, <2>3, <2>5, <3>1
      <3> QED BY <1>1, <3>2, <3>3 DEF Untouched, Namesake
    <2> QED BY <2>4, <2>5
  <1> QED BY <1>1, <1>3 DEF LinkedInv

\* The rows inserted may bring back the names of the deleted ones.
LEMMA InsertLinked ==
  ASSUME EdgeInv, OnceInv, LinkedInv, InsertRows
  PROVE  LinkedInv'
  <1>1. /\ stamp' = stamp + 1 /\ place = "insert" /\ place' = "repoint"
        /\ UNCHANGED <<edges, path, links, linked>>
    BY DEF InsertRows
  <1>2. rows \subseteq rows' /\ (\A r \in rows' \ rows : r \in Inserted') /\ stamp \in Nat
    BY InsertedRows
  <1>3. ASSUME NEW l \in linked, NEW e \in edges, SameEdge(e, l.edge)
        PROVE  Noted(l)' \/ Untouched(l, e)'
    <2>1. CASE Noted(l)
      <3>1. \A r \in rows : ~Namesake(l, r)
        BY <1>1, <2>1 DEF Noted
      <3> QED BY <1>1, <1>2, <2>1, <3>1 DEF Noted, Namesake
    <2>2. CASE Untouched(l, e)
      BY <1>1, <1>2, <2>2 DEF Untouched, Namesake
    <2> QED BY <1>1, <1>3, <2>1, <2>2 DEF LinkedInv
  <1>4. \A l \in linked : l.edge.stamp <= stamp'
    BY <1>1, <1>2 DEF LinkedInv, Edge
  <1> QED BY <1>1, <1>3, <1>4 DEF LinkedInv

\* Re-pointing sends a noted edge to a row that has the name of its target.
LEMMA RepointLinked ==
  ASSUME EdgeInv, OnceInv, LinkedInv, Repoint
  PROVE  LinkedInv'
  <1> DEFINE T == [e \in edges |-> IF NewTarget(e) = {} THEN e.to ELSE OnlyId(NewTarget(e))]
  <1>1. /\ place = "repoint" /\ place' = "store" /\ UNCHANGED <<rows, stamp, path, linked>>
    BY DEF Repoint
  <1>2. \A f \in edges' : \E e \in edges : SameEdge(f, e) /\ f.to = T[e]
    BY RepointMaps DEF Retargeted
  <1>3. ASSUME NEW l \in linked, NEW f \in edges', SameEdge(f, l.edge)
        PROVE  Followed(l, f)'
    <2>1. PICK e \in edges : SameEdge(f, e) /\ f.to = T[e]
      BY <1>2
    <2>2. SameEdge(e, l.edge) /\ l.row.file = path
      BY <1>1, <1>3, <2>1 DEF SameEdge, LinkedInv
    <2>3. SUFFICES ASSUME NEW r \in rows, Namesake(l, r)
                   PROVE  \E q \in rows : Namesake(l, q) /\ f.to = q.id
      BY <1>1 DEF Followed, Namesake
    <2>4. CASE Noted(l)
      <3>1. l \in links /\ r \in Inserted /\ r.sym.qn = l.row.sym.qn
        BY <2>3, <2>4 DEF Noted, Namesake
      <3>2. PICK q \in Inserted : q.sym.qn = l.row.sym.qn /\ NewTarget(e) = {q}
        <4>1. SameEdge(l.edge, e)
          BY <2>2 DEF SameEdge
        <4> QED BY <1>1, <3>1, <4>1, NewTargetOfNoted
      <3>3. OnlyId({q}) = q.id
        BY FS_Singleton DEF OnlyId
      <3>4. f.to = q.id
        BY <2>1, <3>2, <3>3
      <3> QED BY <2>2, <3>2, <3>4 DEF Inserted, Namesake
    <2>5. CASE Untouched(l, e)
      <3>1. NewTarget(e) = {}
        BY <2>5 DEF Untouched, NewTarget
      <3> QED BY <2>1, <2>5, <3>1 DEF Untouched
    <2> QED BY <1>1, <2>2, <2>4, <2>5 DEF LinkedInv
  <1> QED BY <1>1, <1>3 DEF LinkedInv

\* New edges are none of those that were there.
LEMMA StoreLinked ==
  ASSUME EdgeInv, LinkedInv, StoreEdges
  PROVE  LinkedInv' /\ LinksSurvive'
  <1>1. /\ stamp' = stamp + 1 /\ stamp \in Nat /\ place = "store" /\ place' = "next"
        /\ UNCHANGED <<rows, linked>>
    BY DEF StoreEdges, EdgeInv, EdgesTypeOK
  <1>2. ASSUME NEW l \in linked, NEW e \in edges', SameEdge(e, l.edge)
        PROVE  Followed(l, e)
    <2>1. l.edge.stamp <= stamp /\ l.edge.stamp \in Nat
      BY DEF LinkedInv, Edge
    <2>2. e \in edges
      BY <1>1, <1>2, <2>1, StoredEdges DEF SameEdge
    <2> QED BY <1>1, <1>2, <2>2 DEF LinkedInv
  <1>3. LinksSurvive'
    BY <1>1, <1>2 DEF LinksSurvive, Followed, Namesake, SameEdge
  <1>4. \A l \in linked : l.edge.stamp <= stamp'
    BY <1>1 DEF LinkedInv, Edge
  <1> QED BY <1>1, <1>3, <1>4 DEF LinkedInv

LEMMA LinkedStep ==
  EdgeInv /\ OnceInv /\ LinkedInv /\ LinksSurvive /\ [EdgesNext]_edgeVars
    => LinkedInv' /\ LinksSurvive'
  <1> SUFFICES ASSUME EdgeInv, OnceInv, LinkedInv, LinksSurvive, [EdgesNext]_edgeVars
               PROVE  LinkedInv' /\ LinksSurvive'
    OBVIOUS
  <1>1. CASE UNCHANGED edgeVars
    BY <1>1 DEF edgeVars, LinkedInv, LinksSurvive, Followed, Noted, Untouched, Namesake, Inserted,
                PointingAt, Remembered, SameEdge
  <1>2. ASSUME linked' = {} PROVE LinkedInv' /\ LinksSurvive'
    BY <1>2 DEF LinkedInv, LinksSurvive
  <1>3. ASSUME NEW p \in Paths, NEW t \in Texts, Save(p, t) PROVE LinkedInv' /\ LinksSurvive'
    BY <1>3 DEF Save, LinkedInv, LinksSurvive, EdgeInv, InRun
  <1>4. ASSUME NEW p \in Paths, BeginFile(p) PROVE LinkedInv' /\ LinksSurvive'
    <2>1. /\ linked' = PointingAt(Remembered(p))
          /\ path' = p /\ place' = "drop" /\ UNCHANGED <<rows, edges, stamp>>
      BY <1>4 DEF BeginFile
    <2>2. linked' = PointingAt(Remembered(path))'
      BY <2>1 DEF PointingAt, Remembered
    <2>3. \A l \in linked' : l.edge \in edges /\ l.row.file = p
      BY <2>1 DEF PointingAt, Remembered
    <2>4. \A e \in edges : e \in Edge /\ e.stamp <= stamp
      BY DEF OnceInv, RowsOnce, EdgeInv, EdgesTypeOK
    <2> QED BY <2>1, <2>2, <2>3, <2>4 DEF LinkedInv, LinksSurvive
  <1>5. CASE DeleteStale
    BY <1>5, DeleteStaleLinked DEF DeleteStale, LinksSurvive
  <1>6. CASE InsertRows
    BY <1>6, InsertLinked DEF InsertRows, LinksSurvive
  <1>7. CASE Repoint
    BY <1>7, RepointLinked DEF Repoint, LinksSurvive
  <1>8. CASE StoreEdges
    BY <1>8, StoreLinked
  <1>9. CASE EndSingle \/ ResolveAll
    BY <1>9 DEF EndSingle, ResolveAll, LinkedInv, LinksSurvive
  <1> QED
    BY <1>1, <1>2, <1>3, <1>4, <1>5, <1>6, <1>7, <1>8, <1>9
    DEF EdgesNext, DeleteFileRows, StartRewrite, KillRewrite

\* Rewriting a file re-points what pointed at its remembered rows: at the end of the rewrite an
\* edge whose caller and whose target's name are both still there points at a row of the file
\* with that name, old or new, however many rows have it.
THEOREM RewritesKeepLinks == EdgesSpec => []LinksSurvive
  <1>1. EdgesInit => LinkedInv /\ LinksSurvive
    BY DEF EdgesInit, LinkedInv, LinksSurvive
  <1> QED BY <1>1, LinkedStep, OnceInvariant, EdgeInvariant, PTL DEF EdgesSpec

----------------------------------------------------------------------------
(* ResolvedInv, action by action. *)

\* The only row of a set has its id.
LEMMA OnlyIdOfOne ==
  ASSUME NEW r \in rows, EdgeInv
  PROVE  OnlyId({r}) = r.id /\ OnlyId({r}) # NoName
  <1>1. OnlyId({r}) = r.id
    BY FS_Singleton DEF OnlyId
  <1>2. r.id \in RowId
    BY DEF EdgeInv, EdgesTypeOK, Row
  <1> QED BY <1>1, <1>2, EdgeNames DEF RowId

\* A use that names one row is resolved as it is stored, ...
LEMMA LocalMatchFinds ==
  ASSUME EdgeInv, NEW u, OneRow(u)
  PROVE  LocalMatch(u) # NoName
  <1> DEFINE exact   == NamedExactly(u.name)
             matches == NamedExactly(u.name) \cup NamedShort(u.name)
             hinted  == {r \in matches : u.hint # NoName /\ Owner[r.sym.qn] = u.hint}
  <1>1. PICK r \in rows :
          Wants(u, r.sym.qn) /\ \A q \in rows : FitsName(u, q.sym.qn) => q = r
    BY DEF OneRow
  <1>2. matches = {r}
    BY <1>1 DEF NamedExactly, NamedShort, FitsName, Wants
  <1>3. exact \in {{}, {r}} /\ hinted \in {{}, {r}}
    BY <1>2
  <1>4. Cardinality({r}) = 1 /\ \A set : set = {} => Cardinality(set) # 1
    BY FS_Singleton, FS_EmptySet
  <1>5. LocalMatch(u) = OnlyId({r})
    <2>1. CASE exact = {r}
      BY <1>4, <2>1 DEF LocalMatch
    <2>2. CASE exact = {} /\ hinted = {r}
      BY <1>4, <2>2 DEF LocalMatch
    <2>3. CASE exact = {} /\ hinted = {}
      <3>1. Cardinality(exact) # 1 /\ Cardinality(hinted) # 1
        BY <1>4, <2>3
      <3>2. LocalMatch(u) = OnlyId(matches)
        BY <3>1 DEF LocalMatch
      <3> QED BY <1>2, <3>2
    <2> QED BY <1>3, <2>1, <2>2, <2>3
  <1> QED BY <1>5, OnlyIdOfOne

\* ... and found by the resolve passes.
LEMMA GlobalMatchFinds ==
  ASSUME NEW u, OneRow(u)
  PROVE  GlobalMatches(u) # {}
  <1>1. PICK r \in rows :
          Wants(u, r.sym.qn) /\ \A q \in rows : FitsName(u, q.sym.qn) => q = r
    BY DEF OneRow
  <1>2. CASE u.kind = "type"
    <2>1. r \in {q \in NamedShort(u.name) : q.sym.qn \in Classes}
      BY <1>1, <1>2 DEF Wants, NamedShort
    <2> QED BY <1>2, <2>1 DEF GlobalMatches
  <1>3. CASE u.kind # "type" /\ NamedExactly(u.name) = {} /\ OfOwner(u.name, u.hint) = {}
    <2>1. NamedShort(u.name) = {r}
      BY <1>1, <1>3 DEF Wants, FitsName, NamedExactly, NamedShort
    <2>2. Cardinality(NamedShort(u.name)) = 1
      BY <2>1, FS_Singleton
    <2> QED BY <1>3, <2>1, <2>2 DEF GlobalMatches
  <1> QED BY <1>2, <1>3 DEF GlobalMatches

\* The names that go come back, so the links wait for new symbols.
LEMMA DeleteStaleResolved ==
  ASSUME EdgeInv, OnceInv, ResolvedInv, DeleteStale
  PROVE  ResolvedInv'
  <1> DEFINE ids == IdsOfRows(StaleRows)
  <1>1. /\ edges' = EdgesWithout(ids) /\ rows' = rows \ StaleRows
        /\ links' = PointingAt(StaleRows \cap Remembered(path))
        /\ place = "drop" /\ place' = "insert" /\ UNCHANGED <<content, path, resolved>>
    BY DEF DeleteStale, StaleRows, IdsOfRows
  <1> SUFFICES ASSUME resolved PROVE ResolvedInv'
    BY <1>1, Zenon DEF ResolvedInv
  <1>2. /\ OneOfEachName(path) /\ NamesIn(path) = {s.qn : s \in SymsOf(content[path])}
        /\ \A e \in edges : OneRow(e.use) => e.to # NoName
    BY <1>1 DEF ResolvedInv
  <1>3. \A r \in StaleRows : r \in rows /\ r.file = path /\ r \in Remembered(path)
    <2>1. SUFFICES ASSUME NEW r \in StaleRows, NEW q \in rows, q.file = path, q.sym.qn = r.sym.qn
                   PROVE  ~After(q, r)
      BY DEF StaleRows, Remembered
    <2>2. q = r
      BY <1>2, <2>1 DEF OneOfEachName, StaleRows
    <2>3. r.id[1] \in Nat /\ r.id[2] \in Nat
      BY DEF StaleRows, EdgeInv, EdgesTypeOK, Row, RowId
    <2> QED BY <2>2, <2>3 DEF After
  <1>4. ASSUME NEW k \in links'
        PROVE  \E s \in SymsOf(content[path]) \ Unchanged : s.qn = k.row.sym.qn
    <2>1. k.row \in StaleRows
      BY <1>1 DEF PointingAt
    <2>2. k.row.sym.qn \in NamesIn(path)
      BY <1>3, <2>1 DEF NamesIn
    <2>3. PICK s \in SymsOf(content[path]) : s.qn = k.row.sym.qn
      BY <1>2, <2>2
    <2>4. s \notin Unchanged
      BY <2>1, <2>3 DEF StaleRows
    <2> QED BY <2>3, <2>4
  <1>5. ASSUME NEW u, OneComing(u)' PROVE OneRow(u)
    <2>1. PICK p \in Coming' : Wants(u, p[1]) /\ \A q \in Coming' : FitsName(u, q[1]) => q = p
      BY <1>5 DEF OneComing
    <2>2. \A r \in rows : r.file # path => <<r.sym.qn, r.id>> \in Coming'
      BY <1>1, <1>3 DEF Coming
    <2>3. \A r \in rows : r.file = path => <<r.sym.qn, NoName>> \in Coming'
      <3>1. SUFFICES ASSUME NEW r \in rows, r.file = path
                     PROVE  <<r.sym.qn, NoName>> \in Coming'
        OBVIOUS
      <3>2. r.sym.qn \in NamesIn(path)
        BY <3>1 DEF NamesIn
      <3>3. PICK s \in SymsOf(content[path]) : s.qn = r.sym.qn
        BY <1>2, <3>2
      <3> QED BY <1>1, <3>3 DEF Coming
    <2>4. \A r \in rows : r.id # NoName
      BY EdgeNames DEF EdgeInv, EdgesTypeOK, Row, RowId
    <2>5. ASSUME NEW r \in rows, r.file # path, p = <<r.sym.qn, r.id>>
          PROVE  OneRow(u)
      <3>1. ASSUME NEW q \in rows, FitsName(u, q.sym.qn) PROVE q = r
        <4>1. CASE q.file = path
          BY <2>1, <2>3, <2>4, <2>5, <3>1, <4>1
        <4>2. CASE q.file # path
          <5>1. q.id = r.id
            BY <2>1, <2>2, <2>5, <3>1, <4>2
          <5> QED BY <5>1 DEF EdgeInv, IdsApart
        <4> QED BY <4>1, <4>2
      <3> QED BY <2>1, <2>5, <3>1 DEF OneRow
    <2>6. ASSUME NEW s \in SymsOf(content[path]), p = <<s.qn, NoName>>
          PROVE  OneRow(u)
      <3>1. s.qn \in NamesIn(path)
        BY <1>2
      <3>2. PICK r \in rows : r.file = path /\ r.sym.qn = s.qn
        BY <3>1 DEF NamesIn
      <3>3. ASSUME NEW q \in rows, FitsName(u, q.sym.qn) PROVE q = r
        <4>1. CASE q.file = path
          <5>1. q.sym.qn = s.qn
            BY <2>1, <2>3, <2>6, <3>3, <4>1
          <5> QED BY <1>2, <3>2, <4>1, <5>1 DEF OneOfEachName
        <4>2. CASE q.file # path
          BY <2>1, <2>2, <2>4, <2>6, <3>3, <4>2
        <4> QED BY <4>1, <4>2
      <3> QED BY <2>1, <2>6, <3>2, <3>3 DEF OneRow
    <2>7. \/ \E r \in rows' : r.file # path /\ p = <<r.sym.qn, r.id>>
          \/ \E s \in SymsOf(content[path]) : p = <<s.qn, NoName>>
      BY <1>1 DEF Coming
    <2> QED BY <1>1, <2>5, <2>6, <2>7
  <1>6. ASSUME NEW f \in edges', OneComing(f.use)'
        PROVE  f.to # NoName \/ IsNoted(f)'
    <2>1. PICK e \in edges : SameEdge(f, e) /\ f.to = IF e.to \in ids THEN NoName ELSE e.to
      BY <1>1, DeletionMaps DEF EdgeInv, EdgesTypeOK
    <2>2. e.use = f.use
      BY <2>1 DEF SameEdge
    <2>3. OneRow(f.use)
      BY <1>5, <1>6
    <2>4. e.to # NoName
      BY <1>2, <2>2, <2>3
    <2>5. CASE e.to \in ids
      <3>1. PICK r \in StaleRows : e.to = r.id
        BY <2>5 DEF IdsOfRows
      <3>2. [edge |-> e, row |-> r] \in links'
        BY <1>1, <1>3, <3>1 DEF PointingAt
      <3> QED BY <2>1, <3>2 DEF IsNoted, SameEdge
    <2> QED BY <2>1, <2>4, <2>5
  <1>7. Unchanged' = Unchanged
    BY DropLeavesUnchanged
  <1> HIDE DEF ids
  <1> QED BY <1>1, <1>4, <1>6, <1>7 DEF ResolvedInv

\* After the insert the names are those that were coming.
LEMMA InsertResolved ==
  ASSUME EdgeInv, OnceInv, ResolvedInv, InsertRows
  PROVE  ResolvedInv'
  <1>1. /\ place = "insert" /\ place' = "repoint"
        /\ UNCHANGED <<content, edges, path, links, resolved>>
    BY DEF InsertRows
  <1> SUFFICES ASSUME resolved PROVE ResolvedInv'
    BY <1>1, Zenon DEF ResolvedInv
  <1>2. /\ \A k \in links : \E s \in SymsOf(content[path]) \ Unchanged : s.qn = k.row.sym.qn
        /\ \A e \in edges : OneComing(e.use) => e.to # NoName \/ IsNoted(e)
    BY <1>1 DEF ResolvedInv
  <1>3. /\ rows \subseteq rows'
        /\ \A r \in rows' \ rows : r \in Inserted'
        /\ \A s \in SymsOf(content[path]) : \E r \in rows' : r.file = path /\ r.sym = s
        /\ \A r \in rows' : r.file = path => \E s \in SymsOf(content[path]) : s.qn = r.sym.qn
    BY InsertedRows
  <1>4. ASSUME NEW u, OneRow(u)' PROVE OneComing(u)
    <2>1. PICK r \in rows' : Wants(u, r.sym.qn) /\ \A q \in rows' : FitsName(u, q.sym.qn) => q = r
      BY <1>4 DEF OneRow
    <2>2. ASSUME NEW x \in Coming, FitsName(u, x[1])
          PROVE  /\ r.file # path => x = <<r.sym.qn, r.id>>
                 /\ r.file = path => x = <<r.sym.qn, NoName>>
      <3>1. CASE \E q \in rows : q.file # path /\ x = <<q.sym.qn, q.id>>
        BY <1>3, <2>1, <2>2, <3>1
      <3>2. CASE \E s \in SymsOf(content[path]) : x = <<s.qn, NoName>>
        <4>1. PICK s \in SymsOf(content[path]) : x = <<s.qn, NoName>>
          BY <3>2
        <4>2. PICK q \in rows' : q.file = path /\ q.sym = s
          BY <1>3
        <4>3. q = r
          BY <2>1, <2>2, <4>1, <4>2
        <4> QED BY <4>1, <4>2, <4>3
      <3> QED BY <3>1, <3>2 DEF Coming
    <2>3. CASE r.file # path
      <3>1. r \in rows
        BY <1>1, <1>3, <2>3 DEF Inserted
      <3>2. <<r.sym.qn, r.id>> \in Coming
        BY <2>3, <3>1 DEF Coming
      <3> QED BY <2>1, <2>2, <2>3, <3>2 DEF OneComing
    <2>4. CASE r.file = path
      <3>1. PICK s \in SymsOf(content[path]) : s.qn = r.sym.qn
        BY <1>3, <2>4
      <3>2. <<r.sym.qn, NoName>> \in Coming
        BY <3>1 DEF Coming
      <3> QED BY <2>1, <2>2, <2>4, <3>2 DEF OneComing
    <2> QED BY <2>3, <2>4
  <1>5. \A k \in links : \E r \in Inserted' : r.sym.qn = k.row.sym.qn
    <2>1. \A s \in SymsOf(content[path]) \ Unchanged : \E r \in Inserted' : r.sym = s
      BY InsertedRows
    <2> QED BY <1>2, <2>1
  <1>6. \A e \in edges' : OneRow(e.use)' => e.to # NoName \/ IsNoted(e)'
    BY <1>1, <1>2, <1>4 DEF IsNoted
  <1> QED BY <1>1, <1>5, <1>6 DEF ResolvedInv

\* Every noted edge finds its target's new row.
LEMMA RepointResolved ==
  ASSUME EdgeInv, OnceInv, ResolvedInv, Repoint
  PROVE  ResolvedInv'
  <1> DEFINE T == [e \in edges |-> IF NewTarget(e) = {} THEN e.to ELSE OnlyId(NewTarget(e))]
  <1>1. /\ place = "repoint" /\ place' = "store" /\ UNCHANGED <<rows, resolved>>
    BY DEF Repoint
  <1>2. \A f \in edges' : \E e \in edges : SameEdge(f, e) /\ f.to = T[e]
    BY RepointMaps DEF Retargeted
  <1> SUFFICES ASSUME resolved PROVE ResolvedInv'
    BY <1>1, Zenon DEF ResolvedInv
  <1>3. /\ \A k \in links : \E r \in Inserted : r.sym.qn = k.row.sym.qn
        /\ \A e \in edges : OneRow(e.use) => e.to # NoName \/ IsNoted(e)
    BY <1>1 DEF ResolvedInv
  <1>4. ASSUME NEW f \in edges', OneRow(f.use)
        PROVE  f.to # NoName
    <2>1. PICK e \in edges : SameEdge(f, e) /\ f.to = T[e]
      BY <1>2
    <2>2. e.to # NoName \/ IsNoted(e)
      BY <1>3, <1>4, <2>1 DEF SameEdge
    <2>3. CASE IsNoted(e)
      <3>1. PICK k \in links : SameEdge(k.edge, e)
        BY <2>3 DEF IsNoted
      <3>2. PICK r \in Inserted : NewTarget(e) = {r}
        BY <1>1, <1>3, <3>1, NewTargetOfNoted
      <3>3. f.to = OnlyId({r})
        BY <2>1, <3>2
      <3> QED BY <3>3, OnlyIdOfOne DEF Inserted
    <2>4. CASE ~IsNoted(e)
      <3>1. NewTarget(e) = {}
        BY <2>4 DEF NewTarget, IsNoted
      <3> QED BY <2>1, <2>2, <2>4, <3>1
    <2> QED BY <2>3, <2>4
  <1> QED BY <1>1, <1>4 DEF ResolvedInv, OneRow

LEMMA StoreResolved ==
  ASSUME EdgeInv, ResolvedInv, StoreEdges
  PROVE  ResolvedInv'
  <1>1. place = "store" /\ place' = "next" /\ UNCHANGED <<rows, resolved>>
    BY DEF StoreEdges
  <1> SUFFICES ASSUME resolved PROVE ResolvedInv'
    BY <1>1, Zenon DEF ResolvedInv
  <1>2. \A e \in edges : OneRow(e.use) => e.to # NoName
    BY <1>1 DEF ResolvedInv
  <1>3. \A e \in edges' \ edges : OneRow(e.use) => e.to # NoName
    BY StoredEdges, LocalMatchFinds
  <1> QED BY <1>1, <1>2, <1>3 DEF ResolvedInv, OneRow

\* After the resolve passes every edge that names one row is resolved, whatever was before.
LEMMA ResolveResolved ==
  ASSUME EdgeInv, ResolveAll
  PROVE  ResolvedInv'
  <1>1. place' = "idle" /\ UNCHANGED rows
    BY DEF ResolveAll
  <1>2. PICK pick :
          /\ Retargeted(edges', edges, pick)
          /\ \A e \in edges :
               pick[e] \in IF e.to # NoName \/ GlobalMatches(e.use) = {} THEN {e.to}
                           ELSE {r.id : r \in GlobalMatches(e.use)}
    BY ResolveMaps
  <1>3. ASSUME NEW f \in edges', OneRow(f.use)
        PROVE  f.to # NoName
    <2>1. PICK e \in edges : SameEdge(f, e) /\ f.to = pick[e]
      BY <1>2 DEF Retargeted
    <2>2. CASE e.to # NoName
      BY <1>2, <2>1, <2>2
    <2>3. CASE e.to = NoName
      <3>1. GlobalMatches(e.use) # {}
        BY <1>3, <2>1, GlobalMatchFinds DEF SameEdge
      <3>2. PICK r \in GlobalMatches(e.use) : f.to = r.id
        BY <1>2, <2>1, <2>3, <3>1
      <3>3. r \in rows
        BY GlobalMatchFits
      <3> QED BY <3>2, <3>3, OnlyIdOfOne
    <2> QED BY <2>2, <2>3
  <1> QED BY <1>1, <1>3 DEF ResolvedInv, OneRow

LEMMA ResolvedStep ==
  EdgeInv /\ OnceInv /\ ResolvedInv /\ [EdgesNext]_edgeVars => ResolvedInv'
  <1> SUFFICES ASSUME EdgeInv, OnceInv, ResolvedInv, [EdgesNext]_edgeVars PROVE ResolvedInv'
    OBVIOUS
  \* Steps between rewrites that leave the tables alone.
  <1>1. ASSUME UNCHANGED <<rows, edges>>, resolved' => resolved,
               place \in {"idle", "next"}, place' \in {"idle", "next"}
        PROVE  ResolvedInv'
    BY <1>1 DEF ResolvedInv, OneRow
  <1>2. CASE UNCHANGED edgeVars
    BY <1>2 DEF edgeVars, ResolvedInv, OneRow, OneComing, Coming, Inserted, IsNoted, SameEdge,
                OneOfEachName, NamesIn, Unchanged, Remembered
  <1>3. ASSUME ~resolved' PROVE ResolvedInv'
    BY <1>3, Zenon DEF ResolvedInv
  <1>4. ASSUME NEW p \in Paths, NEW t \in Texts, Save(p, t) PROVE ResolvedInv'
    BY <1>1, <1>4 DEF Save, EdgeInv, InRun
  <1>5. ASSUME NEW kind, NEW set, StartRewrite(kind, set) PROVE ResolvedInv'
    BY <1>1, <1>5 DEF StartRewrite, EdgeInv, InRun
  <1>6. ASSUME NEW p \in Paths, BeginFile(p) PROVE ResolvedInv'
    <2>1. /\ UNCHANGED <<rows, edges, content>> /\ path' = p
          /\ place = "next" /\ place' = "drop"
          /\ resolved' = (/\ resolved /\ OneOfEachName(p)
                          /\ NamesIn(p) = {s.qn : s \in SymsOf(content[p])})
      BY <1>6 DEF BeginFile
    <2>2. CASE ~resolved'
      BY <1>3, <2>2
    <2>3. CASE resolved'
      <3>1. resolved /\ OneOfEachName(p) /\ NamesIn(p) = {s.qn : s \in SymsOf(content[p])}
        BY <2>1, <2>3, Zenon
      <3>2. OneOfEachName(path)' /\ NamesIn(path)' = {s.qn : s \in SymsOf(content[path])'}
        BY <2>1, <3>1 DEF OneOfEachName, NamesIn, SymsOf
      <3> QED BY <2>1, <3>1, <3>2 DEF ResolvedInv, OneRow, SymsOf
    <2> QED BY <2>2, <2>3
  <1>7. CASE DeleteStale
    BY <1>7, DeleteStaleResolved
  <1>8. CASE InsertRows
    BY <1>8, InsertResolved
  <1>9. CASE Repoint
    BY <1>9, RepointResolved
  <1>10. CASE StoreEdges
    BY <1>10, StoreResolved
  <1>11. CASE EndSingle
    BY <1>1, <1>11 DEF EndSingle
  <1>12. CASE ResolveAll
    BY <1>12, ResolveResolved
  <1>13. ASSUME NEW p \in Paths, DeleteFileRows(p) PROVE ResolvedInv'
    BY <1>3, <1>13 DEF DeleteFileRows
  <1>14. CASE KillRewrite
    BY <1>3, <1>14 DEF KillRewrite
  <1> QED
    BY <1>2, <1>4, <1>5, <1>6, <1>7, <1>8, <1>9, <1>10, <1>11, <1>12, <1>13, <1>14 DEF EdgesNext

\* There are finitely many rows.
FiniteRows == IsFiniteSet(rows)

LEMMA RowsFinite == EdgesSpec => []FiniteRows
  <1>1. EdgesInit => FiniteRows
    BY FS_EmptySet DEF EdgesInit, FiniteRows
  <1>2. EdgeInv /\ FiniteRows /\ [EdgesNext]_edgeVars => FiniteRows'
    <2> SUFFICES ASSUME EdgeInv, IsFiniteSet(rows), [EdgesNext]_edgeVars
                 PROVE  IsFiniteSet(rows')
      BY DEF FiniteRows
    <2>1. CASE InsertRows
      <3> DEFINE defs == Defs[content[path]]
                 new  == {j \in DOMAIN defs : defs[j] \notin Unchanged}
                 f    == [i \in new |-> [id |-> <<stamp + 1, i>>, file |-> path, sym |-> defs[i]]]
      <3>1. rows' = rows \cup NewRows /\ NewRows = {f[i] : i \in new}
        BY <2>1 DEF InsertRows, NewRows
      <3>2. content[path] \in Texts
        BY <2>1 DEF InsertRows, EdgeInv, InRun, EdgesTypeOK
      <3>3. IsFiniteSet(new)
        <4>1. PICK L \in Nat : DOMAIN defs = 1 .. L
          BY <3>2, EdgeDefs
        <4>2. IsFiniteSet(1 .. L) /\ new \in SUBSET (1 .. L)
          BY <4>1, FS_Interval
        <4> QED BY <4>2, FS_Subset
      <3>4. f \in Surjection(new, NewRows)
        BY <3>1 DEF Surjection
      <3>5. IsFiniteSet(NewRows)
        BY <3>3, <3>4, FS_Surjection
      <3> QED BY <3>1, <3>5, FS_Union
    <2>2. CASE ~InsertRows
      <3>1. rows' \in SUBSET rows
        BY <2>2 DEF EdgesNext, edgeVars, DeleteFileRows, Save, StartRewrite, BeginFile,
           DeleteStale, Repoint, StoreEdges, EndSingle, ResolveAll, KillRewrite
      <3> QED BY <3>1, FS_Subset
    <2> QED BY <2>1, <2>2
  <1> QED BY <1>1, <1>2, EdgeInvariant, PTL DEF EdgesSpec

\* index_file() may leave the resolve passes out: while files only change the bodies of their
\* symbols, no name twice in them, an edge that names exactly one row keeps pointing at that row,
\* under any id.
THEOREM ResolutionSurvives == EdgesSpec => []ResolvedStays
  <1>1. EdgesInit => ResolvedInv
    BY Zenon DEF EdgesInit, ResolvedInv
  <1>2. EdgesSpec => []ResolvedInv
    BY <1>1, ResolvedStep, OnceInvariant, EdgeInvariant, PTL DEF EdgesSpec
  <1>3. EdgeInv /\ OnceInv /\ ResolvedInv /\ FiniteRows => ResolvedStays
    <2> SUFFICES ASSUME EdgeInv, OnceInv, ResolvedInv, FiniteRows, resolved, job = "none",
                        NEW e \in edges,
                        Cardinality(NamedExactly(e.use.name) \cup NamedShort(e.use.name)) = 1,
                        GlobalMatches(e.use) = NamedExactly(e.use.name) \cup NamedShort(e.use.name)
                 PROVE  e.to = OnlyId(NamedExactly(e.use.name) \cup NamedShort(e.use.name))
      BY Zenon DEF ResolvedStays
    <2> DEFINE named == NamedExactly(e.use.name) \cup NamedShort(e.use.name)
    <2>1. IsFiniteSet(named)
      <3>1. named \in SUBSET rows
        BY DEF NamedExactly, NamedShort
      <3> QED BY <3>1, FS_Subset DEF FiniteRows
    <2>2. PICK r : named = {r}
      BY <2>1, FS_Singleton
    <2>3. r \in rows /\ FitsName(e.use, r.sym.qn)
      BY <2>2 DEF NamedExactly, NamedShort, FitsName
    <2>4. \A q \in rows : FitsName(e.use, q.sym.qn) => q = r
      BY <2>2 DEF NamedExactly, NamedShort, FitsName
    <2>5. Wants(e.use, r.sym.qn)
      BY <2>2, <2>3 DEF Wants, GlobalMatches, NamedShort
    <2>6. OneRow(e.use)
      BY <2>3, <2>4, <2>5 DEF OneRow
    <2>7. e.to # NoName
      BY <2>6 DEF ResolvedInv, EdgeInv, InRun
    <2>8. PICK q \in rows : q.id = e.to /\ FitsName(e.use, q.sym.qn)
      BY <2>7 DEF EdgeInv, EdgesFitTheirNames, FitsName
    <2>9. q = r
      BY <2>4, <2>8
    <2>10. OnlyId(named) = r.id
      BY <2>2, <2>3, OnlyIdOfOne
    <2> QED BY <2>8, <2>9, <2>10
  <1> QED BY <1>2, <1>3, RowsFinite, OnceInvariant, EdgeInvariant, PTL
=============================================================================
