----------------------------- MODULE KeyAliases -----------------------------
(***************************************************************************)
(* Canonical target keys of one target type: the alias table               *)
(* (SqliteTargetKeyAliasRepository), the automatic proposals for keys of   *)
(* equal normalized form and of similar meaning, and the owner's review    *)
(* (KeyAliasService).  A SELECT is a step and a write transaction is a     *)
(* step.  Polarity, which scales values and guards nothing, is left out,   *)
(* and so are the texts of keys: Form gives each key's normalized form.    *)
(***************************************************************************)
EXTENDS Naturals, Sequences, FiniteSets

CONSTANTS Proc,        \* handler threads
          Key,         \* target keys
          Form,        \* Form[k] is normalize_key(k); a form may be a key
          Source,      \* how a handler's aliases arise, of those in Sources
          Forgettable, \* keys whose evidence may be deleted
          None         \* no row

Sources == {"owner", "normalized", "semantic"}
ASSUME AliasAssumption ==
  /\ Source \subseteq Sources /\ Forgettable \subseteq Key
  /\ IsFiniteSet(Key) /\ None \notin Key
  /\ DOMAIN Form = Key /\ \A k \in Key : Form[k] \in Key => Form[Form[k]] = Form[k]

VARIABLES used,       \* keys of the stored evidence, by first use
          alias,      \* the row of each alias key
          handlers    \* what each thread is doing

vars == <<used, alias, handlers>>

Elems(s) == {s[i] : i \in 1..Len(s)}
\* The first element of s in S.
FirstIn(s, S) == s[CHOOSE i \in 1..Len(s) : s[i] \in S /\ \A j \in 1..i - 1 : s[j] \notin S]

-----------------------------------------------------------------------------
\* KeyAliasMap over rows: _follow takes active aliases to the end; a chain that
\* goes on after as many steps as there are keys has met one of them twice.
IsActive(rows, k) == rows[k] # None /\ rows[k].status = "active"
Follow(rows, k) ==
  LET at[n \in 0..Cardinality(Key)] ==
        IF n = 0 THEN k
        ELSE IF IsActive(rows, at[n - 1]) THEN rows[at[n - 1]].to ELSE at[n - 1]
  IN  at[Cardinality(Key)]
Cyclic(rows) == \E k \in Key : IsActive(rows, Follow(rows, k))

Group(keys, form) == {k \in Elems(keys) : Form[k] = form}

\* _canonical: the target an active alias of the group already has in it, else
\* the normalized form if it is used, else the first key without an alias.
Canonical(keys, rows, form) ==
  LET group == Group(keys, form)
      joined == {k \in group : rows[k] # None /\ Follow(rows, k) \in group \ {k}}
  IN  IF joined # {} THEN Follow(rows, FirstIn(keys, joined))
      ELSE IF form \in group THEN form
      ELSE FirstIn(keys, {k \in group : rows[k] = None})

\* Fault: rejected rows do not count as aliases.
ProposalsAgain(keys, rows) ==
  {[key |-> k, to |-> Canonical(keys, rows, Form[k]), status |-> "active", by |-> "normalized"] :
     k \in {i \in Elems(keys) : /\ ~IsActive(rows, i)
                                /\ \E j \in Group(keys, Form[i]) : rows[j] = None
                                /\ Canonical(keys, rows, Form[i]) # i}}

\* propose_normalized_aliases: keys with a row of any status are left alone.
Proposals(keys, rows) ==
  {[key |-> k, to |-> Canonical(keys, rows, Form[k]), status |-> "active", by |-> "normalized"] :
     k \in {i \in Elems(keys) : /\ rows[i] = None
                                /\ Cardinality(Group(keys, Form[i])) > 1
                                /\ Canonical(keys, rows, Form[i]) # i}}

\* propose_semantic_aliases: which pairs are similar is up to the embeddings.
Similar(keys, rows) ==
  {[key |-> keys[pair[2]], to |-> keys[pair[1]], status |-> "suggested", by |-> "semantic"] :
     pair \in {m \in (1..Len(keys)) \X (1..Len(keys)) :
                 /\ m[1] < m[2] /\ rows[keys[m[2]]] = None
                 /\ Form[keys[m[1]]] # Form[keys[m[2]]]}}

\* _supported_keys: evidence, and what active aliases carry it onto.
Supported(keys, rows) ==
  LET sup[n \in 0..Cardinality(Key)] ==
        IF n = 0 THEN Elems(keys)
        ELSE sup[n - 1] \cup {rows[k].to : k \in {i \in sup[n - 1] : IsActive(rows, i)}}
  IN  sup[Cardinality(Key)]

\* prune_unsupported_keys
Pruned(keys, rows) ==
  LET sup == Supported(keys, rows)
  IN  [k \in Key |->
         IF /\ rows[k] # None /\ k \in sup
            /\ rows[k].status # "active" => rows[k].to \in sup
         THEN rows[k] ELSE None]

Init ==
  /\ used = <<>>
  /\ alias = [k \in Key |-> None]
  /\ handlers = [p \in Proc |-> None]

At(p, step) == handlers[p] # None /\ handlers[p].at = step
Done(p) == handlers' = [handlers EXCEPT ![p] = None]

\* The next upsert of a handler, or its end.
Continue(p, todo) ==
  \/ /\ todo = {} /\ Done(p)
  \/ \E row \in todo :
       handlers' = [handlers EXCEPT ![p].at = IF row.status = "active" THEN "check" ELSE "get",
                                    ![p].todo = todo \ {row}, ![p].row = row]

-----------------------------------------------------------------------------
\* Evidence of a key is stored, or the last of it deleted: DELETE, prune and
\* the revision are one transaction.
Learn(k) ==
  /\ k \notin Elems(used)
  /\ used' = Append(used, k)
  /\ UNCHANGED <<alias, handlers>>

Forget(k) ==
  /\ k \in Forgettable
  /\ \E i \in 1..Len(used) :
       used[i] = k /\ used' = SubSeq(used, 1, i - 1) \o SubSeq(used, i + 1, Len(used))
  /\ alias' = Pruned(used', alias)
  /\ UNCHANGED handlers

\* register_normalized_aliases and _suggest read the keys, then the aliases.
\* An active cycle is a ValueError of the whole call.
BeginProposing(p, by) ==
  /\ handlers[p] = None
  /\ by \in Source \ {"owner"}
  /\ handlers' = [handlers EXCEPT ![p] =
       [at |-> "propose", by |-> by, keys |-> used, todo |-> {}, row |-> None, found |-> FALSE]]
  /\ UNCHANGED <<used, alias>>

Propose(p) ==
  /\ At(p, "propose")
  /\ LET h == handlers[p]
     IN  IF h.by = "semantic"
         THEN \E todo \in {{}} \cup {{row} : row \in Similar(h.keys, alias)} : Continue(p, todo)
         ELSE IF Cyclic(alias) THEN Done(p) ELSE Continue(p, Proposals(h.keys, alias))
  /\ UNCHANGED <<used, alias>>

\* KeyAliasService.create and review: the row to write is made from the row read.
BeginOwner(p, row) ==
  handlers' = [handlers EXCEPT ![p] =
    [at |-> IF row.status = "active" THEN "check" ELSE "get",
     by |-> "owner", keys |-> <<>>, todo |-> {}, row |-> row, found |-> FALSE]]

Create(p, k, c) ==
  /\ handlers[p] = None /\ "owner" \in Source
  /\ k \in Elems(used) /\ c # k
  /\ BeginOwner(p, [key |-> k, to |-> c, status |-> "active", by |-> "owner"])
  /\ UNCHANGED <<used, alias>>

Review(p, k, status) ==
  /\ handlers[p] = None /\ "owner" \in Source
  /\ alias[k] # None
  /\ BeginOwner(p, [alias[k] EXCEPT !.status = status])
  /\ UNCHANGED <<used, alias>>

\* KeyAliasService.remove is over in one transaction.
RemoveAlias(p, k) ==
  /\ handlers[p] = None /\ "owner" \in Source
  /\ alias[k] # None
  /\ alias' = [alias EXCEPT ![k] = None]
  /\ UNCHANGED <<used, handlers>>

\* Fault: only a direct inversion counts as a cycle.
CheckInverse(p) ==
  /\ At(p, "check")
  /\ LET row == handlers[p].row
     IN  IF IsActive(alias, row.to) /\ alias[row.to].to = row.key
         THEN Continue(p, handlers[p].todo)
         ELSE handlers' = [handlers EXCEPT ![p].at = "get"]
  /\ UNCHANGED <<used, alias>>

\* upsert, _require_acyclic: a SELECT of the other active aliases.  The owner
\* is told of a cycle; a proposal that would close one is skipped.
Check(p) ==
  /\ At(p, "check")
  /\ LET row == handlers[p].row
     IN  IF Cyclic([alias EXCEPT ![row.key] = row])
         THEN Continue(p, handlers[p].todo)
         ELSE handlers' = [handlers EXCEPT ![p].at = "get"]
  /\ UNCHANGED <<used, alias>>

\* upsert, session.get: whether the write will be an UPDATE or an INSERT.
Get(p) ==
  /\ At(p, "get")
  /\ handlers' = [handlers EXCEPT ![p].at = "write", ![p].found = alias[handlers[p].row.key] # None]
  /\ UNCHANGED <<used, alias>>

\* upsert, flush: an UPDATE of no row and an INSERT of a second one are errors
\* that end the handler.
Write(p) ==
  /\ At(p, "write")
  /\ LET h == handlers[p]
     IN  \/ /\ h.found <=> alias[h.row.key] # None
            /\ alias' = [alias EXCEPT ![h.row.key] = h.row]
            /\ Continue(p, h.todo)
         \/ /\ ~(h.found <=> alias[h.row.key] # None)
            /\ Done(p)
            /\ UNCHANGED alias
  /\ UNCHANGED used

Next ==
  \/ \E k \in Key : Learn(k) \/ Forget(k)
  \/ \E p \in Proc :
       \/ \E by \in Source : BeginProposing(p, by)
       \/ Propose(p) \/ Check(p) \/ Get(p) \/ Write(p)
       \/ \E k, c \in Key : Create(p, k, c)
       \/ \E k \in Key : RemoveAlias(p, k)
       \/ \E k \in Key, status \in {"active", "rejected"} : Review(p, k, status)

Spec == Init /\ [][Next]_vars

-----------------------------------------------------------------------------
Row == [key : Key, to : Key, status : {"active", "suggested", "rejected"}, by : Sources]
Handler == [at : {"propose", "check", "get", "write"}, by : Sources, keys : Seq(Key),
            todo : SUBSET Row, row : Row \cup {None}, found : BOOLEAN]

ASSUME NoRowAssumption == None \notin Row \cup Handler

\* Every variable has its type, and no alias points at itself.
TypeOK ==
  /\ used \in Seq(Key) /\ (\A i, j \in 1..Len(used) : used[i] = used[j] => i = j)
  /\ alias \in [Key -> Row \cup {None}]
  /\ \A k \in Key : alias[k] # None => alias[k].key = k /\ alias[k].to # k
  /\ handlers \in [Proc -> Handler \cup {None}]

\* The docstring of the repository: it keeps "the active alias graph acyclic".
\* A cycle makes every rebuild, and the rebuild of every start, raise.
ActiveAcyclic == ~Cyclic(alias)

\* proposals.py: "Keys that already have an alias row of any status are left
\* alone, so owner rejections are sticky": however evidence comes and goes while
\* one handler runs at a time, only the owner, or the deletion of its evidence,
\* brings a rejected alias back.
RejectionsStick ==
  [][\A k \in Key :
       alias[k] # None /\ alias[k].status = "rejected" =>
         \/ alias'[k] = alias[k] \/ alias'[k] = None
         \/ \E p \in Proc : handlers[p] # None /\ handlers[p].by = "owner"
                            /\ handlers'[p] = None]_vars
=============================================================================
