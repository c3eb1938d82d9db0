----------------------------- MODULE Versioning -----------------------------
(***************************************************************************)
(* Versioned, lockable rows (smorx_behavior/versioning): a locked row is   *)
(* never changed, its next version is a new row that refers to it; a row   *)
(* that is not locked is bumped in place.                                  *)
(*                                                                         *)
(* Primary keys are random, and readers sort by them: a new row takes any  *)
(* key that is free.                                                       *)
(***************************************************************************)
EXTENDS Naturals

CONSTANTS
  Keys,           \* primary keys, in the order of repo.list_()
  Kinds,          \* the models
  LockKinds,      \* those with a locked column
  ParentKinds,    \* those with a column that can hold a parent reference
  IdentityKinds,  \* those with a unique string column
  Data            \* what the other columns hold

NoRow == 0

ASSUME KeysAssumption == Keys \subseteq Nat \ {NoRow}

ASSUME KindsAssumption ==
  LockKinds \subseteq Kinds /\ ParentKinds \subseteq Kinds /\ IdentityKinds \subseteq Kinds

VARIABLE rows  \* the rows by key

Stored == DOMAIN rows

Parent == [id : Keys \cup {NoRow}, version : Nat]

NoParent == [id |-> NoRow, version |-> 0]

\* identity: the unique column's base and its "@version" suffix, 0 for none.
Row ==
  [kind : Kinds, data : Data, version : Nat \ {0}, locked : BOOLEAN, parent : Parent,
   identity : Keys \X Nat]

RowsTypeOK == Stored \subseteq Keys /\ rows \in [Stored -> Row]

\* is_locked()
IsLocked(k) == rows[k].kind \in LockKinds /\ rows[k].locked

\* A row is added under a key of its own.
Insert(k, row) ==
  /\ k \in Keys \ Stored
  /\ rows' = [j \in Stored \cup {k} |-> IF j = k THEN row ELSE rows[j]]

NewRow(k, kind, data) ==
  [kind |-> kind, data |-> data, version |-> 1, locked |-> FALSE, parent |-> NoParent,
   identity |-> <<k, 0>>]

Create(k, kind, data) == Insert(k, NewRow(k, kind, data))

\* lock() and the status its caller gives the row in the same call; there is no unlocking.
LockAs(k, data) ==
  /\ rows[k].kind \in LockKinds
  /\ ~IsLocked(k)
  /\ rows' = [rows EXCEPT ![k].locked = TRUE, ![k].data = data]

\* _strip_version_suffix() and the new suffix.
NextIdentity(k) ==
  IF rows[k].kind \in IdentityKinds
    THEN <<rows[k].identity[1], rows[k].version + 1>> ELSE rows[k].identity

\* The unique constraint.
IdentityFree(k) ==
  rows[k].kind \in IdentityKinds =>
    \A j \in Stored : rows[j].kind = rows[k].kind => rows[j].identity # NextIdentity(k)

\* Faulty variant: the reference is recorded from the new row's version.
CloneOfItself(k) ==
  [rows[k] EXCEPT !.version = @ + 1, !.locked = FALSE, !.identity = NextIdentity(k),
                  !.parent = [id |-> k, version |-> rows[k].version + 1]]

\* _clone_row() and _record_parent_ref()
Clone(k) ==
  [rows[k] EXCEPT !.version = @ + 1, !.locked = FALSE, !.identity = NextIdentity(k),
                  !.parent = [id |-> k, version |-> rows[k].version]]

\* Faulty variant: one path for every row, as if the lock did not matter.
BumpAnyInPlace(k) ==
  rows' = [rows EXCEPT ![k].version = @ + 1]

\* _bump_in_place()
BumpInPlace(k) ==
  /\ ~IsLocked(k)
  /\ rows' = [rows EXCEPT ![k].version = @ + 1]

\* Faulty variant: the model has no unique constraint.
BumpSameIdentity(k, new) ==
  /\ IsLocked(k)
  /\ rows[k].kind \in ParentKinds
  /\ Insert(new, Clone(k))

\* _bump_new_identity()
BumpNewIdentity(k, new) ==
  /\ IsLocked(k)
  /\ rows[k].kind \in ParentKinds
  /\ IdentityFree(k)
  /\ Insert(new, Clone(k))

\* The readers' order: repo.list_() sorts by primary key.
First(S) == CHOOSE k \in S : \A j \in S : k <= j

HasSuccessor(k) == \E j \in Stored : rows[j].kind = rows[k].kind /\ rows[j].parent.id = k

-----------------------------------------------------------------------------
(* Properties *)

\* A locked row is an immutable reference: no operation changes it or takes it away.
LockedForever ==
  [][\A k \in Stored : IsLocked(k) => k \in DOMAIN rows' /\ rows'[k] = rows[k]]_rows

\* A parent reference names a stored row that is locked at the version the reference
\* gives, and a version is above its parent's: the walk of get_lineage() ends, and what it
\* lists is the history as it was.
ParentStands ==
  \A k \in Stored :
    rows[k].parent # NoParent =>
      LET p == rows[k].parent.id
      IN /\ p \in Stored /\ IsLocked(p) /\ rows[p].kind = rows[k].kind
         /\ rows[p].version = rows[k].parent.version
         /\ rows[p].version < rows[k].version

\* A model with a unique identity column has at most one successor of a row: a second
\* bump of the same version meets the constraint.
OneSuccessor ==
  \A i, j \in Stored :
    /\ rows[i].kind \in IdentityKinds /\ rows[j].kind = rows[i].kind
    /\ rows[i].parent # NoParent /\ rows[j].parent = rows[i].parent
    => i = j

\* A lineage is a history: ParentStands and OneSuccessor (service.py, bump() and
\* get_lineage()).
LineageSound == ParentStands /\ OneSuccessor

=============================================================================
