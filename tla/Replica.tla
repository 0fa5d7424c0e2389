------------------------------ MODULE Replica ------------------------------
(***************************************************************************)
(* Offline changes between nodes: Plane.Publish and Plane.Reconcile of     *)
(* src/app/internal/syncplane, over the change queue of src/sync/queue and *)
(* the revision sets of src/sync/revision.                                 *)
(*                                                                         *)
(* A node queues its own changes, newest per path, and hands the queue out *)
(* as a list (Pending).  Lists travel by any road: they arrive late,       *)
(* twice, in another order, joined with other nodes' lists, or never.      *)
(* Reconcile holds Plane.revMu from its first to its last line, and so     *)
(* does Publish: each is one step.                                         *)
(*                                                                         *)
(* A record is its revision, its content (the hash) and whether it is a    *)
(* tombstone.  Node ids are numbers because ties are broken by their order.*)
(***************************************************************************)
EXTENDS Integers, FiniteSets

CONSTANTS
    Nodes,         \* node ids
    Paths,
    Hashes,        \* contents of live records
    MaxRevision,   \* bound on revisions
    MaxPublishes,  \* bound on calls of Publish
    MaxLists       \* bound on lists handed out

ASSUME ReplicaAssumption ==
    /\ Nodes \subseteq Nat
    /\ MaxRevision \in Nat /\ MaxPublishes \in Nat /\ MaxLists \in Nat

VARIABLES
    source,     \* Plane.source: what the node has published
    pending,    \* Plane.pending: its queued changes
    replica,    \* Plane.replica: what it has taken over from others
    lists,      \* the lists handed out: sets of changes
    given,      \* history: the records each node was given, per path
    publishes   \* calls of Publish so far

replicaVars == <<source, pending, replica, lists, given, publishes>>

Absent == [revision |-> 0, hash |-> "", deleted |-> FALSE]
Records == [revision : 1 .. MaxRevision, hash : Hashes, deleted : {FALSE}]
             \cup [revision : 1 .. MaxRevision, hash : {""}, deleted : {TRUE}]
Change(n, p, rec) == [node |-> n, path |-> p, rec |-> rec]

RInit ==
    /\ source = [n \in Nodes |-> [p \in Paths |-> Absent]]
    /\ pending = [n \in Nodes |-> [p \in Paths |-> Absent]]
    /\ replica = [n \in Nodes |-> [p \in Paths |-> Absent]]
    /\ lists = {}
    /\ given = [n \in Nodes |-> [p \in Paths |-> {}]]
    /\ publishes = 0

----------------------------------------------------------------------------
(* src/sync/queue                                                          *)

\* newer that goes by the node before the revision.
newer_ByNode(a, b) == a.node > b.node \/ (a.node = b.node /\ a.rec.revision > b.rec.revision)

\* newer: the higher revision, then the higher node id.
newer(a, b) ==
    IF a.rec.revision # b.rec.revision THEN a.rec.revision > b.rec.revision ELSE a.node > b.node

\* Enqueue: within one node's queue a tie keeps what is queued.
Enqueue(old, rec) == IF rec.revision > old.revision THEN rec ELSE old

\* Pending: one change per queued path.
Pending(n) == {Change(n, p, pending[n][p]) : p \in {q \in Paths : pending[n][q] # Absent}}

\* bestByPath: the newest change of a path in a list, or Absent.
bestByPath(changes, p) ==
    LET here == {c \in changes : c.path = p}
    IN  IF here = {} THEN Absent
        ELSE (CHOOSE c \in here : \A d \in here : d = c \/ newer(c, d)).rec

\* queue.Reconcile: whether the remote change of a path goes to Decision.Apply.
\* Otherwise the path is sent, converged or in conflict, and nothing is applied.
Applies(local, remote) == remote # Absent /\ (local = Absent \/ remote.revision > local.revision)

----------------------------------------------------------------------------
(* src/sync/revision                                                       *)

\* Set.Put: an older revision never overwrites a newer one.
CanPut(existing, rec) == existing.revision <= rec.revision

\* Diff: whether an operation is emitted for the path.
Diff(src, local) ==
    ~ \/ local # Absent /\ local.revision >= src.revision /\ local.deleted = src.deleted
      \/ local # Absent /\ local.revision > src.revision

\* Apply: what an operation leaves in the replica.  A deletion of what is
\* deleted is left out, whatever its revision.
Apply(src, local) ==
    IF \/ src = local
       \/ src.deleted /\ local.revision > src.revision
       \/ src.deleted /\ local.deleted
       \/ ~CanPut(local, src)
    THEN local
    ELSE src

----------------------------------------------------------------------------
(* src/app/internal/syncplane                                              *)

\* Plane.Publish: recorded unless the source is newer, and queued.
PublishRecord(n, p, rec) ==
    /\ publishes < MaxPublishes
    /\ CanPut(source[n][p], rec)
    /\ source' = [source EXCEPT ![n][p] = rec]
    /\ pending' = [pending EXCEPT ![n][p] = Enqueue(@, rec)]
    /\ publishes' = publishes + 1
    /\ UNCHANGED <<replica, lists, given>>

\* Plane.Pending is read and sent to the other nodes.
HandOut(n) ==
    /\ Pending(n) # {} /\ Pending(n) \notin lists
    /\ Cardinality(lists) < MaxLists
    /\ lists' = lists \cup {Pending(n)}
    /\ UNCHANGED <<source, pending, replica, given, publishes>>

\* Plane.Reconcile of one list, or of several joined, of other nodes.
Reconcile(n, some) ==
    LET remote == UNION some
        best(p) == bestByPath(remote, p)
        next(p) == IF Applies(pending[n][p], best(p)) /\ Diff(best(p), replica[n][p])
                   THEN Apply(best(p), replica[n][p]) ELSE replica[n][p]
    IN  /\ some # {} /\ \A c \in remote : c.node # n
        /\ replica' = [replica EXCEPT ![n] = [p \in Paths |-> next(p)]]
        /\ given' = [given EXCEPT ![n] = [p \in Paths |-> @[p] \cup {c.rec : c \in {d \in remote : d.path = p}}]]
        /\ UNCHANGED <<source, pending, lists, publishes>>

RNext ==
    \/ \E n \in Nodes, p \in Paths, rec \in Records : PublishRecord(n, p, rec)
    \/ \E n \in Nodes : HandOut(n)
    \/ \E n \in Nodes, some \in SUBSET lists : Reconcile(n, some)

RSpec == RInit /\ [][RNext]_replicaVars

----------------------------------------------------------------------------
\* What a node goes by: its own change or the one it took over, the newer one.
Effective(n, p) ==
    IF replica[n][p].revision > pending[n][p].revision THEN replica[n][p] ELSE pending[n][p]

Seen(n, p) == given[n][p] \cup {pending[n][p]}

\* A node goes by a record it has seen, and by the newest one unless it has seen
\* the path deleted twice (what Apply leaves out).  Two records of one revision
\* are a conflict; without one, "the newest" is a single record.
EffectiveIsNewest ==
    \A n \in Nodes, p \in Paths :
        /\ Effective(n, p) \in Seen(n, p)
        /\ (\A a, b \in Seen(n, p) : a.deleted /\ b.deleted => a = b)
              => \A rec \in Seen(n, p) : Effective(n, p).revision >= rec.revision

\* What a replica holds for a path is only replaced by a higher revision, or by
\* the other side of a tie between a deletion and a live record.
Advances ==
    \A n \in Nodes, p \in Paths :
        replica'[n][p] # replica[n][p] =>
            \/ replica'[n][p].revision > replica[n][p].revision
            \/ /\ replica'[n][p].revision = replica[n][p].revision
               /\ replica'[n][p].deleted # replica[n][p].deleted

\* Whatever order, repetition or grouping the lists came in, the newest record
\* wins, so nodes that saw the same changes agree, and a replica never goes back
\* (Reconcile: "decides deterministically"; Set.Put: "An older revision never
\* overwrites a newer one").
NewestWins == [][EffectiveIsNewest' /\ Advances]_replicaVars

\* A deletion that reached a node holds against every older live record
\* (ADR-0081: a guarded tombstone "Prevents replica divergence").
DeletionHolds ==
    \A n \in Nodes, p \in Paths : \A rec \in given[n][p] :
        (rec.deleted /\ ~Effective(n, p).deleted) => Effective(n, p).revision >= rec.revision
============================================================================
