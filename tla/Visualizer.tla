----------------------------- MODULE Visualizer -----------------------------
(***************************************************************************)
(* The visualizer: observations of one session journaled by obsv, mapped   *)
(* into contract events (adapter), projected into graphs and frames        *)
(* (session, replay, retention), followed live by a bridge, and canonical  *)
(* history browsed from memory (browse), as the application's visplane     *)
(* composes them.                                                          *)
(*                                                                         *)
(* A subscription hands each journaled event over at most once, some never *)
(* (a full channel drops them) and a live one may overtake the backlog:    *)
(* module Journal shows how, and here any order is allowed.  Placement is  *)
(* a function of the graph and is left out.                                *)
(***************************************************************************)
EXTENDS Naturals, Sequences, FiniteSets, SequencesExt, FiniteSetsExt

CONSTANTS
    Followers,      \* goroutines in Bridge.Follow
    Observed,       \* observations that may be journaled
    History,        \* canonical events that memory may hold
    MaxFrames,      \* retention.Policy.MaxFrames, 0 for no limit
    MinSequence,    \* retention.Policy.MinSequence
    MaxObserved,    \* model bound: journaled observations
    MaxApplied,     \* model bound: events a bridge accumulates
    MaxViews        \* model bound: timelines and listings asked for

ASSUME VisualizerAssumption ==
    /\ {MaxFrames, MinSequence, MaxObserved, MaxApplied, MaxViews} \subseteq Nat
    /\ \A e \in History : e.seq \in Nat

VARIABLES
    trail,      \* the journal of the session
    bridge,     \* Bridge: events, frames, built
    follow,     \* per follower: whether it subscribes and what it received
    cursor,     \* a Cursor over the bridge's frames, and its position
    shown,      \* what Timeline and Sessions returned
    canon,      \* the canonical event log, in insertion order
    views

liveVars == <<trail, bridge, follow, cursor>>
visVars == <<liveVars, shown, canon, views>>

TheSession == "session1"

\* A field that an event or an observation leaves empty.
Unset == ""

\* The elements of a finite set in the order of a relation, which is a strict total
\* order on the set: the k-th is the one that k - 1 others come before.
InOrder(S, before) ==
    [k \in 1..Cardinality(S) |-> CHOOSE i \in S : Cardinality({j \in S : <<j, i>> \in before}) = k - 1]

\* The loops that append what passes a test: a list reduced to some of its places.
Pick(s, places) ==
    LET earlier == {p \in places \X places : p[1] < p[2]}
    IN  [k \in 1..Cardinality(places) |-> s[InOrder(places, earlier)[k]]]
----------------------------------------------------------------------------
(* From an observation to an event *)

AggregateKind(type) ==
    CASE type = "tool" -> "tool" [] type = "file" -> "artifact"
      [] type = "session" -> "workflow" [] OTHER -> "work_package"

\* adapter.identity: work package before attempt before source.
Identity(o) ==
    IF o.wp # Unset THEN <<"work_package", o.wp>>
    ELSE IF o.attempt # Unset THEN <<"attempt", o.attempt>>
    ELSE <<AggregateKind(o.type), IF o.source # Unset THEN o.source ELSE TheSession>>

\* adapter.ToContract refuses an observation whose timestamp is not RFC 3339,
\* which obsv accepts; an absent one gets the fixed fallback.
Mappable(o) == o.stamp # "other"

\* The n-th event of the journal has sequence n - 1.
ToContract(n, o) ==
    [id |-> <<TheSession, n - 1>>, seq |-> n - 1, agg |-> Identity(o),
     actor |-> IF o.actor = Unset THEN "obsv" ELSE o.actor,
     cause |-> <<>>, corr |-> Unset, wp |-> o.wp, artifact |-> Unset,
     paths |-> o.paths, access |-> o.access, project |-> Unset, session |-> TheSession]

\* OBsv.Replay: every event, or an error when there is none or one of them does
\* not map.
Replayable(log) == log # <<>> /\ \A n \in DOMAIN log : Mappable(log[n])
ReplaySource(log) == [n \in DOMAIN log |-> ToContract(n, log[n])]
----------------------------------------------------------------------------
(* Projection: session.Project over events in sequence order *)

\* orderedCopy that leaves the events as they came.
OrderedCopy_AsDelivered(evs) == evs

\* orderedCopy: by sequence, stable.
Sooner(evs) ==
    {p \in (DOMAIN evs) \X (DOMAIN evs) :
        evs[p[1]].seq < evs[p[2]].seq \/ (evs[p[1]].seq = evs[p[2]].seq /\ p[1] < p[2])}

OrderedCopy(evs) == [k \in DOMAIN evs |-> evs[InOrder(DOMAIN evs, Sooner(evs))[k]]]

\* The nodes an event ensures, and the relations it adds, given those before it.
Touched(e) ==
    {e.agg} \cup {n \in {<<"actor", e.actor>>, <<"work_package", e.wp>>, <<"artifact", e.artifact>>} : n[2] # Unset}

EdgeOf(from, to, k) == [from |-> from, to |-> to, kind |-> k]

OwnRelations(e, root) ==
    {x \in {EdgeOf(root, e.agg, "contains")} : e.agg # root}
    \cup {x \in {EdgeOf(<<"actor", e.actor>>, e.agg, "access")} : e.actor # Unset}
    \cup {x \in {EdgeOf(e.agg, <<"work_package", e.wp>>, "assigns")} : e.wp # Unset /\ x.to # e.agg}
    \cup {x \in {EdgeOf(e.agg, <<"artifact", e.artifact>>, "produces")} : e.artifact # Unset /\ x.to # e.agg}

\* byEventID keeps the last event of an identity, firstByCorrelation the first of a
\* correlation.
Causes(o, i) == {j \in 1..i : o[i].cause # <<>> /\ o[j].id = o[i].cause}
Peers(o, i) == {j \in 1..(i - 1) : o[i].corr # Unset /\ o[j].corr = o[i].corr}

LinksTo(o, i, places, k) ==
    {x \in {EdgeOf(o[j].agg, o[i].agg, k) : j \in places} : x.from # o[i].agg}

Relations(o, i, root) ==
    OwnRelations(o[i], root)
    \cup LinksTo(o, i, {j \in Causes(o, i) : j = Max(Causes(o, i))}, "causation")
    \cup LinksTo(o, i, {j \in Peers(o, i) : j = Min(Peers(o, i))}, "correlation")

\* edgeSet.add that takes the sequence of the last event.
EdgeSequence_Latest(seqs) == Max(seqs)

\* edgeSet.add: an edge keeps its least sequence.
EdgeSequence(seqs) == Min(seqs)

\* nodeSet.ensure keeps the sequence of the first event that touches a node, and
\* nodeSet.annotate the last metadata of its own events.
TouchedAt(o, id) == {i \in DOMAIN o : id \in Touched(o[i])}
FirstSeq(o, id, root) == IF id = root THEN o[1].seq ELSE o[Min(TouchedAt(o, id))].seq

NotedAt(o, id, key) == {i \in DOMAIN o : o[i].agg = id /\ o[i][key] # Unset}
Annotation(o, id, key) == IF NotedAt(o, id, key) = {} THEN Unset ELSE o[Max(NotedAt(o, id, key))][key]

AddedAt(o, x, root) == {i \in DOMAIN o : x \in Relations(o, i, root)}

Project(sid, evs) ==
    LET o == OrderedCopy(evs)
        root == <<"session", sid>>
        ids == {root} \cup UNION {Touched(o[i]) : i \in DOMAIN o}
        added == UNION {Relations(o, i, root) : i \in DOMAIN o}
    IN  [nodes |-> [id \in ids |-> [seq |-> FirstSeq(o, id, root),
                                   paths |-> Annotation(o, id, "paths"), access |-> Annotation(o, id, "access")]],
         edges |-> [x \in added |-> EdgeSequence({o[i].seq : i \in AddedAt(o, x, root)})]]

\* replay.Build: one frame per event.
BuildFrames(sid, evs) ==
    LET o == OrderedCopy(evs)
    IN  [i \in DOMAIN o |-> [seq |-> o[i].seq, id |-> o[i].id, graph |-> Project(sid, SubSeq(o, 1, i))]]

\* retention.Trim: frames from the floor on, the most recent of them.
Trim(frames) ==
    LET kept == Pick(frames, {i \in DOMAIN frames : frames[i].seq >= MinSequence})
    IN  IF MaxFrames > 0 /\ Len(kept) > MaxFrames
        THEN SubSeq(kept, Len(kept) - MaxFrames + 1, Len(kept)) ELSE kept

\* session.Summarize.
Summarize(sid, evs) ==
    LET o == OrderedCopy(evs)
        projects == {i \in DOMAIN o : o[i].project # Unset}
    IN  [id |-> sid, count |-> Len(o), start |-> o[1].seq, end |-> o[Len(o)].seq,
         project |-> IF projects = {} THEN Unset ELSE o[Min(projects)].project,
         actors |-> {o[i].actor : i \in DOMAIN o} \ {Unset}]

\* browse.SessionKey: the session of the payload, else the project, else the
\* default session.
SessionKey(e) ==
    IF e.session # Unset THEN e.session ELSE IF e.project # Unset THEN e.project ELSE "default"

\* browse.Load: in sequence order.
InSession(sid) == Pick(canon, {i \in DOMAIN canon : SessionKey(canon[i]) = sid})
LoadSession(sid) == OrderedCopy(InSession(sid))

\* browse.List.
List == {Summarize(sid, InSession(sid)) : sid \in {SessionKey(canon[i]) : i \in DOMAIN canon}}

\* Plane.Sessions: the sessions memory has and the observed one, unless memory has
\* one of its name or nothing is journaled; an event that does not map makes the
\* whole listing fail.
ObservedSession == Summarize(TheSession, ReplaySource(trail))
Sessions ==
    LET observed == {s \in {TheSession} : trail # <<>> /\ \A x \in List : x.id # s}
    IN  IF observed = {} THEN List
        ELSE IF Replayable(trail) THEN List \cup {ObservedSession} ELSE {}
----------------------------------------------------------------------------
VisInit ==
    /\ trail = <<>> /\ canon = <<>> /\ shown = {} /\ views = 0
    /\ bridge = [events |-> <<>>, frames |-> <<>>, built |-> FALSE]
    /\ follow = [f \in Followers |-> [on |-> FALSE, got |-> {}]]
    /\ cursor = [frames |-> <<>>, index |-> 0]

\* The journal takes an observation.
Journaled(o) ==
    /\ Len(trail) < MaxObserved
    /\ trail' = Append(trail, o)
    /\ UNCHANGED <<bridge, follow, cursor, shown, canon, views>>

\* Bridge.Follow subscribes from the first event, every time it is called.
Follow(f) ==
    /\ ~follow[f].on
    /\ follow' = [follow EXCEPT ![f] = [on |-> TRUE, got |-> {}]]
    /\ UNCHANGED <<trail, bridge, cursor, shown, canon, views>>

\* Bridge.Apply accumulates the event and drops the derived frames.
ApplyEvent(b, e) == [b EXCEPT !.events = Append(@, e), !.built = FALSE]

\* subscription.pump and Bridge.Consume: an event that does not map is skipped.
Consume(f, n) ==
    /\ follow[f].on /\ n \in DOMAIN trail \ follow[f].got
    /\ follow' = [follow EXCEPT ![f].got = @ \cup {n}]
    /\ \/ ~Mappable(trail[n]) /\ UNCHANGED bridge
       \/ /\ Mappable(trail[n]) /\ Len(bridge.events) < MaxApplied
          /\ bridge' = ApplyEvent(bridge, ToContract(n, trail[n]))
    /\ UNCHANGED <<trail, cursor, shown, canon, views>>

\* The context of a follower ends, or its subscription closes.
Unfollow(f) ==
    /\ follow[f].on
    /\ follow' = [follow EXCEPT ![f] = [on |-> FALSE, got |-> {}]]
    /\ UNCHANGED <<trail, bridge, cursor, shown, canon, views>>

\* Bridge.FrameList rebuilds the frames when an event came in; Bridge.Cursor opens
\* a cursor on them.
FrameList(b) == IF b.built THEN b ELSE [b EXCEPT !.frames = BuildFrames(TheSession, b.events), !.built = TRUE]

OpenCursor ==
    /\ bridge.events # <<>>
    /\ bridge' = FrameList(bridge)
    /\ cursor' = [frames |-> FrameList(bridge).frames, index |-> 1]
    /\ UNCHANGED <<trail, follow, shown, canon, views>>

\* Cursor.Seek (Step and Reset seek too); an index out of range moves nothing.
Seek(i) ==
    /\ i \in DOMAIN cursor.frames /\ i # cursor.index
    /\ cursor' = [cursor EXCEPT !.index = i]
    /\ UNCHANGED <<trail, bridge, follow, shown, canon, views>>

\* Cursor.SeekSequence: the first frame at a sequence.
SeekSequence(q) ==
    LET at == {i \in DOMAIN cursor.frames : cursor.frames[i].seq = q}
    IN  at # {} /\ Seek(Min(at))

\* Plane.Timeline, with the end that the listing gives the session; Plane.Graph
\* projects the same replay.
Timeline ==
    /\ views < MaxViews /\ Replayable(trail)
    /\ views' = views + 1
    /\ shown' = shown \cup {[of |-> TheSession, end |-> ObservedSession.end,
                             frames |-> Trim(BuildFrames(TheSession, ReplaySource(trail))),
                             graph |-> Project(TheSession, ReplaySource(trail))]}
    /\ UNCHANGED <<liveVars, canon>>

\* Memory records a canonical event; its log keeps them as they come.
Remember(e) ==
    /\ e \notin {canon[i] : i \in DOMAIN canon}
    /\ canon' = Append(canon, e)
    /\ UNCHANGED <<liveVars, shown, views>>

\* browse.Timeline of a session that Sessions named.
Browse(sid) ==
    /\ views < MaxViews
    /\ views' = views + 1
    /\ \E s \in Sessions :
          /\ s.id = sid
          /\ shown' = shown \cup {[of |-> sid, end |-> s.end, frames |-> BuildFrames(sid, LoadSession(sid)),
                                  graph |-> Project(sid, LoadSession(sid))]}
    /\ UNCHANGED <<liveVars, canon>>

LiveStep ==
    \/ \E o \in Observed : Journaled(o)
    \/ \E f \in Followers :
          \/ Follow(f) \/ Unfollow(f)
          \/ \E n \in DOMAIN trail : Consume(f, n)
    \/ \E i \in DOMAIN cursor.frames : Seek(i) \/ SeekSequence(cursor.frames[i].seq)
    \/ OpenCursor \/ Timeline

BrowseStep ==
    \/ \E e \in History : Remember(e)
    \/ \E i \in DOMAIN canon : Browse(SessionKey(canon[i]))

VisNext == LiveStep \/ BrowseStep

VisSpec == VisInit /\ [][VisNext]_visVars
----------------------------------------------------------------------------
(* Properties *)

\* Following and replaying show the same graph: once the followers of a session
\* have handed over every event of its journal, in whatever order, however often
\* (each Follow starts over) and from however many subscriptions, the last frame
\* of the bridge is the graph that Plane.Graph projects from the replay.
LiveGraphIsReplay ==
    bridge.built /\ Replayable(trail) /\ Range(bridge.events) = Range(ReplaySource(trail))
        => Last(bridge.frames).graph = Project(TheSession, ReplaySource(trail))

\* In a list of frames a node or relation of one frame is in every later one, with
\* the sequence it first had.
Grows(frames) ==
    \A i, j \in DOMAIN frames : i < j =>
        /\ frames[i].seq <= frames[j].seq
        /\ \A n \in DOMAIN frames[i].graph.nodes :
              /\ n \in DOMAIN frames[j].graph.nodes
              /\ frames[i].graph.nodes[n].seq = frames[j].graph.nodes[n].seq
        /\ \A x \in DOMAIN frames[i].graph.edges :
              /\ x \in DOMAIN frames[j].graph.edges
              /\ frames[i].graph.edges[x] = frames[j].graph.edges[x]

\* A timeline is a history that only grows and ends in the present: whatever
\* retention drops, and in whatever order memory kept the events, the last frame is
\* the whole graph at the last sequence of the session, for observed sessions and
\* for every session that browse lists; the bridge's frames and the cursors on them
\* grow too, and a cursor stays on its list.
TimelineFaithful ==
    /\ Grows(bridge.frames) /\ Grows(cursor.frames)
    /\ cursor.frames # <<>> => cursor.index \in DOMAIN cursor.frames
    /\ \A v \in shown :
          /\ Grows(v.frames)
          /\ v.frames # <<>> \/ v.end < MinSequence
          /\ v.frames # <<>> => Last(v.frames).seq = v.end /\ Last(v.frames).graph = v.graph
=============================================================================
