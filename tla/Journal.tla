------------------------------- MODULE Journal -------------------------------
(***************************************************************************)
(* obsv/journal: the observation journal of one session, in memory or      *)
(* backed by a JSONL file, with the emitters that append to it, its live   *)
(* subscriptions and the consumers that read them.                         *)
(*                                                                         *)
(* An action is one critical section of Memory.mu or Subscription.mu, one  *)
(* channel operation, or one file write.  An event is its sequence and the *)
(* number of the Append call that brought it; its payload is left out, and *)
(* so are events that Validate refuses, which change nothing here.         *)
(***************************************************************************)
EXTENDS Naturals, Sequences, FiniteSets, SequencesExt

CONSTANTS
  Producer,     (* goroutines that call Append                           *)
  Sub,          (* subscriptions                                         *)
  Room,         (* channel capacity beyond the backlog (64 in the code)  *)
  Kinds,        (* the kinds of journal: "memory", "file"                *)
  EventBound,   (* model bound: Append calls                             *)
  RestartBound  (* model bound: process restarts                         *)

ASSUME JournalAssumption ==
  /\ Room \in Nat \ {0}
  /\ Kinds \subseteq {"memory", "file"}
  /\ {EventBound, RestartBound} \subseteq Nat

VARIABLES
  kind,       (* what NewJournal returned for the session                   *)
  mode,       (* "open", "closed", or "refused": OpenFile returned an error *)
  events,     (* Memory.events                                              *)
  next,       (* Memory.next                                                *)
  subs,       (* Memory.subs                                                *)
  closing,    (* subscriptions Memory.Close has still to close              *)
  file,       (* the decodable lines of the file                            *)
  torn,       (* whether the file holds a line cut short                    *)
  fileOpen,   (* File.f is not nil                                          *)
  pc, ev, targets, (* per producer: position, its event, whom to deliver to *)
  sub,        (* the subscriptions                                          *)
  since,      (* per subscription: the least sequence it is entitled to     *)
  got,        (* per subscription: what its consumer has received           *)
  acked,      (* events whose Append returned without error                 *)
  emitted,    (* Append calls so far                                        *)
  restarts

memVars == <<mode, events, next, subs, closing>>
fileVars == <<file, torn, fileOpen>>
prodVars == <<pc, ev, targets>>
subVars == <<sub, since, got>>
countVars == <<acked, emitted, restarts>>
jvars == <<kind, memVars, fileVars, prodVars, subVars, countVars>>

Durable == kind = "file"

Event == [seq : 0..EventBound, id : 0..EventBound]
NoEvent == [seq |-> 0, id |-> 0]

\* Position of a subscription: "sending" is the backlog loop of Subscribe, after
\* which the caller holds it ("open").  "marked" has its closed flag set and its
\* channel still open.  "panicked" is a backlog send on a closed channel.
Subscription ==
  [at : {"none", "sending", "open", "closed", "panicked"}, marked : BOOLEAN,
   ch : Seq(Event), cap : Nat, backlog : Seq(Event), dropped : Nat]

NoSubscription ==
  [at |-> "none", marked |-> FALSE, ch |-> <<>>, cap |-> 0, backlog |-> <<>>,
   dropped |-> 0]

-----------------------------------------------------------------------------
JInit ==
  /\ kind \in Kinds
  /\ mode = "open"
  /\ events = <<>>
  /\ next = 0
  /\ subs = {}
  /\ closing = {}
  /\ file = <<>>
  /\ torn = FALSE
  /\ fileOpen = Durable
  /\ pc = [p \in Producer |-> "idle"]
  /\ ev = [p \in Producer |-> NoEvent]
  /\ targets = [p \in Producer |-> {}]
  /\ sub = [s \in Sub |-> NoSubscription]
  /\ since = [s \in Sub |-> 0]
  /\ got = [s \in Sub |-> <<>>]
  /\ acked = {}
  /\ emitted = 0
  /\ restarts = 0

(***************************************************************************)
(* Append.                                                                 *)
(***************************************************************************)
\* File.Append holds File.mu from its first step to its last; Memory has no such lock.
FileLocked == Durable /\ \E p \in Producer : pc[p] # "idle"

\* The subscriptions an Append delivers to.
Recipients == subs

\* The sequence is assigned, the event stored and the subscriptions listed in one
\* critical section.
AppendAssigned(p) ==
  LET e == [seq |-> next, id |-> emitted + 1] IN
  /\ mode = "open"
  /\ pc[p] = "idle"
  /\ ~FileLocked
  /\ emitted < EventBound
  /\ emitted' = emitted + 1
  /\ events' = Append(events, e)
  /\ next' = next + 1
  /\ pc' = [pc EXCEPT ![p] = "deliver"]
  /\ ev' = [ev EXCEPT ![p] = e]
  /\ targets' = [targets EXCEPT ![p] = Recipients]
  /\ UNCHANGED <<kind, mode, subs, closing, fileVars, subVars, acked, restarts>>

\* Mutant: waits for room instead of dropping.
Deliver_Blocks(p, s) ==
  /\ pc[p] = "deliver"
  /\ s \in targets[p]
  /\ sub[s].marked \/ Len(sub[s].ch) < sub[s].cap
  /\ targets' = [targets EXCEPT ![p] = @ \ {s}]
  /\ sub' = IF sub[s].marked THEN sub
            ELSE [sub EXCEPT ![s].ch = Append(@, ev[p])]
  /\ UNCHANGED <<kind, memVars, fileVars, pc, ev, since, got, countVars>>

\* Mutant: the closed flag is not looked at.
Deliver_Unchecked(p, s) ==
  /\ pc[p] = "deliver"
  /\ s \in targets[p]
  /\ targets' = [targets EXCEPT ![p] = @ \ {s}]
  /\ sub' = IF Len(sub[s].ch) < sub[s].cap
            THEN [sub EXCEPT ![s].ch = Append(@, ev[p])]
            ELSE [sub EXCEPT ![s].dropped = @ + 1]
  /\ UNCHANGED <<kind, memVars, fileVars, pc, ev, since, got, countVars>>

\* Mutant: an event that does not fit is forgotten.
Deliver_SilentDrop(p, s) ==
  /\ pc[p] = "deliver"
  /\ s \in targets[p]
  /\ targets' = [targets EXCEPT ![p] = @ \ {s}]
  /\ sub' = IF ~sub[s].marked /\ Len(sub[s].ch) < sub[s].cap
            THEN [sub EXCEPT ![s].ch = Append(@, ev[p])] ELSE sub
  /\ UNCHANGED <<kind, memVars, fileVars, pc, ev, since, got, countVars>>

\* One deliver: never blocks, drops when the channel is full, does nothing once
\* the subscription is marked closed.
Deliver(p, s) ==
  /\ pc[p] = "deliver"
  /\ s \in targets[p]
  /\ targets' = [targets EXCEPT ![p] = @ \ {s}]
  /\ sub' = IF sub[s].marked THEN sub
            ELSE IF Len(sub[s].ch) < sub[s].cap
            THEN [sub EXCEPT ![s].ch = Append(@, ev[p])]
            ELSE [sub EXCEPT ![s].dropped = @ + 1]
  /\ UNCHANGED <<kind, memVars, fileVars, pc, ev, since, got, countVars>>

\* Mutant: a failed write is reported as written.
WriteOutcome_ErrorIgnored(e) ==
  {[ok |-> TRUE, file |-> IF torn THEN file ELSE Append(file, e), torn |-> torn],
   [ok |-> TRUE, file |-> file, torn |-> torn],
   [ok |-> FALSE, file |-> file, torn |-> TRUE]}

\* The outcomes of writing a line: whether it is reported written, and what is in
\* the file afterwards.  A line that follows one cut short is not decodable.
WriteOutcome(e) ==
  {[ok |-> TRUE, file |-> IF torn THEN file ELSE Append(file, e), torn |-> torn],
   [ok |-> FALSE, file |-> file, torn |-> torn],
   [ok |-> FALSE, file |-> file, torn |-> TRUE]}

\* The rest of Append: a File writes the line and may fail, in which case the event
\* stays in memory and with the subscribers while the caller gets an error.
Finish(p) ==
  /\ pc[p] = "deliver"
  /\ targets[p] = {}
  /\ IF Durable
     THEN \E o \in WriteOutcome(ev[p]) :
            /\ file' = o.file
            /\ torn' = o.torn
            /\ acked' = IF o.ok THEN acked \union {ev[p]} ELSE acked
     ELSE acked' = acked \union {ev[p]} /\ UNCHANGED <<file, torn>>
  /\ pc' = [pc EXCEPT ![p] = "idle"]
  /\ ev' = [ev EXCEPT ![p] = NoEvent]
  /\ UNCHANGED <<kind, memVars, fileOpen, targets, subVars, emitted, restarts>>

(***************************************************************************)
(* Subscriptions.                                                          *)
(***************************************************************************)
\* The events with a sequence of at least from, in the order of the journal.
Replay(from) ==
  LET kept[i \in 0..Len(events)] ==
        IF i = 0 THEN <<>>
        ELSE IF events[i].seq >= from THEN Append(kept[i - 1], events[i])
        ELSE kept[i - 1]
  IN  kept[Len(events)]

\* Backlog and registration in one critical section; the sends come after it.
Subscribe(s, from) ==
  /\ mode = "open"
  /\ sub[s].at = "none"
  /\ sub' = [sub EXCEPT ![s] =
       [NoSubscription EXCEPT !.at = "sending", !.backlog = Replay(from),
                              !.cap = Len(Replay(from)) + Room]]
  /\ since' = [since EXCEPT ![s] = IF from < next THEN from ELSE next]
  /\ subs' = subs \union {s}
  /\ UNCHANGED <<kind, mode, events, next, closing, fileVars, prodVars, got, countVars>>

\* One backlog send, which blocks while the channel is full and panics when
\* Memory.Close has closed it.
SendBacklog(s) ==
  /\ sub[s].at = "sending"
  /\ sub[s].backlog # <<>>
  /\ Len(sub[s].ch) < sub[s].cap
  /\ sub' = [sub EXCEPT ![s].ch = Append(@, Head(sub[s].backlog)),
                        ![s].backlog = Tail(@)]
  /\ UNCHANGED <<kind, memVars, fileVars, prodVars, since, got, countVars>>

SubscribeReturn(s) ==
  /\ sub[s].at = "sending"
  /\ sub[s].backlog = <<>>
  /\ sub' = [sub EXCEPT ![s].at = "open"]
  /\ UNCHANGED <<kind, memVars, fileVars, prodVars, since, got, countVars>>

\* The consumer drains the channel, also after it has been closed.
ReceiveEvent(s) ==
  /\ sub[s].at \in {"open", "closed"}
  /\ sub[s].ch # <<>>
  /\ got' = [got EXCEPT ![s] = Append(@, Head(sub[s].ch))]
  /\ sub' = [sub EXCEPT ![s].ch = Tail(@)]
  /\ UNCHANGED <<kind, memVars, fileVars, prodVars, since, countVars>>

\* Subscription.Close: first the flag, by its holder or by Memory.Close ...
MarkClosed(s) ==
  /\ sub[s].at = "open" \/ (sub[s].at = "sending" /\ s \in closing)
  /\ ~sub[s].marked
  /\ sub' = [sub EXCEPT ![s].marked = TRUE]
  /\ UNCHANGED <<kind, memVars, fileVars, prodVars, since, got, countVars>>

\* ... then it is unregistered and its channel closed.  A Subscribe call that is
\* still sending then panics on its next send.
CloseChannel(s) ==
  /\ sub[s].marked
  /\ sub[s].at \in {"sending", "open"}
  /\ subs' = subs \ {s}
  /\ closing' = closing \ {s}
  /\ sub' = [sub EXCEPT ![s].at =
               IF sub[s].backlog = <<>> THEN "closed" ELSE "panicked"]
  /\ UNCHANGED <<kind, mode, events, next, fileVars, prodVars, since, got, countVars>>

(***************************************************************************)
(* Closing and reopening the journal.                                      *)
(***************************************************************************)
Close ==
  /\ mode = "open"
  /\ mode' = "closed"
  /\ closing' = subs
  /\ subs' = {}
  /\ UNCHANGED <<kind, events, next, fileVars, prodVars, subVars, countVars>>

\* File.Close goes on to the file once Memory.Close is through and File.mu is free.
CloseFile ==
  /\ mode = "closed"
  /\ closing = {}
  /\ fileOpen
  /\ ~FileLocked
  /\ fileOpen' = FALSE
  /\ UNCHANGED <<kind, memVars, file, torn, prodVars, subVars, countVars>>

\* Mutant: reopening numbers the lines afresh.
Load_Renumbers(lines) ==
  [events |-> [i \in 1..Len(lines) |-> [lines[i] EXCEPT !.seq = i - 1]],
   next |-> Len(lines)]

\* The index a reopened journal builds.  counter[i] is Memory.next after line i: a
\* stored sequence above the counter moves the counter up to it first, then
\* appendAssigned numbers the event.
Load(lines) ==
  LET counter[i \in 0..Len(lines)] ==
        IF i = 0 THEN 0
        ELSE IF lines[i].seq > counter[i - 1] THEN lines[i].seq + 1
        ELSE counter[i - 1] + 1
  IN  [events |-> [i \in 1..Len(lines) |-> [lines[i] EXCEPT !.seq = counter[i] - 1]],
       next |-> counter[Len(lines)]]

\* The process ends at any point and a new one opens the journal.  A line being
\* written may be there, cut short, or missing; a line that cannot be decoded makes
\* OpenFile fail.
Restart ==
  LET writing == {p \in Producer : Durable /\ pc[p] = "deliver" /\ targets[p] = {}}
      left == UNION {WriteOutcome(ev[p]) : p \in writing}
  IN
  /\ restarts < RestartBound
  /\ restarts' = restarts + 1
  /\ \E o \in left \union {[file |-> file, torn |-> torn]} :
       /\ file' = o.file
       /\ torn' = o.torn
  /\ mode' = IF torn' THEN "refused" ELSE "open"
  /\ events' = IF torn' THEN <<>> ELSE Load(file').events
  /\ next' = IF torn' THEN 0 ELSE Load(file').next
  /\ fileOpen' = (Durable /\ ~torn')
  /\ subs' = {}
  /\ closing' = {}
  /\ pc' = [p \in Producer |-> "idle"]
  /\ ev' = [p \in Producer |-> NoEvent]
  /\ targets' = [p \in Producer |-> {}]
  /\ sub' = [s \in Sub |-> NoSubscription]
  /\ since' = [s \in Sub |-> 0]
  /\ got' = [s \in Sub |-> <<>>]
  /\ UNCHANGED <<kind, acked, emitted>>

-----------------------------------------------------------------------------
Producing(p) == AppendAssigned(p) \/ (\E s \in Sub : Deliver(p, s)) \/ Finish(p)

Subscribing(s) ==
  \/ \E from \in 0..EventBound : Subscribe(s, from)
  \/ SendBacklog(s)
  \/ SubscribeReturn(s)
  \/ ReceiveEvent(s)
  \/ MarkClosed(s)
  \/ CloseChannel(s)

JNext ==
  \/ \E p \in Producer : Producing(p)
  \/ \E s \in Sub : Subscribing(s)
  \/ Close
  \/ CloseFile
  \/ Restart

JSpec == JInit /\ [][JNext]_jvars

\* A goroutine inside Append keeps running; no consumer has to read.
JFairness ==
  \A p \in Producer :
    /\ \A s \in Sub : WF_jvars(Deliver(p, s))
    /\ WF_jvars(Finish(p))

JFairSpec == JSpec /\ JFairness

-----------------------------------------------------------------------------
Increasing(es) == \A i, j \in DOMAIN es : i < j => es[i].seq < es[j].seq

\* An Append that returned without error can be replayed, after a restart too, as
\* long as no line was cut short (Memory loses its events with the process).
AckedIsReplayable ==
  (mode # "refused" /\ ~torn /\ (Durable \/ restarts = 0)) => acked \subseteq ToSet(events)

\* Backlog and live delivery together give a subscription no event twice, and lose
\* none silently: every event it is entitled to has been received, is on its way to
\* it, or is counted in Dropped.
Owed(s) == got[s] \o sub[s].ch \o sub[s].backlog
InFlight(s) == {p \in Producer : s \in targets[p]}

DeliveredOrCounted ==
  \A s \in Sub :
    /\ \A i, j \in DOMAIN Owed(s) : Owed(s)[i] = Owed(s)[j] => i = j
    /\ sub[s].at \in {"sending", "open"} /\ ~sub[s].marked =>
         Cardinality({i \in DOMAIN events : events[i].seq >= since[s]}) =
           Len(Owed(s)) + sub[s].dropped + Cardinality(InFlight(s))

\* The channel of s has been closed.
Shut(s) == sub[s].at \in {"closed", "panicked"}

\* However Close, Append and Subscribe interleave, closing disturbs nothing but a
\* Subscribe call.  An Append that has assigned a sequence finds the file open when it
\* writes, and deliver never sends on a closed channel.  Subscribe's backlog loop can:
\* it sends without looking at the closed flag (obsv/journal/journal.go:177), and it
\* panics when the channel was closed before its next send (line 60).  Only Memory.Close
\* brings that about, never a subscription's own Close.
ClosingDisturbsOnlySubscribe ==
  [][/\ Durable => \A p \in Producer : pc'[p] # "idle" => fileOpen'
     /\ \A s \in Sub :
          /\ Shut(s) /\ Shut(s)' => Len(sub'[s].ch) <= Len(sub[s].ch)
          /\ sub[s].at # "panicked" /\ sub'[s].at = "panicked" =>
               sub[s].at = "sending" /\ s \in closing]_jvars

\* "a subscriber that cannot keep up drops events rather than blocking the
\* producer" (obsv/journal/journal.go:30): Append returns though nobody reads.
AppendReturns == \A p \in Producer : pc[p] = "deliver" ~> pc[p] = "idle"

\* The file of the journal is an append-only log under increasing sequences.
Log == INSTANCE AppendLog WITH log <- file, Entry <- Event

FileIsAppendLog == Log!LogSpec

\* "Subscription delivers journaled events in sequence order"
\* (obsv/journal/journal.go:29).
DeliveredInSequence == \A s \in Sub : Increasing(got[s])

=============================================================================
