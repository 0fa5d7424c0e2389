--------------------------- MODULE Distribution ---------------------------
(***************************************************************************)
(* Moving work packages and artifacts between two nodes of aa-sync:        *)
(* Distributor.Distribute and Distributor.FetchArtifact on the local node, *)
(* Peer.Serve and Peer.Publish on the remote one                           *)
(* (src/sync/distribute/distribute.go), the offer / chunk / close protocol *)
(* of src/sync/transfer/transfer.go, the in-memory wire of                 *)
(* src/sync/transport/transport.go with its one FIFO inbox per node, and   *)
(* the requests that arrive over src/sync/rpc/rpc.go.                      *)
(*                                                                         *)
(* Calls arrive from the rpc handlers, so several may be under way; all of *)
(* a node's sessions read the same inbox.  A payload is named by its       *)
(* object (kind, id, version); a chunk by its object and index, its hash   *)
(* matches a manifest's exactly when both are the same.  One step is one   *)
(* Send, one Receive or one critical section of the distributor.           *)
(***************************************************************************)
EXTENDS Integers, Sequences, FiniteSets

CONSTANTS
    Callers,      \* goroutines that call Distribute and FetchArtifact
    Keyed,        \* the callers whose requests carry an idempotency key
    Servers,      \* goroutines of the peer that run Serve again and again
    WorkPackages, \* ids of work packages
    Artifacts,    \* ids of artifacts
    Versions,     \* payload versions of one id
    Chunks,       \* chunks of a payload (an empty payload has none)
    Capacity,     \* the inbox capacity, 1024 in NewWire
    None,         \* nothing: no receipt, no payload, no manifest
    MaxCalls,     \* bound on calls
    MaxFaults     \* bound on dropped sends (FailNext) and expired contexts

ASSUME ChunksAssumption == Chunks \in Nat
ASSUME KeyedAssumption == Keyed \subseteq Callers
ASSUME CapacityAssumption == Capacity \in Nat \ {0}
ASSUME NoneAssumption == None \notin WorkPackages \cup Artifacts \cup Versions
ASSUME BoundsAssumption == MaxCalls \in Nat /\ MaxFaults \in Nat

VARIABLES
    caller,     \* the calls under way
    server,     \* the sessions of the peer
    inbox,      \* Wire.inbox of "local" and "remote"
    receipts,   \* Distributor.receipts: the manifest of each key, or None
    answers,    \* rpc Service.cache: the receipt answered to each request, or None
    fetched,    \* Distributor.artifacts: the parts of each artifact, or None
    packages,   \* Peer.packages: the parts of each work package, or None
    published,  \* Peer.artifacts: the version of each artifact, or None
    calls,      \* calls made so far
    faults,     \* dropped sends and expired contexts so far
    disturbed   \* a fault happened, or two calls overlapped

vars == <<caller, server, inbox, receipts, answers, fetched, packages, published, calls, faults, disturbed>>

Object ==
    [kind : {"workpackage"}, id : WorkPackages, ver : Versions]
        \cup [kind : {"artifact"}, id : Artifacts, ver : Versions]
Keys == ({"distribute"} \X WorkPackages) \cup ({"artifact"} \X Artifacts)
Index == 1 .. Chunks

ASSUME NoneIsNoPayload == None \notin Object \cup [Index -> Object]

\* A receiver's parts: the object each chunk was taken from.
NoParts == [i \in {} |-> None]

Frame(kind, obj, idx) == [kind |-> kind, obj |-> obj, idx |-> idx]

\* A session: op and id of the call, the object of its manifest, the receiver's
\* parts, the next chunk to push.
Idle == [pc |-> "idle", op |-> None, id |-> None, man |-> None, parts |-> NoParts, next |-> 1]

DInit ==
    /\ caller = [c \in Callers |-> Idle]
    /\ server = [s \in Servers |-> Idle]
    /\ inbox = [n \in {"local", "remote"} |-> <<>>]
    /\ receipts = [k \in Keys |-> None]
    /\ answers = [k \in Keys |-> None]
    /\ fetched = [a \in Artifacts |-> None]
    /\ packages = [w \in WorkPackages |-> None]
    /\ published = [a \in Artifacts |-> None]
    /\ calls = 0 /\ faults = 0 /\ disturbed = FALSE

----------------------------------------------------------------------------
(* The wire.                                                               *)

Fault == faults < MaxFaults /\ faults' = faults + 1 /\ disturbed' = TRUE
NoFault == UNCHANGED <<faults, disturbed>>

\* memConn.Send: delivered, dropped by an injected failure, or refused by a
\* full inbox.  sent tells the caller.
Send(to, frame, sent) ==
    \/ /\ sent
       /\ Len(inbox[to]) < Capacity
       /\ inbox' = [inbox EXCEPT ![to] = Append(@, frame)]
       /\ NoFault
    \/ /\ ~sent
       /\ UNCHANGED inbox
       /\ \/ Fault
          \/ Len(inbox[to]) = Capacity /\ faults' = faults /\ disturbed' = TRUE

\* memConn.Receive takes the head of the node's inbox.
Receive(at) ==
    /\ inbox[at] # <<>>
    /\ inbox' = [inbox EXCEPT ![at] = Tail(@)]
    /\ NoFault

(* The transfer protocol, for a session x that reads the inbox at.         *)

\* push that ends one chunk early.
NextFrame_OneShort(x) == IF x.next < Chunks THEN Frame("chunk", x.man, x.next) ELSE Frame("close", None, 0)

\* push: the next chunk that the offer does not hold, or the close frame.
\* Both callers of Run make a new receiver, so the offer is always empty.
NextFrame(x) == IF x.next <= Chunks THEN Frame("chunk", x.man, x.next) ELSE Frame("close", None, 0)

\* Receiver.Accept: index in range, length and hash as the manifest says.
Acceptable(x, f) == f.idx \in Index /\ f.obj = x.man

\* Receiver.Complete without its checks.
Complete_Unchecked(x) == TRUE

\* Receiver.Complete: no chunk missing and the hash of the whole as the
\* manifest says.
Complete(x) == DOMAIN x.parts = Index /\ \A i \in DOMAIN x.parts : x.parts[i] = x.man

Put(parts, i, obj) == [j \in DOMAIN parts \cup {i} |-> IF j = i THEN obj ELSE parts[j]]

\* What one frame makes of the receive loop of Receiver.Run: the session goes
\* on, keeps the payload, or ends with an error.
Collected(x, f) ==
    IF f.kind = "chunk" /\ Acceptable(x, f) THEN [x EXCEPT !.parts = Put(@, f.idx, f.obj)]
    ELSE IF f.kind = "close" /\ Complete(x) THEN [x EXCEPT !.pc = "keep"]
    ELSE Idle

\* WaitOffer: anything but an offer is an error.
Offered(x, f) == IF f.kind = "ack" THEN [x EXCEPT !.pc = "push"] ELSE Idle

----------------------------------------------------------------------------
(* The local node.                                                         *)

LocalState == <<receipts, answers, fetched>>
RemoteState == <<server, packages, published>>

Busy == \E c \in Callers : caller[c].pc # "idle"

\* The answer cached under the key of a request.  A key stands for one request,
\* so the cache is kept by operation and id.
Cached(c, op, id) == c \in Keyed /\ answers[<<op, id>>] # None

\* workPackage: a request that names a work package by id has the payload of an
\* earlier one, so ver is any version.
WorkPackageOf(id, ver) == [kind |-> "workpackage", id |-> id, ver |-> ver]

\* distribute and fetchArtifact.
Request(op, id, ver) ==
    [Idle EXCEPT !.op = op, !.id = id, !.man = IF op = "distribute" THEN WorkPackageOf(id, ver) ELSE None]

\* Handle of the rpc service, up to the transfer: a cached answer is returned,
\* under the mutex that is then released.  Distribute and FetchArtifact return an
\* earlier receipt for the object; otherwise the session starts.
Call(c, op, id, ver) ==
    /\ caller[c].pc = "idle"
    /\ calls < MaxCalls
    /\ <<op, id>> \in Keys
    /\ calls' = calls + 1
    /\ \/ Cached(c, op, id) /\ UNCHANGED <<caller, disturbed>>
       \/ /\ ~Cached(c, op, id) /\ receipts[<<op, id>>] # None
          /\ caller' = [caller EXCEPT ![c] =
                IF c \in Keyed THEN [Request(op, id, ver) EXCEPT !.pc = "answer", !.man = receipts[<<op, id>>]] ELSE Idle]
          /\ UNCHANGED disturbed
       \/ /\ ~Cached(c, op, id) /\ receipts[<<op, id>>] = None
          /\ caller' = [caller EXCEPT ![c] = [Request(op, id, ver) EXCEPT !.pc = "open"]]
          /\ disturbed' = (disturbed \/ Busy)
    /\ UNCHANGED <<inbox, faults, LocalState, RemoteState>>

\* Every Send of a call; a failure ends the call with an error.
CallerSend(c) ==
    LET x == caller[c]
        opening == IF x.op = "distribute" THEN Frame("hello", x.man, 0) ELSE Frame("revision", x.id, 0)
        frame == IF x.pc = "open" THEN opening
                 ELSE IF x.pc = "offer" THEN Frame("ack", None, 0) ELSE NextFrame(x)
        after == IF x.pc = "open" THEN [x EXCEPT !.pc = "wait"]
                 ELSE IF x.pc = "offer" THEN [x EXCEPT !.pc = "collect"]
                 ELSE IF x.next <= Chunks THEN [x EXCEPT !.next = @ + 1] ELSE [x EXCEPT !.pc = "store"]
    IN  /\ x.pc \in {"open", "offer", "push"}
        /\ \E sent \in BOOLEAN :
              /\ Send("remote", frame, sent)
              /\ caller' = [caller EXCEPT ![c] = IF sent THEN after ELSE Idle]
        /\ UNCHANGED <<calls, LocalState, RemoteState>>

\* The first answer to a call.  FetchArtifact takes the manifest of whatever
\* hello it reads.
Answered(x, f) ==
    IF x.op = "distribute" THEN Offered(x, f)
    ELSE IF f.kind = "hello" THEN [x EXCEPT !.pc = "offer", !.man = f.obj] ELSE Idle

CallerReceive(c) ==
    /\ caller[c].pc \in {"wait", "collect"}
    /\ Receive("local")
    /\ LET f == Head(inbox["local"])
       IN  caller' = [caller EXCEPT ![c] = IF @.pc = "wait" THEN Answered(@, f) ELSE Collected(@, f)]
    /\ UNCHANGED <<calls, LocalState, RemoteState>>

\* FetchArtifact keeps the data it has received.
Keep(c) ==
    /\ caller[c].pc = "keep"
    /\ fetched' = [fetched EXCEPT ![caller[c].id] = caller[c].parts]
    /\ caller' = [caller EXCEPT ![c].pc = "store"]
    /\ UNCHANGED <<inbox, receipts, answers, calls, faults, disturbed, RemoteState>>

\* The receipt is stored, complete, and the call returns it.
Store(c) ==
    /\ caller[c].pc = "store"
    /\ receipts' = [receipts EXCEPT ![<<caller[c].op, caller[c].id>>] = caller[c].man]
    /\ caller' = [caller EXCEPT ![c] = IF c \in Keyed THEN [@ EXCEPT !.pc = "answer"] ELSE Idle]
    /\ UNCHANGED <<inbox, fetched, answers, calls, faults, disturbed, RemoteState>>

\* The end of Handle: the answer to a request with a key is cached under it,
\* whatever another request under the same key has cached meanwhile.
Answer(c) ==
    /\ caller[c].pc = "answer"
    /\ answers' = [answers EXCEPT ![<<caller[c].op, caller[c].id>>] = caller[c].man]
    /\ caller' = [caller EXCEPT ![c] = Idle]
    /\ UNCHANGED <<inbox, receipts, fetched, calls, faults, disturbed, RemoteState>>

\* The context of a call expires while it waits for a frame.
CallerExpires(c) ==
    /\ caller[c].pc \in {"wait", "collect"}
    /\ Fault
    /\ caller' = [caller EXCEPT ![c] = Idle]
    /\ UNCHANGED <<inbox, calls, LocalState, RemoteState>>

----------------------------------------------------------------------------
(* The peer.                                                               *)

Local == <<caller, LocalState, calls>>

\* Publish makes a version of an artifact available.
Publish(a, ver) ==
    /\ published[a] # ver
    /\ published' = [published EXCEPT ![a] = ver]
    /\ UNCHANGED <<server, packages, inbox, faults, disturbed, Local>>

Serve(s) ==
    /\ server[s].pc = "idle"
    /\ server' = [server EXCEPT ![s] = [Idle EXCEPT !.pc = "first"]]
    /\ UNCHANGED <<packages, published, inbox, faults, disturbed, Local>>

\* The first frame decides what the session is for.
Opened(x, f) ==
    IF f.kind = "hello" /\ f.obj.kind = "workpackage"
    THEN [x EXCEPT !.pc = "offer", !.man = f.obj, !.id = f.obj.id]
    ELSE IF f.kind = "revision"
    THEN IF published[f.obj] = None THEN [x EXCEPT !.pc = "open"]
         ELSE [x EXCEPT !.pc = "open", !.man = [kind |-> "artifact", id |-> f.obj, ver |-> published[f.obj]]]
    ELSE Idle

ServerReceive(s) ==
    /\ server[s].pc \in {"first", "wait", "collect"}
    /\ Receive("remote")
    /\ LET f == Head(inbox["remote"])
       IN  server' = [server EXCEPT ![s] = IF @.pc = "first" THEN Opened(@, f)
                                           ELSE IF @.pc = "wait" THEN Offered(@, f) ELSE Collected(@, f)]
    /\ UNCHANGED <<packages, published, Local>>

\* Every Send of a session.  An artifact that is not published is answered by
\* a close frame, and the session ends.
ServerSend(s) ==
    LET x == server[s]
        frame == IF x.pc = "offer" THEN Frame("ack", None, 0)
                 ELSE IF x.pc = "push" THEN NextFrame(x)
                 ELSE IF x.man = None THEN Frame("close", None, 0) ELSE Frame("hello", x.man, 0)
        after == IF x.pc = "offer" THEN [x EXCEPT !.pc = "collect"]
                 ELSE IF x.pc = "push"
                 THEN IF x.next <= Chunks THEN [x EXCEPT !.next = @ + 1] ELSE Idle
                 ELSE IF x.man = None THEN Idle ELSE [x EXCEPT !.pc = "wait"]
    IN  /\ x.pc \in {"offer", "open", "push"}
        /\ \E sent \in BOOLEAN :
              /\ Send("local", frame, sent)
              /\ server' = [server EXCEPT ![s] = IF sent THEN after ELSE Idle]
        /\ UNCHANGED <<packages, published, Local>>

\* Serve keeps a verified work package under the id of the hello.
ServerKeep(s) ==
    /\ server[s].pc = "keep"
    /\ packages' = [packages EXCEPT ![server[s].id] = server[s].parts]
    /\ server' = [server EXCEPT ![s] = Idle]
    /\ UNCHANGED <<published, inbox, faults, disturbed, Local>>

\* The context of a session expires.
ServerExpires(s) ==
    /\ server[s].pc \in {"first", "wait", "collect"}
    /\ Fault
    /\ server' = [server EXCEPT ![s] = Idle]
    /\ UNCHANGED <<packages, published, inbox, Local>>

----------------------------------------------------------------------------
CallerStep(c) == CallerSend(c) \/ CallerReceive(c) \/ Keep(c) \/ Store(c) \/ Answer(c)
ServerStep(s) == Serve(s) \/ ServerReceive(s) \/ ServerSend(s) \/ ServerKeep(s)

DNext ==
    \/ \E c \in Callers :
          \/ \E k \in Keys, ver \in Versions : Call(c, k[1], k[2], ver)
          \/ CallerStep(c)
          \/ CallerExpires(c)
    \/ \E s \in Servers : ServerStep(s) \/ ServerExpires(s)
    \/ \E a \in Artifacts, ver \in Versions : Publish(a, ver)

DSpec == DInit /\ [][DNext]_vars

\* Goroutines are scheduled and the peer keeps serving; no call has to be made
\* and no context has to expire.
DFairness ==
    /\ \A c \in Callers : WF_vars(CallerStep(c))
    /\ \A s \in Servers : WF_vars(ServerStep(s))

DFairSpec == DSpec /\ DFairness

----------------------------------------------------------------------------
\* The whole payload of one object.
Whole(parts, obj) == parts = [i \in Index |-> obj]

\* Whatever is dropped, cut off or mixed with another session's frames, a node
\* only ever keeps a whole payload of one object, and the peer keeps it under
\* the id of that object (Accept, Complete and Serve).  What a request is answered
\* from the cache has its receipt, and for an artifact also the data, so a failed
\* transfer is tried again by a retry under the same key.
StoredIsWhole ==
    /\ \A w \in WorkPackages : packages[w] # None =>
          \E ver \in Versions : Whole(packages[w], [kind |-> "workpackage", id |-> w, ver |-> ver])
    /\ \A a \in Artifacts : fetched[a] # None => \E o \in Object : Whole(fetched[a], o)
    /\ \A k \in Keys : answers[k] # None =>
          /\ receipts[k] # None
          /\ k[1] = "artifact" => fetched[k[2]] # None

\* Without a fault and with one call at a time a session does what it says and
\* leaves nothing behind: when nobody is in the middle of one, both inboxes are
\* empty, so the next starts clean; Distribute brings the payload to the peer and
\* FetchArtifact the artifact to the caller, each with its receipt, unless the
\* artifact is not there.
NoLeftovers ==
    (~disturbed /\ ~Busy /\ \A s \in Servers : server[s].pc \in {"idle", "first"})
        => \A n \in {"local", "remote"} : inbox[n] = <<>>

CleanDelivery ==
    /\ [][NoLeftovers']_vars
    /\ \A c \in Callers :
        /\ \A w \in WorkPackages, ver \in Versions :
              LET o == [kind |-> "workpackage", id |-> w, ver |-> ver]
              IN  (caller[c].pc = "open" /\ caller[c].man = o)
                     ~> (disturbed \/ (receipts[<<"distribute", w>>] = o /\ packages[w] # None /\ Whole(packages[w], o)))
        /\ \A a \in Artifacts :
              (caller[c].pc = "open" /\ caller[c].op = "artifact" /\ caller[c].id = a /\ published[a] # None)
                  ~> (disturbed \/ \E ver \in Versions :
                        LET o == [kind |-> "artifact", id |-> a, ver |-> ver]
                        IN  receipts[<<"artifact", a>>] = o /\ fetched[a] # None /\ Whole(fetched[a], o))

\* FetchArtifact keeps under an id the artifact that was asked for
\* (FetchArtifact: "pulls an artifact held by a remote node").
FetchedIsRequested ==
    \A a \in Artifacts : fetched[a] # None =>
        \E ver \in Versions : Whole(fetched[a], [kind |-> "artifact", id |-> a, ver |-> ver])
============================================================================
