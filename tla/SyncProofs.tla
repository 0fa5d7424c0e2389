----------------------------- MODULE SyncProofs -----------------------------
(***************************************************************************)
(* Proofs about the sync plane: artifacts that are sent and fetched        *)
(* (Distribution), and offline changes that nodes exchange (Replica).      *)
(*                                                                         *)
(* Distribution, for any number of callers and of sessions of the peer,    *)
(* any payload size, inbox capacity and number of faults: a node keeps     *)
(* whole payloads of one object only, and what a request is answered from  *)
(* the cache is there.  StoredIsWhole speaks of what was kept.  All        *)
(* sessions of a node read one inbox, so a session can be handed any frame *)
(* ever sent to the node; what has to be known is how far a session that   *)
(* holds parts has come: the parts were all taken from the object of its   *)
(* manifest, a manifest is never replaced once a part is held, and nothing *)
(* is stored before the checks of Complete.                                *)
(*                                                                         *)
(* Replica, for any nodes, paths and contents, and lists that are late,    *)
(* repeated, joined or lost: the newest record wins, so nodes that saw the *)
(* same changes agree.  bestByPath is a choice of a maximum, which is      *)
(* there because a node has one record per path and revision               *)
(* (OneRecordEach) and finitely many nodes handed out lists.               *)
(***************************************************************************)
EXTENDS Distribution, Replica, TLAPS, WellFoundedInduction

Frames ==
    {f \in [kind : {"hello", "revision", "ack", "chunk", "close"}, obj : Object \cup Artifacts \cup {None}, idx : Nat] :
        /\ f.kind = "hello" => f.obj \in Object
        /\ f.kind = "revision" => f.obj \in Artifacts}

SessionFields == {"pc", "op", "id", "man", "parts", "next"}

DistributionType ==
    /\ DOMAIN caller = Callers /\ DOMAIN server = Servers
    /\ inbox \in [{"local", "remote"} -> Seq(Frames)]
    /\ receipts \in [Keys -> Object \cup {None}]
    /\ answers \in [Keys -> Object \cup {None}]
    /\ DOMAIN fetched = Artifacts /\ DOMAIN packages = WorkPackages
    /\ published \in [Artifacts -> Versions \cup {None}]

\* Chunks of the object of a session's manifest, and all of them.
SomeParts(x) == x.parts = [i \in DOMAIN x.parts |-> x.man]
AllParts(x) == x.parts = [i \in Index |-> x.man]

\* The parts a receiver holds: none before it collects, then chunks of the
\* object of its manifest, then all of them.
PartsOk(x) ==
    /\ x.pc \notin {"collect", "keep", "store", "answer"} => x.parts = NoParts
    /\ x.pc = "collect" => SomeParts(x)
    /\ x.pc = "keep" => AllParts(x)

\* A call: what it is for, the manifest it has, and what it leaves behind
\* before it stores its receipt and caches its answer.
CallerOk(x) ==
    /\ DOMAIN x = SessionFields /\ x.next \in Nat /\ x.man \in Object \cup {None}
    /\ x.pc \in {"idle", "open", "wait", "push", "offer", "collect", "keep", "store", "answer"}
    /\ x.pc # "idle" => <<x.op, x.id>> \in Keys
    /\ x.op = "distribute" /\ x.pc # "idle" => x.man \in Object /\ x.pc \notin {"offer", "collect", "keep"}
    /\ x.op = "artifact" /\ x.pc \in {"offer", "collect", "keep", "store", "answer"} => x.man \in Object
    /\ x.op = "artifact" => x.pc # "push"
    /\ PartsOk(x)
    /\ x.pc = "store" /\ x.op = "artifact" => fetched[x.id] # None
    /\ x.pc = "answer" => receipts[<<x.op, x.id>>] # None

\* A session of the peer that collects is about a work package, by its id.
ServerOk(x) ==
    /\ DOMAIN x = SessionFields /\ x.next \in Nat /\ x.man \in Object \cup {None}
    /\ x.pc \in {"idle", "first", "open", "wait", "push", "offer", "collect", "keep"}
    /\ x.pc \in {"offer", "collect", "keep"} =>
          x.man \in Object /\ x.man.kind = "workpackage" /\ x.id = x.man.id
    /\ PartsOk(x)

KeptWhole ==
    /\ \A w \in WorkPackages : packages[w] # None =>
          \E ver \in Versions : packages[w] = [i \in Index |-> [kind |-> "workpackage", id |-> w, ver |-> ver]]
    /\ \A a \in Artifacts : fetched[a] # None => \E o \in Object : fetched[a] = [i \in Index |-> o]

\* A receipt of an artifact comes after its data, an answer after the receipt.
ReceiptsBacked ==
    /\ \A a \in Artifacts : receipts[<<"artifact", a>>] # None => fetched[a] # None
    /\ \A k \in Keys : answers[k] # None => receipts[k] # None

SessionsInv ==
    /\ DistributionType
    /\ \A c \in Callers : CallerOk(caller[c])
    /\ \A s \in Servers : ServerOk(server[s])
    /\ KeptWhole
    /\ ReceiptsBacked

----------------------------------------------------------------------------
(* The wire and the protocol.                                              *)

LEMMA NoneIsNoObject == None \notin Object
BY NoneIsNoPayload

\* A session that has not begun.
LEMMA IdleOk == CallerOk(Idle) /\ ServerOk(Idle)
BY DEF Idle, CallerOk, ServerOk, PartsOk, SessionFields

\* Only frames of the protocol are ever in an inbox.
LEMMA SendKeeps ==
    ASSUME inbox \in [{"local", "remote"} -> Seq(Frames)], NEW to \in {"local", "remote"}, NEW frame \in Frames,
           NEW sent \in BOOLEAN, Send(to, frame, sent)
    PROVE  inbox' \in [{"local", "remote"} -> Seq(Frames)]
<1>1. Append(inbox[to], frame) \in Seq(Frames)
    OBVIOUS
<1> QED
    BY <1>1 DEF Send

LEMMA ReceiveKeeps ==
    ASSUME inbox \in [{"local", "remote"} -> Seq(Frames)], NEW at \in {"local", "remote"}, Receive(at)
    PROVE  Head(inbox[at]) \in Frames /\ inbox' \in [{"local", "remote"} -> Seq(Frames)]
<1>1. inbox[at] \in Seq(Frames) /\ inbox[at] # <<>>
    BY DEF Receive
<1>2. Head(inbox[at]) \in Frames /\ Tail(inbox[at]) \in Seq(Frames)
    BY <1>1
<1> QED
    BY <1>2 DEF Receive

\* What one frame makes of a session that collects: whatever it holds comes
\* from the object of its manifest.
LEMMA CollectedFacts ==
    ASSUME NEW x, NEW f, NEW y, x.pc = "collect", DOMAIN x = SessionFields, SomeParts(x), y = Collected(x, f)
    PROVE  \/ y = Idle
           \/ /\ DOMAIN y = SessionFields /\ y.op = x.op /\ y.id = x.id /\ y.man = x.man /\ y.next = x.next
              /\ (y.pc = "collect" /\ SomeParts(y)) \/ (y.pc = "keep" /\ AllParts(y))
<1> USE DEF SomeParts, AllParts
<1>1. CASE f.kind = "chunk" /\ Acceptable(x, f)
  <2> DEFINE p == Put(x.parts, f.idx, f.obj)
  <2>1. y = [x EXCEPT !.parts = p]
    BY <1>1 DEF Collected
  <2>2. f.obj = x.man
    BY <1>1 DEF Acceptable
  <2>3. p = [i \in DOMAIN p |-> x.man]
    <3>1. p = [j \in DOMAIN x.parts \cup {f.idx} |-> IF j = f.idx THEN x.man ELSE x.parts[j]]
      BY <2>2 DEF Put
    <3>2. DOMAIN p = DOMAIN x.parts \cup {f.idx} /\ \A j \in DOMAIN x.parts : x.parts[j] = x.man
      BY <3>1
    <3> QED
      BY <3>1, <3>2
  <2> HIDE DEF p
  <2>4. DOMAIN y = SessionFields /\ y.op = x.op /\ y.id = x.id /\ y.man = x.man /\ y.next = x.next /\ y.pc = x.pc
        /\ y.parts = p
    BY <2>1 DEF SessionFields
  <2> QED
    BY <2>3, <2>4
<1>2. CASE ~(f.kind = "chunk" /\ Acceptable(x, f)) /\ f.kind = "close" /\ Complete(x)
  <2>1. y = [x EXCEPT !.pc = "keep"]
    BY <1>2 DEF Collected
  <2>2. DOMAIN x.parts = Index
    BY <1>2 DEF Complete
  <2>3. /\ DOMAIN y = SessionFields /\ y.op = x.op /\ y.id = x.id /\ y.man = x.man /\ y.next = x.next /\ y.pc = "keep"
        /\ y.parts = x.parts
    BY <2>1 DEF SessionFields
  <2> QED
    BY <2>2, <2>3
<1>3. CASE ~(f.kind = "chunk" /\ Acceptable(x, f)) /\ ~(f.kind = "close" /\ Complete(x))
    BY <1>3 DEF Collected
<1> QED
    BY <1>1, <1>2, <1>3

\* The frames that push sends.
LEMMA NextFrameOk ==
    ASSUME NEW x, x.man \in Object \cup {None}, x.next \in Nat
    PROVE  NextFrame(x) \in Frames
BY ChunksAssumption DEF NextFrame, Frame, Frames

----------------------------------------------------------------------------
(* The local node.                                                         *)

\* A step of a call that stores nothing.
LEMMA CallerMoves ==
    ASSUME SessionsInv, NEW c \in Callers, NEW x, CallerOk(x), caller' = [caller EXCEPT ![c] = x],
           inbox' \in [{"local", "remote"} -> Seq(Frames)], UNCHANGED <<LocalState, RemoteState>>
    PROVE  SessionsInv'
<1>1. DistributionType' /\ KeptWhole' /\ ReceiptsBacked'
    BY DEF SessionsInv, DistributionType, KeptWhole, ReceiptsBacked, LocalState, RemoteState
<1>2. ASSUME NEW d \in Callers PROVE CallerOk(caller[d])'
  <2>1. CallerOk(caller'[d]) /\ UNCHANGED <<fetched, receipts>>
    BY DEF SessionsInv, DistributionType, LocalState
  <2> QED
    BY <2>1 DEF CallerOk, PartsOk
<1>3. ASSUME NEW s \in Servers PROVE ServerOk(server[s])'
  <2>1. ServerOk(server[s]) /\ server' = server
    BY DEF SessionsInv, RemoteState
  <2> QED
    BY <2>1 DEF ServerOk, PartsOk
<1> QED
    BY <1>1, <1>2, <1>3 DEF SessionsInv

\* A step that changes neither sessions nor what is kept.
LEMMA NothingMoves ==
    ASSUME SessionsInv, UNCHANGED <<caller, inbox, LocalState, RemoteState>>
    PROVE  SessionsInv'
<1>1. DistributionType' /\ KeptWhole' /\ ReceiptsBacked'
    BY DEF SessionsInv, DistributionType, KeptWhole, ReceiptsBacked, LocalState, RemoteState
<1>2. ASSUME NEW d \in Callers PROVE CallerOk(caller[d])'
  <2>1. CallerOk(caller[d]) /\ UNCHANGED <<caller, fetched, receipts>>
    BY DEF SessionsInv, LocalState
  <2> QED
    BY <2>1 DEF CallerOk, PartsOk
<1>3. ASSUME NEW s \in Servers PROVE ServerOk(server[s])'
  <2>1. ServerOk(server[s]) /\ server' = server
    BY DEF SessionsInv, RemoteState
  <2> QED
    BY <2>1 DEF ServerOk, PartsOk
<1> QED
    BY <1>1, <1>2, <1>3 DEF SessionsInv

LEMMA CallKeeps ==
    ASSUME SessionsInv, NEW c \in Callers, NEW k \in Keys, NEW ver \in Versions, Call(c, k[1], k[2], ver)
    PROVE  SessionsInv'
<1> DEFINE opn == k[1]
           id == k[2]
           r == Request(opn, id, ver)
<1>1. <<opn, id>> \in Keys /\ opn \in {"distribute", "artifact"} /\ (opn = "distribute" => id \in WorkPackages)
    BY DEF Call, Keys
<1>2. /\ DOMAIN r = SessionFields /\ r.op = opn /\ r.id = id /\ r.next = 1 /\ r.parts = NoParts
      /\ r.man = IF opn = "distribute" THEN WorkPackageOf(id, ver) ELSE None
    BY DEF Request, Idle, SessionFields
<1>3. opn = "distribute" => r.man \in Object
    BY <1>1, <1>2 DEF WorkPackageOf, Object
<1>4. opn = "artifact" => r.man = None
    BY <1>2
<1> HIDE DEF r
<1>5. inbox' \in [{"local", "remote"} -> Seq(Frames)] /\ UNCHANGED <<LocalState, RemoteState>>
    BY DEF Call, SessionsInv, DistributionType, LocalState, RemoteState
<1>6. CASE UNCHANGED caller
    BY <1>5, <1>6, NothingMoves DEF Call
<1>7. CASE caller' = [caller EXCEPT ![c] = Idle]
    BY <1>5, <1>7, IdleOk, CallerMoves
<1>8. CASE receipts[<<opn, id>>] # None /\ caller' = [caller EXCEPT ![c] = [r EXCEPT !.pc = "answer", !.man = receipts[<<opn, id>>]]]
  <2> DEFINE x == [r EXCEPT !.pc = "answer", !.man = receipts[<<opn, id>>]]
  <2>1. receipts[<<opn, id>>] \in Object /\ receipts[<<opn, id>>] # None
    BY <1>1, <1>8 DEF SessionsInv, DistributionType
  <2>2. DOMAIN x = SessionFields /\ x.op = opn /\ x.id = id /\ x.next = 1 /\ x.pc = "answer" /\ x.man = receipts[<<opn, id>>]
    BY <1>2 DEF SessionFields
  <2> HIDE DEF x
  <2>3. CallerOk(x)
    BY <1>1, <2>1, <2>2 DEF CallerOk, PartsOk
  <2> QED
    BY <1>5, <1>8, <2>3, CallerMoves DEF x
<1>9. CASE caller' = [caller EXCEPT ![c] = [r EXCEPT !.pc = "open"]]
  <2> DEFINE x == [r EXCEPT !.pc = "open"]
  <2>1. /\ DOMAIN x = SessionFields /\ x.op = opn /\ x.id = id /\ x.next = 1 /\ x.pc = "open"
        /\ x.man = r.man /\ x.parts = NoParts
    BY <1>2 DEF SessionFields
  <2> HIDE DEF x
  <2>2. CallerOk(x)
    BY <1>1, <1>3, <1>4, <2>1 DEF CallerOk, PartsOk
  <2> QED
    BY <1>5, <1>9, <2>2, CallerMoves DEF x
<1> QED
    BY <1>6, <1>7, <1>8, <1>9 DEF Call, r

LEMMA CallerSendKeeps ==
    ASSUME SessionsInv, NEW c \in Callers, CallerSend(c)
    PROVE  SessionsInv'
<1> DEFINE x == caller[c]
           opening == IF x.op = "distribute" THEN Frame("hello", x.man, 0) ELSE Frame("revision", x.id, 0)
           frame == IF x.pc = "open" THEN opening
                    ELSE IF x.pc = "offer" THEN Frame("ack", None, 0) ELSE NextFrame(x)
           after == IF x.pc = "open" THEN [x EXCEPT !.pc = "wait"]
                    ELSE IF x.pc = "offer" THEN [x EXCEPT !.pc = "collect"]
                    ELSE IF x.next <= Chunks THEN [x EXCEPT !.next = @ + 1] ELSE [x EXCEPT !.pc = "store"]
<1>1. CallerOk(x) /\ x.pc \in {"open", "offer", "push"}
    BY DEF SessionsInv, CallerSend
<1>2. PICK sent \in BOOLEAN :
          Send("remote", frame, sent) /\ caller' = [caller EXCEPT ![c] = IF sent THEN after ELSE Idle]
    BY DEF CallerSend
<1>3. UNCHANGED <<LocalState, RemoteState>>
    BY DEF CallerSend
<1>4. frame \in Frames
  <2>1. CASE x.pc = "open"
    <3>1. CASE x.op = "distribute"
      BY <1>1, <2>1, <3>1 DEF CallerOk, Frame, Frames
    <3>2. CASE x.op # "distribute"
      <4>1. x.id \in Artifacts
        BY <1>1, <2>1, <3>2 DEF CallerOk, Keys
      <4> QED
        BY <2>1, <3>2, <4>1 DEF Frame, Frames
    <3> QED
      BY <3>1, <3>2
  <2>2. CASE x.pc = "offer"
    BY <2>2 DEF Frame, Frames
  <2>3. CASE x.pc = "push"
    BY <1>1, <2>3, NextFrameOk DEF CallerOk
  <2> QED
    BY <1>1, <2>1, <2>2, <2>3
<1>5. CallerOk(after)
  <2>1. CASE x.pc = "open"
    <3>1. after = [x EXCEPT !.pc = "wait"]
      BY <2>1
    <3> HIDE DEF after
    <3> QED
      BY <1>1, <2>1, <3>1 DEF CallerOk, PartsOk, SessionFields
  <2>2. CASE x.pc = "offer"
    <3>1. after = [x EXCEPT !.pc = "collect"]
      BY <2>2
    <3> HIDE DEF after
    <3>2. DOMAIN after = SessionFields /\ after.pc = "collect" /\ after.parts = NoParts /\ after.man = x.man
          /\ after.op = x.op /\ after.id = x.id /\ after.next = x.next
      BY <1>1, <2>2, <3>1 DEF CallerOk, PartsOk, SessionFields
    <3>3. SomeParts(after)
      BY <3>2 DEF NoParts, SomeParts
    <3> QED
      BY <1>1, <2>2, <3>2, <3>3 DEF CallerOk, PartsOk
  <2>3. CASE x.pc = "push" /\ x.next <= Chunks
    <3>1. after = [x EXCEPT !.next = x.next + 1]
      BY <2>3
    <3> HIDE DEF after
    <3> QED
      BY <1>1, <2>3, <3>1 DEF CallerOk, PartsOk, SessionFields
  <2>4. CASE x.pc = "push" /\ ~(x.next <= Chunks)
    <3>1. after = [x EXCEPT !.pc = "store"]
      BY <2>4
    <3> HIDE DEF after
    <3> QED
      BY <1>1, <2>4, <3>1 DEF CallerOk, PartsOk, SessionFields
  <2> QED
    BY <1>1, <2>1, <2>2, <2>3, <2>4
<1> HIDE DEF frame, after
<1>6. inbox' \in [{"local", "remote"} -> Seq(Frames)]
    BY <1>2, <1>4, SendKeeps DEF SessionsInv, DistributionType
<1>7. CASE sent
    BY <1>2, <1>3, <1>5, <1>6, <1>7, CallerMoves
<1>8. CASE ~sent
    BY <1>2, <1>3, <1>6, <1>8, IdleOk, CallerMoves
<1> QED
    BY <1>7, <1>8

LEMMA CallerReceiveKeeps ==
    ASSUME SessionsInv, NEW c \in Callers, CallerReceive(c)
    PROVE  SessionsInv'
<1> DEFINE x == caller[c]
           f == Head(inbox["local"])
           y == IF x.pc = "wait" THEN Answered(x, f) ELSE Collected(x, f)
<1>1. CallerOk(x) /\ x.pc \in {"wait", "collect"}
    BY DEF SessionsInv, CallerReceive
<1>2. f \in Frames /\ inbox' \in [{"local", "remote"} -> Seq(Frames)]
    BY ReceiveKeeps DEF CallerReceive, SessionsInv, DistributionType
<1>3. caller' = [caller EXCEPT ![c] = y] /\ UNCHANGED <<LocalState, RemoteState>>
    BY DEF CallerReceive, SessionsInv, DistributionType
<1> HIDE DEF f
<1>4. CallerOk(y)
  <2>1. CASE x.pc = "wait" /\ x.op = "distribute" /\ f.kind = "ack"
    <3>1. y = [x EXCEPT !.pc = "push"]
      BY <2>1 DEF Answered, Offered
    <3> HIDE DEF y
    <3> QED
      BY <1>1, <2>1, <3>1 DEF CallerOk, PartsOk, SessionFields
  <2>2. CASE x.pc = "wait" /\ x.op # "distribute" /\ f.kind = "hello"
    <3>1. y = [x EXCEPT !.pc = "offer", !.man = f.obj]
      BY <2>2 DEF Answered
    <3>2. f.obj \in Object
      BY <1>2, <2>2 DEF Frames
    <3> HIDE DEF y
    <3> QED
      BY <1>1, <2>2, <3>1, <3>2 DEF CallerOk, PartsOk, SessionFields
  <2>3. CASE x.pc = "wait" /\ ~(x.op = "distribute" /\ f.kind = "ack") /\ ~(x.op # "distribute" /\ f.kind = "hello")
    <3>1. y = Idle
      BY <2>3 DEF Answered, Offered
    <3> QED
      BY <3>1, IdleOk
  <2>4. CASE x.pc = "collect"
    <3>1. y = Collected(x, f)
      BY <2>4
    <3>2. \/ y = Idle
          \/ /\ DOMAIN y = SessionFields /\ y.op = x.op /\ y.id = x.id /\ y.man = x.man /\ y.next = x.next
             /\ (y.pc = "collect" /\ SomeParts(y)) \/ (y.pc = "keep" /\ AllParts(y))
      BY <1>1, <2>4, <3>1, CollectedFacts DEF CallerOk, PartsOk
    <3> HIDE DEF y
    <3> QED
      BY <1>1, <2>4, <3>2, IdleOk DEF CallerOk, PartsOk
  <2> QED
    BY <1>1, <2>1, <2>2, <2>3, <2>4
<1> HIDE DEF y
<1> QED
    BY <1>2, <1>3, <1>4, CallerMoves

\* A session of the peer is as it was when a call stores what it has.
LEMMA ServersRest ==
    ASSUME SessionsInv, UNCHANGED server
    PROVE  \A s \in Servers : ServerOk(server[s])'
<1> SUFFICES ASSUME NEW s \in Servers PROVE ServerOk(server[s])'
    OBVIOUS
<1>1. ServerOk(server[s])
    BY DEF SessionsInv
<1> QED
    BY <1>1 DEF ServerOk, PartsOk

\* The data of an artifact is kept before its receipt.
LEMMA KeepKeeps ==
    ASSUME SessionsInv, NEW c \in Callers, Keep(c)
    PROVE  SessionsInv'
<1> DEFINE x == caller[c]
           y == [x EXCEPT !.pc = "store"]
<1>1. /\ CallerOk(x) /\ x.pc = "keep" /\ x.id \in Artifacts /\ x.op = "artifact" /\ x.man \in Object
      /\ x.parts = [i \in Index |-> x.man]
  <2>1. CallerOk(x) /\ x.pc = "keep"
    BY DEF SessionsInv, Keep
  <2>2. <<x.op, x.id>> \in Keys /\ x.op # "distribute"
    BY <2>1 DEF CallerOk
  <2>3. x.op = "artifact" /\ x.id \in Artifacts
    BY <2>2 DEF Keys
  <2> QED
    BY <2>1, <2>3 DEF CallerOk, PartsOk, AllParts
<1>2. /\ fetched' = [fetched EXCEPT ![x.id] = x.parts] /\ caller' = [caller EXCEPT ![c] = y]
      /\ UNCHANGED <<inbox, receipts, answers, server, packages, published>>
    BY DEF Keep, RemoteState
<1>3. x.parts # None
    BY <1>1, NoneIsNoPayload
<1>4. fetched'[x.id] = x.parts /\ \A a \in Artifacts : a # x.id => fetched'[a] = fetched[a]
    BY <1>1, <1>2 DEF SessionsInv, DistributionType
<1>5. DistributionType'
    BY <1>2 DEF SessionsInv, DistributionType
<1>6. KeptWhole'
  <2>1. ASSUME NEW a \in Artifacts, fetched'[a] # None PROVE \E o \in Object : fetched'[a] = [i \in Index |-> o]
    <3>1. CASE a = x.id
      <4>1. fetched'[a] = [i \in Index |-> x.man]
        BY <1>1, <1>4, <3>1
      <4> QED
        BY <1>1, <4>1
    <3>2. CASE a # x.id
      BY <1>4, <2>1, <3>2 DEF SessionsInv, KeptWhole
    <3> QED
      BY <3>1, <3>2
  <2> QED
    BY <1>2, <2>1 DEF SessionsInv, KeptWhole
<1>7. ReceiptsBacked'
    BY <1>2, <1>3, <1>4 DEF SessionsInv, ReceiptsBacked
<1>8. y.pc = "store" /\ y.op = x.op /\ y.id = x.id /\ y.man = x.man /\ y.next = x.next /\ DOMAIN y = SessionFields
    BY <1>1 DEF CallerOk, SessionFields
<1>9. ASSUME NEW d \in Callers PROVE CallerOk(caller[d])'
  <2>1. CASE d = c
    <3>1. caller'[d] = y
      BY <1>2, <2>1 DEF SessionsInv, DistributionType
    <3> HIDE DEF y
    <3> QED
      BY <1>1, <1>2, <1>3, <1>4, <1>8, <3>1 DEF CallerOk, PartsOk
  <2>2. CASE d # c
    <3>1. caller'[d] = caller[d] /\ CallerOk(caller[d])
      BY <1>2, <2>2 DEF SessionsInv, DistributionType
    <3>2. \A a \in Artifacts : fetched[a] # None => fetched'[a] # None
      BY <1>3, <1>4
    <3>3. caller[d].pc = "store" /\ caller[d].op = "artifact" => caller[d].id \in Artifacts
      BY <3>1 DEF CallerOk, Keys
    <3> QED
      BY <1>2, <3>1, <3>2, <3>3 DEF CallerOk, PartsOk
  <2> QED
    BY <2>1, <2>2
<1> QED
    BY <1>2, <1>5, <1>6, <1>7, <1>9, ServersRest DEF SessionsInv

LEMMA StoreKeeps ==
    ASSUME SessionsInv, NEW c \in Callers, Store(c)
    PROVE  SessionsInv'
<1> DEFINE x == caller[c]
           k == <<x.op, x.id>>
           z == [x EXCEPT !.pc = "answer"]
           y == IF c \in Keyed THEN z ELSE Idle
<1>1. /\ CallerOk(x) /\ x.pc = "store" /\ k \in Keys /\ x.man \in Object
      /\ x.op = "artifact" => fetched[x.id] # None
    BY DEF SessionsInv, Store, CallerOk, Keys
<1>2. /\ receipts' = [receipts EXCEPT ![k] = x.man] /\ caller' = [caller EXCEPT ![c] = y]
      /\ UNCHANGED <<inbox, fetched, answers, server, packages, published>>
    BY DEF Store, RemoteState, SessionsInv, DistributionType
<1>3. x.man # None
    BY <1>1, NoneIsNoObject
<1>4. receipts'[k] = x.man /\ \A q \in Keys : q # k => receipts'[q] = receipts[q]
    BY <1>1, <1>2 DEF SessionsInv, DistributionType
<1>5. DistributionType'
    BY <1>1, <1>2 DEF SessionsInv, DistributionType
<1>6. KeptWhole'
    BY <1>2 DEF SessionsInv, KeptWhole
<1>7. ReceiptsBacked'
  <2>1. \A a \in Artifacts : receipts'[<<"artifact", a>>] # None => fetched[a] # None
    <3> SUFFICES ASSUME NEW a \in Artifacts, receipts'[<<"artifact", a>>] # None PROVE fetched[a] # None
      OBVIOUS
    <3>1. <<"artifact", a>> \in Keys
      BY DEF Keys
    <3>2. CASE <<"artifact", a>> = k
      BY <1>1, <3>2
    <3>3. CASE <<"artifact", a>> # k
      BY <1>4, <3>1, <3>3 DEF SessionsInv, ReceiptsBacked
    <3> QED
      BY <3>2, <3>3
  <2>2. \A q \in Keys : answers[q] # None => receipts'[q] # None
    BY <1>3, <1>4 DEF SessionsInv, ReceiptsBacked
  <2> QED
    BY <1>2, <2>1, <2>2 DEF ReceiptsBacked
<1>8. z.pc = "answer" /\ z.op = x.op /\ z.id = x.id /\ z.man = x.man /\ z.next = x.next /\ DOMAIN z = SessionFields
    BY <1>1 DEF CallerOk, SessionFields
<1> HIDE DEF z
<1>9. ASSUME NEW d \in Callers PROVE CallerOk(caller[d])'
  <2>1. CASE d = c
    <3>1. caller'[d] = y
      BY <1>2, <2>1 DEF SessionsInv, DistributionType
    <3>2. CASE c \in Keyed
      BY <1>1, <1>2, <1>3, <1>4, <1>8, <3>1, <3>2 DEF CallerOk, PartsOk
    <3>3. CASE c \notin Keyed
      BY <3>1, <3>3 DEF CallerOk, PartsOk, Idle, SessionFields
    <3> QED
      BY <3>2, <3>3
  <2>2. CASE d # c
    <3>1. caller'[d] = caller[d] /\ CallerOk(caller[d])
      BY <1>2, <2>2 DEF SessionsInv, DistributionType
    <3>2. \A q \in Keys : receipts[q] # None => receipts'[q] # None
      BY <1>3, <1>4
    <3> QED
      BY <1>2, <3>1, <3>2 DEF CallerOk, PartsOk
  <2> QED
    BY <2>1, <2>2
<1> QED
    BY <1>2, <1>5, <1>6, <1>7, <1>9, ServersRest DEF SessionsInv

LEMMA AnswerKeeps ==
    ASSUME SessionsInv, NEW c \in Callers, Answer(c)
    PROVE  SessionsInv'
<1> DEFINE x == caller[c]
           k == <<x.op, x.id>>
<1>1. CallerOk(x) /\ x.pc = "answer" /\ k \in Keys /\ receipts[k] # None /\ x.man \in Object \cup {None}
    BY DEF SessionsInv, Answer, CallerOk
<1>2. /\ answers' = [answers EXCEPT ![k] = x.man] /\ caller' = [caller EXCEPT ![c] = Idle]
      /\ UNCHANGED <<inbox, fetched, receipts, server, packages, published>>
    BY DEF Answer, RemoteState
<1>3. DistributionType'
    BY <1>1, <1>2 DEF SessionsInv, DistributionType
<1>4. KeptWhole'
    BY <1>2 DEF SessionsInv, KeptWhole
<1>5. ReceiptsBacked'
    BY <1>1, <1>2 DEF SessionsInv, DistributionType, ReceiptsBacked
<1>6. ASSUME NEW d \in Callers PROVE CallerOk(caller[d])'
  <2>1. CallerOk(caller'[d])
    BY <1>2, IdleOk DEF SessionsInv, DistributionType
  <2> QED
    BY <1>2, <2>1 DEF CallerOk, PartsOk
<1> QED
    BY <1>2, <1>3, <1>4, <1>5, <1>6, ServersRest DEF SessionsInv

----------------------------------------------------------------------------
(* The peer.                                                               *)

\* A call is as it was when a session of the peer moves.
LEMMA CallersRest ==
    ASSUME SessionsInv, UNCHANGED <<caller, fetched, receipts>>
    PROVE  \A c \in Callers : CallerOk(caller[c])'
<1> SUFFICES ASSUME NEW c \in Callers PROVE CallerOk(caller[c])'
    OBVIOUS
<1>1. CallerOk(caller[c])
    BY DEF SessionsInv
<1> QED
    BY <1>1 DEF CallerOk, PartsOk

LEMMA ServerMoves ==
    ASSUME SessionsInv, NEW s \in Servers, NEW x, ServerOk(x), server' = [server EXCEPT ![s] = x],
           inbox' \in [{"local", "remote"} -> Seq(Frames)], UNCHANGED <<caller, LocalState, packages, published>>
    PROVE  SessionsInv'
<1>1. DistributionType' /\ KeptWhole' /\ ReceiptsBacked'
    BY DEF SessionsInv, DistributionType, KeptWhole, ReceiptsBacked, LocalState
<1>2. \A c \in Callers : CallerOk(caller[c])'
    BY CallersRest DEF LocalState
<1>3. ASSUME NEW t \in Servers PROVE ServerOk(server[t])'
  <2>1. ServerOk(server'[t])
    BY DEF SessionsInv, DistributionType
  <2> QED
    BY <2>1 DEF ServerOk, PartsOk
<1> QED
    BY <1>1, <1>2, <1>3 DEF SessionsInv

LEMMA ServeKeeps ==
    ASSUME SessionsInv, NEW s \in Servers, Serve(s)
    PROVE  SessionsInv'
<1> DEFINE x == [Idle EXCEPT !.pc = "first"]
<1>1. ServerOk(x)
    BY DEF Idle, ServerOk, PartsOk, SessionFields
<1>2. /\ server' = [server EXCEPT ![s] = x] /\ UNCHANGED <<caller, LocalState, packages, published>>
      /\ inbox' \in [{"local", "remote"} -> Seq(Frames)]
    BY DEF Serve, Local, SessionsInv, DistributionType
<1> HIDE DEF x
<1> QED
    BY <1>1, <1>2, ServerMoves

LEMMA ServerReceiveKeeps ==
    ASSUME SessionsInv, NEW s \in Servers, ServerReceive(s)
    PROVE  SessionsInv'
<1> DEFINE x == server[s]
           f == Head(inbox["remote"])
           y == IF x.pc = "first" THEN Opened(x, f) ELSE IF x.pc = "wait" THEN Offered(x, f) ELSE Collected(x, f)
<1>1. ServerOk(x) /\ x.pc \in {"first", "wait", "collect"}
    BY DEF SessionsInv, ServerReceive
<1>2. f \in Frames /\ inbox' \in [{"local", "remote"} -> Seq(Frames)]
    BY ReceiveKeeps DEF ServerReceive, SessionsInv, DistributionType
<1>3. server' = [server EXCEPT ![s] = y] /\ UNCHANGED <<caller, LocalState, packages, published>>
    BY DEF ServerReceive, SessionsInv, DistributionType, Local
<1> HIDE DEF f
<1>4. ServerOk(y)
  <2>1. CASE x.pc = "first" /\ f.kind = "hello" /\ f.obj.kind = "workpackage"
    <3>1. y = [x EXCEPT !.pc = "offer", !.man = f.obj, !.id = f.obj.id]
      BY <2>1 DEF Opened
    <3>2. f.obj \in Object
      BY <1>2, <2>1 DEF Frames
    <3> HIDE DEF y
    <3> QED
      BY <1>1, <2>1, <3>1, <3>2 DEF ServerOk, PartsOk, SessionFields
  <2>2. CASE x.pc = "first" /\ f.kind = "revision"
    <3>1. f.obj \in Artifacts
      BY <1>2, <2>2 DEF Frames
    <3>2. CASE published[f.obj] = None
      <4>1. y = [x EXCEPT !.pc = "open"]
        BY <2>2, <3>2 DEF Opened
      <4> HIDE DEF y
      <4> QED
        BY <1>1, <2>2, <4>1 DEF ServerOk, PartsOk, SessionFields
    <3>3. CASE published[f.obj] # None
      <4> DEFINE o == [kind |-> "artifact", id |-> f.obj, ver |-> published[f.obj]]
      <4>1. y = [x EXCEPT !.pc = "open", !.man = o]
        BY <2>2, <3>3 DEF Opened
      <4>2. o \in Object
        BY <3>1, <3>3 DEF Object, SessionsInv, DistributionType
      <4> HIDE DEF y, o
      <4> QED
        BY <1>1, <2>2, <4>1, <4>2 DEF ServerOk, PartsOk, SessionFields
    <3> QED
      BY <3>2, <3>3
  <2>3. CASE x.pc = "first" /\ ~(f.kind = "hello" /\ f.obj.kind = "workpackage") /\ f.kind # "revision"
    <3>1. y = Idle
      BY <2>3 DEF Opened
    <3> QED
      BY <3>1, IdleOk
  <2>4. CASE x.pc = "wait" /\ f.kind = "ack"
    <3>1. y = [x EXCEPT !.pc = "push"]
      BY <2>4 DEF Offered
    <3> HIDE DEF y
    <3> QED
      BY <1>1, <2>4, <3>1 DEF ServerOk, PartsOk, SessionFields
  <2>5. CASE x.pc = "wait" /\ f.kind # "ack"
    <3>1. y = Idle
      BY <2>5 DEF Offered
    <3> QED
      BY <3>1, IdleOk
  <2>6. CASE x.pc = "collect"
    <3>1. y = Collected(x, f)
      BY <2>6
    <3>2. \/ y = Idle
          \/ /\ DOMAIN y = SessionFields /\ y.op = x.op /\ y.id = x.id /\ y.man = x.man /\ y.next = x.next
             /\ (y.pc = "collect" /\ SomeParts(y)) \/ (y.pc = "keep" /\ AllParts(y))
      BY <1>1, <2>6, <3>1, CollectedFacts DEF ServerOk, PartsOk
    <3> HIDE DEF y
    <3> QED
      BY <1>1, <2>6, <3>2, IdleOk DEF ServerOk, PartsOk
  <2> QED
    BY <1>1, <2>1, <2>2, <2>3, <2>4, <2>5, <2>6
<1> HIDE DEF y
<1> QED
    BY <1>2, <1>3, <1>4, ServerMoves

LEMMA ServerSendKeeps ==
    ASSUME SessionsInv, NEW s \in Servers, ServerSend(s)
    PROVE  SessionsInv'
<1> DEFINE x == server[s]
           frame == IF x.pc = "offer" THEN Frame("ack", None, 0)
                    ELSE IF x.pc = "push" THEN NextFrame(x)
                    ELSE IF x.man = None THEN Frame("close", None, 0) ELSE Frame("hello", x.man, 0)
           after == IF x.pc = "offer" THEN [x EXCEPT !.pc = "collect"]
                    ELSE IF x.pc = "push"
                    THEN IF x.next <= Chunks THEN [x EXCEPT !.next = @ + 1] ELSE Idle
                    ELSE IF x.man = None THEN Idle ELSE [x EXCEPT !.pc = "wait"]
<1>1. ServerOk(x) /\ x.pc \in {"open", "offer", "push"}
    BY DEF SessionsInv, ServerSend
<1>2. PICK sent \in BOOLEAN :
          Send("local", frame, sent) /\ server' = [server EXCEPT ![s] = IF sent THEN after ELSE Idle]
    BY DEF ServerSend
<1>3. UNCHANGED <<caller, LocalState, packages, published>>
    BY DEF ServerSend, Local
<1>4. frame \in Frames
  <2>1. CASE x.pc = "open"
    BY <1>1, <2>1 DEF ServerOk, Frame, Frames
  <2>2. CASE x.pc = "offer"
    BY <2>2 DEF Frame, Frames
  <2>3. CASE x.pc = "push"
    BY <1>1, <2>3, NextFrameOk DEF ServerOk
  <2> QED
    BY <1>1, <2>1, <2>2, <2>3
<1>5. ServerOk(after)
  <2>1. CASE x.pc = "offer"
    <3>1. after = [x EXCEPT !.pc = "collect"]
      BY <2>1
    <3> HIDE DEF after
    <3>2. DOMAIN after = SessionFields /\ after.pc = "collect" /\ after.parts = NoParts /\ after.man = x.man
          /\ after.op = x.op /\ after.id = x.id /\ after.next = x.next
      BY <1>1, <2>1, <3>1 DEF ServerOk, PartsOk, SessionFields
    <3>3. SomeParts(after)
      BY <3>2 DEF NoParts, SomeParts
    <3> QED
      BY <1>1, <2>1, <3>2, <3>3 DEF ServerOk, PartsOk
  <2>2. CASE x.pc = "push" /\ x.next <= Chunks
    <3>1. after = [x EXCEPT !.next = x.next + 1]
      BY <2>2
    <3> HIDE DEF after
    <3> QED
      BY <1>1, <2>2, <3>1 DEF ServerOk, PartsOk, SessionFields
  <2>3. CASE (x.pc = "push" /\ ~(x.next <= Chunks)) \/ (x.pc = "open" /\ x.man = None)
    <3>1. after = Idle
      BY <2>3
    <3> QED
      BY <3>1, IdleOk
  <2>4. CASE x.pc = "open" /\ x.man # None
    <3>1. after = [x EXCEPT !.pc = "wait"]
      BY <2>4
    <3> HIDE DEF after
    <3> QED
      BY <1>1, <2>4, <3>1 DEF ServerOk, PartsOk, SessionFields
  <2> QED
    BY <1>1, <2>1, <2>2, <2>3, <2>4
<1> HIDE DEF frame, after
<1>6. inbox' \in [{"local", "remote"} -> Seq(Frames)]
    BY <1>2, <1>4, SendKeeps DEF SessionsInv, DistributionType
<1>7. CASE sent
    BY <1>2, <1>3, <1>5, <1>6, <1>7, ServerMoves
<1>8. CASE ~sent
    BY <1>2, <1>3, <1>6, <1>8, IdleOk, ServerMoves
<1> QED
    BY <1>7, <1>8

\* A work package is kept under the id of its own manifest.
LEMMA ServerKeepKeeps ==
    ASSUME SessionsInv, NEW s \in Servers, ServerKeep(s)
    PROVE  SessionsInv'
<1> DEFINE x == server[s]
<1>1. /\ ServerOk(x) /\ x.pc = "keep" /\ x.man \in Object /\ x.man.kind = "workpackage" /\ x.id = x.man.id
      /\ x.parts = [i \in Index |-> x.man]
    BY DEF SessionsInv, ServerKeep, ServerOk, PartsOk, AllParts
<1>2. /\ packages' = [packages EXCEPT ![x.id] = x.parts] /\ server' = [server EXCEPT ![s] = Idle]
      /\ UNCHANGED <<inbox, receipts, answers, fetched, caller, published>>
    BY DEF ServerKeep, Local, LocalState
<1>3. /\ x.id \in WorkPackages /\ x.man.ver \in Versions
      /\ x.man = [kind |-> "workpackage", id |-> x.id, ver |-> x.man.ver]
    BY <1>1 DEF Object
<1>4. DistributionType'
    BY <1>2 DEF SessionsInv, DistributionType
<1>5. packages'[x.id] = x.parts /\ \A w \in WorkPackages : w # x.id => packages'[w] = packages[w]
    BY <1>2, <1>3 DEF SessionsInv, DistributionType
<1>6. KeptWhole'
  <2>1. \A w \in WorkPackages : packages'[w] # None =>
          \E ver \in Versions : packages'[w] = [i \in Index |-> [kind |-> "workpackage", id |-> w, ver |-> ver]]
    <3> SUFFICES ASSUME NEW w \in WorkPackages, packages'[w] # None
                 PROVE  \E ver \in Versions :
                            packages'[w] = [i \in Index |-> [kind |-> "workpackage", id |-> w, ver |-> ver]]
      OBVIOUS
    <3>1. CASE w = x.id
      BY <1>1, <1>3, <1>5, <3>1
    <3>2. CASE w # x.id
      BY <1>5, <3>2 DEF SessionsInv, KeptWhole
    <3> QED
      BY <3>1, <3>2
  <2> QED
    BY <1>2, <2>1 DEF SessionsInv, KeptWhole
<1>7. ReceiptsBacked'
    BY <1>2 DEF SessionsInv, ReceiptsBacked
<1>8. \A c \in Callers : CallerOk(caller[c])'
    BY <1>2, CallersRest
<1>9. ASSUME NEW t \in Servers PROVE ServerOk(server[t])'
  <2>1. ServerOk(server'[t])
    BY <1>2, IdleOk DEF SessionsInv, DistributionType
  <2> QED
    BY <2>1 DEF ServerOk, PartsOk
<1> QED
    BY <1>4, <1>6, <1>7, <1>8, <1>9 DEF SessionsInv

----------------------------------------------------------------------------
LEMMA InitSessions == DInit => SessionsInv
<1> SUFFICES ASSUME DInit PROVE SessionsInv
    OBVIOUS
<1>1. DistributionType
    BY DEF DInit, DistributionType
<1>2. KeptWhole /\ ReceiptsBacked
    BY DEF DInit, KeptWhole, ReceiptsBacked, Keys
<1>3. (\A c \in Callers : CallerOk(caller[c])) /\ (\A s \in Servers : ServerOk(server[s]))
    BY IdleOk DEF DInit
<1> QED
    BY <1>1, <1>2, <1>3 DEF SessionsInv

LEMMA StepKeepsSessions == SessionsInv /\ [DNext]_vars => SessionsInv'
<1> SUFFICES ASSUME SessionsInv, [DNext]_vars PROVE SessionsInv'
    OBVIOUS
<1>1. ASSUME NEW c \in Callers, NEW k \in Keys, NEW ver \in Versions, Call(c, k[1], k[2], ver) PROVE SessionsInv'
    BY <1>1, CallKeeps
<1>2. ASSUME NEW c \in Callers, CallerStep(c) PROVE SessionsInv'
    BY <1>2, CallerSendKeeps, CallerReceiveKeeps, KeepKeeps, StoreKeeps, AnswerKeeps DEF CallerStep
<1>3. ASSUME NEW c \in Callers, CallerExpires(c) PROVE SessionsInv'
  <2>1. caller' = [caller EXCEPT ![c] = Idle] /\ UNCHANGED <<LocalState, RemoteState>>
        /\ inbox' \in [{"local", "remote"} -> Seq(Frames)]
    BY <1>3 DEF CallerExpires, SessionsInv, DistributionType
  <2> QED
    BY <2>1, IdleOk, CallerMoves
<1>4. ASSUME NEW s \in Servers, ServerStep(s) PROVE SessionsInv'
    BY <1>4, ServeKeeps, ServerReceiveKeeps, ServerSendKeeps, ServerKeepKeeps DEF ServerStep
<1>5. ASSUME NEW s \in Servers, ServerExpires(s) PROVE SessionsInv'
  <2>1. server' = [server EXCEPT ![s] = Idle] /\ UNCHANGED <<caller, LocalState, packages, published>>
        /\ inbox' \in [{"local", "remote"} -> Seq(Frames)]
    BY <1>5 DEF ServerExpires, SessionsInv, DistributionType, Local
  <2> QED
    BY <2>1, IdleOk, ServerMoves
<1>6. ASSUME NEW a \in Artifacts, NEW ver \in Versions, Publish(a, ver) PROVE SessionsInv'
  <2>1. /\ published' = [published EXCEPT ![a] = ver]
        /\ UNCHANGED <<caller, server, inbox, receipts, answers, fetched, packages>>
    BY <1>6 DEF Publish, Local, LocalState
  <2>2. DistributionType' /\ KeptWhole' /\ ReceiptsBacked'
    BY <2>1 DEF SessionsInv, DistributionType, KeptWhole, ReceiptsBacked
  <2> QED
    BY <2>1, <2>2, CallersRest, ServersRest DEF SessionsInv
<1>7. CASE UNCHANGED vars
    BY <1>7, NothingMoves DEF vars, LocalState, RemoteState
<1> QED
    BY <1>1, <1>2, <1>3, <1>4, <1>5, <1>6, <1>7 DEF DNext

\* A node keeps only whole payloads of one object, the peer under the object's
\* own id, and a cached answer has its receipt and its data: for any number of
\* sessions that read the same inbox, any payload size and any losses (Accept,
\* Complete, Serve, FetchArtifact, Handle).
THEOREM StoredIsWholeHolds == DSpec => []StoredIsWhole
<1>1. SessionsInv => StoredIsWhole
  <2> SUFFICES ASSUME SessionsInv PROVE StoredIsWhole
    OBVIOUS
  <2>1. ASSUME NEW k \in Keys, answers[k] # None
        PROVE  receipts[k] # None /\ (k[1] = "artifact" => fetched[k[2]] # None)
    <3>1. receipts[k] # None
      BY <2>1 DEF SessionsInv, ReceiptsBacked
    <3>2. k[1] = "artifact" => k[2] \in Artifacts /\ k = <<"artifact", k[2]>>
      BY DEF Keys
    <3> QED
      BY <3>1, <3>2 DEF SessionsInv, ReceiptsBacked
  <2>2. /\ \A w \in WorkPackages : packages[w] # None =>
              \E ver \in Versions : Whole(packages[w], [kind |-> "workpackage", id |-> w, ver |-> ver])
        /\ \A a \in Artifacts : fetched[a] # None => \E o \in Object : Whole(fetched[a], o)
    BY DEF SessionsInv, KeptWhole, Whole
  <2> QED
    BY <2>1, <2>2 DEF StoredIsWhole
<1> QED
    BY <1>1, InitSessions, StepKeepsSessions, PTL DEF DSpec

----------------------------------------------------------------------------
(* Replica                                                                 *)

Maybe == Records \cup {Absent}
Listed == UNION lists

\* Queues, replicas and histories hold records; a listed change names its node,
\* its path and a record.
ReplicaType ==
    /\ pending \in [Nodes -> [Paths -> Maybe]]
    /\ replica \in [Nodes -> [Paths -> Maybe]]
    /\ source \in [Nodes -> [Paths -> Maybe]]
    /\ given \in [Nodes -> [Paths -> SUBSET Records]]
    /\ \A c \in Listed : c.node \in Nodes /\ c.path \in Paths /\ c.rec \in Records

\* A node has one record per path and revision in all lists it handed out: its
\* queue only moves to higher revisions.
OneRecordEach ==
    /\ \A c \in Listed :
          /\ c = Change(c.node, c.path, c.rec)
          /\ c.rec.revision <= pending[c.node][c.path].revision
          /\ c.rec.revision = pending[c.node][c.path].revision => c.rec = pending[c.node][c.path]
    /\ \A c, d \in Listed :
          c.node = d.node /\ c.path = d.path /\ c.rec.revision = d.rec.revision => c = d

\* Finitely many nodes have handed out a list, so a list has a highest node.
NodesBounded == \E b \in Nat : \A c \in Listed : c.node <= b

\* What was given is no newer than what is held, save for a path deleted twice;
\* unlike EffectiveIsNewest this does not depend on what is queued.
TakenOver(G, R, P) ==
    /\ R \in G \cup {Absent}
    /\ (\A a, b \in G : a.deleted /\ b.deleted => a = b)
          => \A rec \in G : R.revision >= rec.revision \/ P.revision >= rec.revision

Holding == \A n \in Nodes, p \in Paths : TakenOver(given[n][p], replica[n][p], pending[n][p])

ReplicaInv == ReplicaType /\ OneRecordEach /\ NodesBounded /\ Holding

\* The fields of a record; Absent is the one of revision zero.
LEMMA RecordFields ==
    /\ \A r \in Records : r.revision \in Nat /\ r.revision >= 1 /\ r.revision <= MaxRevision /\ r.deleted \in BOOLEAN /\ r # Absent
    /\ Absent.revision = 0 /\ Absent.deleted = FALSE
    /\ \A r \in Maybe : r.revision \in Nat /\ r.deleted \in BOOLEAN /\ (r.revision = 0 <=> r = Absent)
<1>1. \A r \in Records : r.revision \in 1 .. MaxRevision
  BY DEF Records
<1>2. \A r \in Records : r.deleted \in BOOLEAN
  BY DEF Records
<1>3. Absent.revision = 0
  BY DEF Absent
<1>4. Absent.deleted = FALSE
  BY DEF Absent
<1>5. \A r \in Records : r.revision \in Nat /\ r.revision >= 1 /\ r.revision <= MaxRevision /\ r # Absent
  BY <1>1, <1>3, ReplicaAssumption
<1>6. \A r \in Maybe : r.revision \in Nat /\ (r.revision = 0 <=> r = Absent)
  BY <1>3, <1>5 DEF Maybe
<1>7. \A r \in Maybe : r.deleted \in BOOLEAN
  BY <1>2, <1>4 DEF Maybe
<1> QED
  BY <1>2, <1>3, <1>4, <1>5, <1>6, <1>7, Zenon

\* A bounded set of numbers has a highest one.
LEMMA Highest ==
    ASSUME NEW S \in SUBSET Nat, S # {}, NEW b \in Nat, \A k \in S : k <= b
    PROVE  \E m \in S : \A k \in S : k <= m
<1> DEFINE U == {j \in Nat : \A k \in S : k <= j}
<1>1. PICK u \in U : \A j \in U : ~(<<j, u>> \in OpToRel(<, Nat))
  BY WFMin, NatLessThanWellFounded
<1>2. \A j \in U : u <= j
  <2>1. \A j \in U : ~(j < u)
    BY <1>1 DEF OpToRel
  <2> QED
    BY <2>1
<1>3. u \in S
  <2> SUFFICES ASSUME u \notin S PROVE FALSE
    OBVIOUS
  <2>1. \A k \in S : k < u
    OBVIOUS
  <2>2. u - 1 \in U
    <3>1. PICK k \in S : TRUE
      OBVIOUS
    <3>2. u \in Nat /\ k \in Nat /\ k < u
      BY <2>1
    <3>3. u - 1 \in Nat
      BY <3>2
    <3>4. \A i \in S : i \in Nat /\ i <= u - 1
      BY <2>1, <3>2
    <3> QED
      BY <3>3, <3>4
  <2> QED
    BY <1>2, <2>2
<1> QED
  BY <1>3

\* What a list needs for it to have a newest change of every path.
Sound(changes) ==
    /\ \A c \in changes : c.node \in Nat /\ c.rec \in Records
    /\ \A c, d \in changes : c.node = d.node /\ c.path = d.path /\ c.rec.revision = d.rec.revision => c = d
    /\ \E b \in Nat : \A c \in changes : c.node <= b

\* bestByPath of a list: its newest record of the path, if it has one.
LEMMA BestIsNewest ==
    ASSUME NEW changes, NEW p, Sound(changes)
    PROVE  \/ /\ bestByPath(changes, p) = Absent
              /\ \A c \in changes : c.path # p
           \/ \E c \in changes :
                 /\ c.path = p /\ bestByPath(changes, p) = c.rec
                 /\ \A d \in changes : d.path = p => d.rec.revision <= c.rec.revision
<1> DEFINE here == {c \in changes : c.path = p}
<1>0. CASE here = {}
  BY <1>0 DEF bestByPath
<1>1. CASE here # {}
  <2> DEFINE R == {c.rec.revision : c \in here}
  <2>1. R \in SUBSET Nat /\ R # {} /\ \A k \in R : k <= MaxRevision
    BY <1>1, RecordFields DEF Sound
  <2>2. PICK r \in R : \A k \in R : k <= r
    <3> HIDE DEF R
    <3> QED
      BY <2>1, Highest, ReplicaAssumption
  <2> DEFINE top == {c \in here : c.rec.revision = r}
             N == {c.node : c \in top}
  <2>3. PICK b \in Nat : \A c \in changes : c.node <= b
    BY DEF Sound
  <2>4. N \in SUBSET Nat /\ N # {} /\ \A k \in N : k <= b
    BY <2>2, <2>3 DEF Sound
  <2>5. PICK m \in N : \A k \in N : k <= m
    <3> HIDE DEF N
    <3> QED
      BY <2>4, Highest
  <2>6. PICK c \in top : c.node = m
    BY <2>5
  <2>7. \A d \in here : d.rec.revision \in Nat /\ d.node \in Nat /\ d.rec.revision <= r
    BY <2>2, RecordFields DEF Sound
  <2>8. \A d \in here : d = c \/ newer(c, d)
    <3> SUFFICES ASSUME NEW d \in here, d # c PROVE newer(c, d)
      OBVIOUS
    <3>1. CASE d.rec.revision = r
      <4>1. d.node <= m /\ d.node # m
        BY <3>1, <2>5, <2>6 DEF Sound
      <4> QED
        BY <3>1, <4>1, <2>6, <2>7 DEF newer
    <3>2. CASE d.rec.revision # r
      BY <3>2, <2>6, <2>7 DEF newer
    <3> QED
      BY <3>1, <3>2
  <2> DEFINE e == CHOOSE x \in here : \A d \in here : d = x \/ newer(x, d)
  <2>9. e \in here /\ \A d \in here : d = e \/ newer(e, d)
    BY <2>6, <2>8
  <2>10. bestByPath(changes, p) = e.rec
    BY <1>1 DEF bestByPath
  <2>11. \A d \in here : d.rec.revision <= e.rec.revision
    <3> HIDE DEF e
    <3> QED
      BY <2>7, <2>9 DEF newer
  <2> HIDE DEF e
  <2> QED
    BY <2>9, <2>10, <2>11
<1> QED
  BY <1>0, <1>1

\* One path of Reconcile: what is applied is newer than the queue's and than the
\* replica's record, or ties with the latter as a deletion of a live record.
Merged(remote, P, R) ==
    IF Applies(P, remote) /\ Diff(remote, R) THEN Apply(remote, R) ELSE R

LEMMA MergedAdvances ==
    ASSUME NEW B \in Maybe, NEW P \in Maybe, NEW R \in Maybe, Merged(B, P, R) # R
    PROVE  /\ Merged(B, P, R) = B /\ B # Absent
           /\ B.revision > P.revision /\ B.revision >= R.revision
           /\ B.revision > R.revision \/ B.deleted # R.deleted
BY RecordFields DEF Merged, Applies, Diff, Apply, CanPut

\* Otherwise the replica or the queue is no older, or the path is deleted twice.
LEMMA KeptIsNoOlder ==
    ASSUME NEW B \in Maybe, NEW P \in Maybe, NEW R \in Maybe, Merged(B, P, R) = R, B # Absent
    PROVE  \/ P.revision >= B.revision \/ R.revision >= B.revision
           \/ B.deleted /\ R.deleted
BY RecordFields DEF Merged, Applies, Diff, Apply, CanPut

\* A list with best record B is merged: the queue P stays, G gains what was given.
LEMMA MergedTakenOver ==
    ASSUME NEW G \in SUBSET Records, NEW P \in Maybe, NEW R \in Maybe, TakenOver(G, R, P),
           NEW More \in SUBSET Records, NEW B \in Maybe,
           \/ B = Absent /\ More = {}
           \/ B \in More /\ \A r \in More : r.revision <= B.revision
    PROVE  TakenOver(G \cup More, Merged(B, P, R), P)
<1> DEFINE N == Merged(B, P, R)
<1>1. CASE B = Absent
  BY <1>1, RecordFields DEF Merged, Applies, TakenOver
<1>2. CASE B # Absent
  <2>0. B \in More /\ \A r \in More : r.revision <= B.revision
    BY <1>2
  <2>1. N = R \/ (N = B /\ B.revision > P.revision /\ B.revision >= R.revision)
    BY MergedAdvances
  <2>2. N \in (G \cup More) \cup {Absent}
    BY <2>0, <2>1 DEF TakenOver
  <2>3. ASSUME \A a, b \in G \cup More : a.deleted /\ b.deleted => a = b, NEW rec \in G \cup More
        PROVE  N.revision >= rec.revision \/ P.revision >= rec.revision
    <3>0. rec.revision \in Nat /\ B.revision \in Nat /\ R.revision \in Nat /\ P.revision \in Nat
      BY RecordFields
    <3>1. rec \in G => R.revision >= rec.revision \/ P.revision >= rec.revision
      BY <2>3 DEF TakenOver
    <3>2. rec \in More => rec.revision <= B.revision
      BY <2>0
    <3>3. CASE N # R
      BY <3>0, <3>1, <3>2, <3>3, <2>1
    <3>4. CASE N = R
      <4>1. P.revision >= B.revision \/ R.revision >= B.revision \/ (B.deleted /\ R.deleted)
        BY <3>4, <1>2, KeptIsNoOlder
      <4>2. B.deleted /\ R.deleted => R = B
        BY <2>0, <2>3, RecordFields DEF TakenOver
      <4> QED
        BY <3>0, <3>1, <3>2, <3>4, <4>1, <4>2
    <3> QED
      BY <3>3, <3>4
  <2> HIDE DEF N
  <2>4. TakenOver(G \cup More, N, P)
    BY <2>2, <2>3 DEF TakenOver
  <2> QED
    BY <2>4 DEF N
<1> QED
  BY <1>1, <1>2

\* The invariant holds at the start.
LEMMA ReplicaInit ==
    ASSUME RInit PROVE ReplicaInv
<1>1. Listed = {}
  BY DEF RInit, Listed
<1>2. ReplicaType
  BY <1>1 DEF RInit, ReplicaType, Maybe
<1>3. OneRecordEach /\ NodesBounded
  BY <1>1 DEF OneRecordEach, NodesBounded
<1>4. Holding
  BY DEF RInit, Holding, TakenOver
<1> QED
  BY <1>2, <1>3, <1>4 DEF ReplicaInv

\* Publish moves a queue to a higher revision only.
LEMMA PublishKeeps ==
    ASSUME ReplicaInv, NEW n \in Nodes, NEW p \in Paths, NEW rec \in Records, PublishRecord(n, p, rec)
    PROVE  ReplicaInv'
<1> USE DEF ReplicaInv
<1>0. Listed' = Listed /\ replica' = replica /\ given' = given
  BY DEF PublishRecord, Listed
<1>1. Enqueue(pending[n][p], rec) \in Maybe
  BY DEF Enqueue, ReplicaType, Maybe
<1>2. pending' \in [Nodes -> [Paths -> Maybe]] /\ source' \in [Nodes -> [Paths -> Maybe]]
  BY <1>1 DEF PublishRecord, ReplicaType, Maybe
<1>3. \A m \in Nodes, q \in Paths :
         pending'[m][q] = pending[m][q] \/ pending'[m][q].revision > pending[m][q].revision
  BY DEF PublishRecord, ReplicaType, Enqueue
<1>4. \A m \in Nodes, q \in Paths :
         pending'[m][q].revision \in Nat /\ pending[m][q].revision \in Nat
  BY <1>2, RecordFields DEF ReplicaType
<1>5. ReplicaType'
  BY <1>0, <1>2 DEF ReplicaType
<1>6. OneRecordEach'
  <2>1. ASSUME NEW c \in Listed
        PROVE  /\ c.rec.revision <= pending'[c.node][c.path].revision
               /\ c.rec.revision = pending'[c.node][c.path].revision => c.rec = pending'[c.node][c.path]
    <3>1. c.node \in Nodes /\ c.path \in Paths /\ c.rec.revision \in Nat
      BY RecordFields DEF ReplicaType
    <3> QED
      BY <3>1, <1>3, <1>4 DEF OneRecordEach
  <2> QED
    BY <1>0, <2>1 DEF OneRecordEach
<1>7. NodesBounded'
  BY <1>0 DEF NodesBounded
<1>8. Holding'
  <2> SUFFICES ASSUME NEW m \in Nodes, NEW q \in Paths
               PROVE  TakenOver(given[m][q], replica[m][q], pending'[m][q])
    BY <1>0 DEF Holding
  <2>1. TakenOver(given[m][q], replica[m][q], pending[m][q])
    BY DEF Holding
  <2>2. \A r \in given[m][q] : r.revision \in Nat
    BY RecordFields DEF ReplicaType
  <2> QED
    BY <2>1, <2>2, <1>3, <1>4 DEF TakenOver
<1> QED
  BY <1>5, <1>6, <1>7, <1>8

\* What Pending hands out is what is queued.
LEMMA HandOutKeeps ==
    ASSUME ReplicaInv, NEW n \in Nodes, HandOut(n)
    PROVE  ReplicaInv'
<1> USE DEF ReplicaInv
<1>0. /\ Listed' = Listed \cup Pending(n)
      /\ source' = source /\ pending' = pending /\ replica' = replica /\ given' = given
  <2>1. lists' = lists \cup {Pending(n)}
    BY DEF HandOut
  <2>2. UNION lists' = (UNION lists) \cup Pending(n)
    BY <2>1
  <2> QED
    BY <2>2 DEF HandOut, Listed
<1>1. \A c \in Pending(n) :
         /\ c.node = n /\ c.path \in Paths /\ c.rec = pending[n][c.path] /\ c.rec \in Records
         /\ c = Change(c.node, c.path, c.rec)
  BY DEF Pending, Change, ReplicaType, Maybe
<1>2. ReplicaType'
  BY <1>0, <1>1 DEF ReplicaType
<1>3. OneRecordEach'
  <2>1. \A c \in Listed' :
          /\ c = Change(c.node, c.path, c.rec)
          /\ c.rec.revision <= pending[c.node][c.path].revision
          /\ c.rec.revision = pending[c.node][c.path].revision => c.rec = pending[c.node][c.path]
    <3>1. ASSUME NEW c \in Pending(n)
          PROVE  c.rec.revision <= pending[c.node][c.path].revision
      <4>1. c.rec.revision \in Nat
        BY <1>1, RecordFields
      <4> QED
        BY <4>1, <1>1
    <3> QED
      BY <3>1, <1>0, <1>1 DEF OneRecordEach
  <2>2. ASSUME NEW c \in Listed', NEW d \in Listed',
               c.node = d.node, c.path = d.path, c.rec.revision = d.rec.revision
        PROVE  c = d
    <3>1. CASE c \in Listed /\ d \in Listed
      BY <3>1, <2>2 DEF OneRecordEach
    <3>2. CASE c \in Pending(n) \/ d \in Pending(n)
      <4>1. c.rec = d.rec
        BY <3>2, <2>1, <2>2, <1>1
      <4> QED
        BY <4>1, <2>1, <2>2
    <3> QED
      BY <1>0, <3>1, <3>2
  <2> QED
    BY <1>0, <2>1, <2>2 DEF OneRecordEach
<1>4. NodesBounded'
  <2>1. PICK b \in Nat : \A c \in Listed : c.node <= b
    BY DEF NodesBounded
  <2>2. n \in Nat /\ \A c \in Listed : c.node \in Nat
    BY ReplicaAssumption DEF ReplicaType
  <2>3. PICK e \in Nat : e >= b /\ e >= n
    <3>1. b + n \in Nat /\ b + n >= b /\ b + n >= n
      BY <2>2
    <3> QED
      BY <3>1
  <2>4. \A c \in Listed' : c.node <= e
    BY <1>0, <1>1, <2>1, <2>2, <2>3
  <2> QED
    BY <2>4 DEF NodesBounded
<1>5. Holding'
  BY <1>0 DEF Holding
<1> QED
  BY <1>2, <1>3, <1>4, <1>5

\* Reconcile path by path: the best record of the lists is merged.
LEMMA ReconcileByPath ==
    ASSUME ReplicaInv, NEW n \in Nodes, NEW some \in SUBSET lists, Reconcile(n, some)
    PROVE  /\ source' = source /\ pending' = pending /\ lists' = lists
           /\ DOMAIN replica' = Nodes /\ DOMAIN given' = Nodes
           /\ replica'[n] = [p \in Paths |-> replica'[n][p]] /\ given'[n] = [p \in Paths |-> given'[n][p]]
           /\ \A m \in Nodes \ {n} : replica'[m] = replica[m] /\ given'[m] = given[m]
           /\ \A p \in Paths : \E B \in Maybe, More \in SUBSET Records :
                 /\ replica'[n][p] = Merged(B, pending[n][p], replica[n][p])
                 /\ given'[n][p] = given[n][p] \cup More
                 /\ \/ B = Absent /\ More = {}
                    \/ B \in More /\ \A r \in More : r.revision <= B.revision
<1> USE DEF ReplicaInv
<1> DEFINE remote == UNION some
<1>1. remote \subseteq Listed
  BY DEF Listed
<1>2. Sound(remote)
  <2>1. \A c \in remote : c.node \in Nat /\ c.rec \in Records
    BY <1>1, ReplicaAssumption DEF ReplicaType
  <2>2. \A c, d \in remote : c.node = d.node /\ c.path = d.path /\ c.rec.revision = d.rec.revision => c = d
    BY <1>1 DEF OneRecordEach
  <2>3. \E b \in Nat : \A c \in remote : c.node <= b
    BY <1>1 DEF NodesBounded
  <2> HIDE DEF remote
  <2> QED
    BY <2>1, <2>2, <2>3 DEF Sound
<1> DEFINE More(p) == {c.rec : c \in {d \in remote : d.path = p}}
<1>3. /\ replica' = [replica EXCEPT ![n] = [p \in Paths |-> Merged(bestByPath(remote, p), pending[n][p], replica[n][p])]]
      /\ given' = [given EXCEPT ![n] = [p \in Paths |-> given[n][p] \cup More(p)]]
      /\ source' = source /\ pending' = pending /\ lists' = lists
  BY DEF Reconcile, Merged, ReplicaType
<1> HIDE DEF remote
<1>4. ASSUME NEW p \in Paths
      PROVE  \E B \in Maybe, M \in SUBSET Records :
                 /\ replica'[n][p] = Merged(B, pending[n][p], replica[n][p])
                 /\ given'[n][p] = given[n][p] \cup M
                 /\ \/ B = Absent /\ M = {}
                    \/ B \in M /\ \A r \in M : r.revision <= B.revision
  <2> DEFINE B == bestByPath(remote, p)
  <2>1. replica'[n][p] = Merged(B, pending[n][p], replica[n][p]) /\ given'[n][p] = given[n][p] \cup More(p)
    BY <1>3 DEF ReplicaType
  <2>2. More(p) \in SUBSET Records
    BY <1>2 DEF Sound
  <2>3. \/ B = Absent /\ More(p) = {}
        \/ B \in More(p) /\ \A r \in More(p) : r.revision <= B.revision
    <3>1. \/ B = Absent /\ \A c \in remote : c.path # p
          \/ \E c \in remote :
                 /\ c.path = p /\ B = c.rec
                 /\ \A d \in remote : d.path = p => d.rec.revision <= c.rec.revision
      BY <1>2, BestIsNewest
    <3> HIDE DEF B
    <3> QED
      BY <3>1
  <2>4. B \in Maybe
    BY <2>2, <2>3 DEF Maybe
  <2> HIDE DEF B, More
  <2> QED
    BY <2>1, <2>2, <2>3, <2>4
<1> HIDE DEF More
<1>5. /\ DOMAIN replica' = Nodes /\ DOMAIN given' = Nodes
      /\ replica'[n] = [p \in Paths |-> replica'[n][p]] /\ given'[n] = [p \in Paths |-> given'[n][p]]
      /\ \A m \in Nodes \ {n} : replica'[m] = replica[m] /\ given'[m] = given[m]
  BY <1>3 DEF ReplicaType
<1> QED
  BY <1>3, <1>4, <1>5

\* Reconcile keeps the invariant and takes no replica back.
LEMMA ReconcileKeeps ==
    ASSUME ReplicaInv, NEW n \in Nodes, NEW some \in SUBSET lists, Reconcile(n, some)
    PROVE  ReplicaInv' /\ Advances
<1> USE DEF ReplicaInv
<1>0. /\ source' = source /\ pending' = pending /\ lists' = lists /\ Listed' = Listed
      /\ DOMAIN replica' = Nodes /\ DOMAIN given' = Nodes
      /\ replica'[n] = [p \in Paths |-> replica'[n][p]] /\ given'[n] = [p \in Paths |-> given'[n][p]]
      /\ \A m \in Nodes \ {n} : replica'[m] = replica[m] /\ given'[m] = given[m]
  BY ReconcileByPath DEF Listed
<1>1. ASSUME NEW p \in Paths
      PROVE  /\ replica'[n][p] \in Maybe /\ given'[n][p] \in SUBSET Records
             /\ TakenOver(given'[n][p], replica'[n][p], pending[n][p])
             /\ replica'[n][p] # replica[n][p] =>
                  \/ replica'[n][p].revision > replica[n][p].revision
                  \/ /\ replica'[n][p].revision = replica[n][p].revision
                     /\ replica'[n][p].deleted # replica[n][p].deleted
  <2>1. PICK B \in Maybe, More \in SUBSET Records :
           /\ replica'[n][p] = Merged(B, pending[n][p], replica[n][p])
           /\ given'[n][p] = given[n][p] \cup More
           /\ \/ B = Absent /\ More = {}
              \/ B \in More /\ \A r \in More : r.revision <= B.revision
    BY ReconcileByPath
  <2>2. /\ given[n][p] \in SUBSET Records /\ pending[n][p] \in Maybe /\ replica[n][p] \in Maybe
        /\ TakenOver(given[n][p], replica[n][p], pending[n][p])
    BY DEF ReplicaType, Holding
  <2>3. TakenOver(given'[n][p], replica'[n][p], pending[n][p])
    BY <2>1, <2>2, MergedTakenOver
  <2>4. replica'[n][p] # replica[n][p] =>
           /\ replica'[n][p] = B
           /\ B.revision >= replica[n][p].revision
           /\ B.revision > replica[n][p].revision \/ B.deleted # replica[n][p].deleted
    BY <2>1, <2>2, MergedAdvances
  <2>5. B.revision \in Nat /\ replica[n][p].revision \in Nat
    BY <2>2, RecordFields
  <2>6. replica'[n][p] \in Maybe /\ given'[n][p] \in SUBSET Records
    BY <2>1, <2>2, <2>4
  <2> QED
    BY <2>3, <2>4, <2>5, <2>6
<1>2. ReplicaType'
  <2>1. replica' \in [Nodes -> [Paths -> Maybe]]
    <3>0. replica'[n] \in [Paths -> Maybe]
      BY <1>0, <1>1
    <3>1. \A m \in Nodes : replica'[m] \in [Paths -> Maybe]
      BY <3>0, <1>0 DEF ReplicaType
    <3>2. replica' = [m \in Nodes |-> replica'[m]]
      BY <1>0 DEF Reconcile
    <3> QED
      BY <3>1, <3>2
  <2>2. given' \in [Nodes -> [Paths -> SUBSET Records]]
    <3>0. given'[n] \in [Paths -> SUBSET Records]
      BY <1>0, <1>1
    <3>1. \A m \in Nodes : given'[m] \in [Paths -> SUBSET Records]
      BY <3>0, <1>0 DEF ReplicaType
    <3>2. given' = [m \in Nodes |-> given'[m]]
      BY <1>0 DEF Reconcile
    <3> QED
      BY <3>1, <3>2
  <2> QED
    BY <1>0, <2>1, <2>2 DEF ReplicaType
<1>3. OneRecordEach' /\ NodesBounded'
  BY <1>0 DEF OneRecordEach, NodesBounded
<1>4. Holding'
  <2> SUFFICES ASSUME NEW m \in Nodes, NEW p \in Paths
               PROVE  TakenOver(given'[m][p], replica'[m][p], pending'[m][p])
    BY DEF Holding
  <2>1. CASE m = n
    BY <2>1, <1>0, <1>1
  <2>2. CASE m # n
    BY <2>2, <1>0 DEF Holding
  <2> QED
    BY <2>1, <2>2
<1>5. Advances
  <2> SUFFICES ASSUME NEW m \in Nodes, NEW p \in Paths, replica'[m][p] # replica[m][p]
               PROVE  \/ replica'[m][p].revision > replica[m][p].revision
                      \/ /\ replica'[m][p].revision = replica[m][p].revision
                         /\ replica'[m][p].deleted # replica[m][p].deleted
    BY DEF Advances
  <2>1. m = n
    BY <1>0
  <2> QED
    BY <2>1, <1>1
<1> QED
  BY <1>2, <1>3, <1>4, <1>5

\* Every step does.
LEMMA ReplicaStep ==
    ASSUME ReplicaInv, [RNext]_replicaVars
    PROVE  ReplicaInv' /\ Advances
<1>1. ASSUME NEW n \in Nodes, NEW p \in Paths, NEW rec \in Records, PublishRecord(n, p, rec)
      PROVE  ReplicaInv' /\ Advances
  BY <1>1, PublishKeeps DEF PublishRecord, Advances
<1>2. ASSUME NEW n \in Nodes, HandOut(n)
      PROVE  ReplicaInv' /\ Advances
  BY <1>2, HandOutKeeps DEF HandOut, Advances
<1>3. ASSUME NEW n \in Nodes, NEW some \in SUBSET lists, Reconcile(n, some)
      PROVE  ReplicaInv' /\ Advances
  BY <1>3, ReconcileKeeps
<1>4. CASE UNCHANGED replicaVars
  BY <1>4 DEF replicaVars, ReplicaInv, ReplicaType, OneRecordEach, NodesBounded, Holding, Listed, Advances
<1> QED
  BY <1>1, <1>2, <1>3, <1>4 DEF RNext

\* The invariant gives what a node goes by.
LEMMA HeldIsNewest ==
    ASSUME ReplicaInv PROVE EffectiveIsNewest
<1> SUFFICES ASSUME NEW n \in Nodes, NEW p \in Paths
             PROVE  /\ Effective(n, p) \in Seen(n, p)
                    /\ (\A a, b \in Seen(n, p) : a.deleted /\ b.deleted => a = b)
                          => \A rec \in Seen(n, p) : Effective(n, p).revision >= rec.revision
  BY DEF EffectiveIsNewest
<1> DEFINE G == given[n][p]
           P == pending[n][p]
           R == replica[n][p]
<1>1. G \in SUBSET Records /\ P \in Maybe /\ R \in Maybe /\ TakenOver(G, R, P)
  BY DEF ReplicaInv, ReplicaType, Holding
<1>2. Seen(n, p) = G \cup {P} /\ Effective(n, p) = IF R.revision > P.revision THEN R ELSE P
  BY DEF Seen, Effective
<1>3. /\ P.revision \in Nat /\ R.revision \in Nat /\ \A rec \in G : rec.revision \in Nat
      /\ R = Absent => R.revision = 0
  BY <1>1, RecordFields
<1> HIDE DEF G, P, R
<1>4. Effective(n, p) \in Seen(n, p)
  BY <1>1, <1>2, <1>3 DEF TakenOver
<1>5. ASSUME \A a, b \in Seen(n, p) : a.deleted /\ b.deleted => a = b, NEW rec \in Seen(n, p)
      PROVE  Effective(n, p).revision >= rec.revision
  <2>1. \A a, b \in G : a.deleted /\ b.deleted => a = b
    BY <1>2, <1>5
  <2>2. rec = P \/ R.revision >= rec.revision \/ P.revision >= rec.revision
    BY <2>1, <1>1, <1>2 DEF TakenOver
  <2> QED
    BY <2>2, <1>2, <1>3
<1> QED
  BY <1>4, <1>5

\* What is known of queues, lists and replicas between any two steps of Publish,
\* Pending and Reconcile: ReplicaInv is inductive.
THEOREM ReplicaInvariant == RSpec => []ReplicaInv
<1>1. RInit => ReplicaInv
  BY ReplicaInit
<1>2. ReplicaInv /\ [RNext]_replicaVars => ReplicaInv'
  BY ReplicaStep
<1> QED
  BY <1>1, <1>2, PTL DEF RSpec

\* For any nodes, paths and contents, and however lists are delayed, repeated,
\* joined or dropped, Plane.Reconcile leaves a node with the newest record it has
\* seen, and no step takes a replica back.
THEOREM NewestWinsHolds == RSpec => NewestWins
<1>1. RInit => ReplicaInv
  BY ReplicaInit
<1>2. ReplicaInv /\ [RNext]_replicaVars => ReplicaInv'
  BY ReplicaStep
<1>3. ReplicaInv /\ [RNext]_replicaVars => Advances
  BY ReplicaStep
<1>4. ReplicaInv => EffectiveIsNewest
  BY HeldIsNewest
<1> QED
  BY <1>1, <1>2, <1>3, <1>4, PTL DEF RSpec, NewestWins

\* Two nodes that have seen the same records of a path, no two of one revision
\* and no two deletions, go by the same record.
NodesAgree ==
    \A n, m \in Nodes, p \in Paths :
        (/\ Seen(n, p) = Seen(m, p)
         /\ \A a, b \in Seen(n, p) : a.revision = b.revision => a = b
         /\ \A a, b \in Seen(n, p) : a.deleted /\ b.deleted => a = b)
            => Effective(n, p) = Effective(m, p)

\* Convergence: nodes that saw the same changes of a path agree on it, whichever
\* way the changes came (Reconcile: "decides deterministically").
THEOREM ReplicasConverge == RSpec => []NodesAgree
<1>1. ASSUME ReplicaInv PROVE NodesAgree
  <2> SUFFICES ASSUME NEW n \in Nodes, NEW m \in Nodes, NEW p \in Paths, Seen(n, p) = Seen(m, p),
                      \A a, b \in Seen(n, p) : a.revision = b.revision => a = b,
                      \A a, b \in Seen(n, p) : a.deleted /\ b.deleted => a = b
               PROVE  Effective(n, p) = Effective(m, p)
    BY DEF NodesAgree
  <2>1. /\ Effective(n, p) \in Seen(n, p) /\ Effective(m, p) \in Seen(n, p)
        /\ \A rec \in Seen(n, p) : Effective(n, p).revision >= rec.revision /\ Effective(m, p).revision >= rec.revision
    BY <1>1, HeldIsNewest DEF EffectiveIsNewest
  <2>2. \A rec \in Seen(n, p) : rec.revision \in Nat
    BY <1>1, RecordFields DEF ReplicaInv, ReplicaType, Seen
  <2> QED
    BY <2>1, <2>2
<1> QED
  BY <1>1, ReplicaInvariant, PTL
=============================================================================
