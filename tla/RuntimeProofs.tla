--------------------------- MODULE RuntimeProofs ---------------------------
(***************************************************************************)
(* Proofs about what runs on a worker: the tool calls of ToolRpc and       *)
(* ToolHost, for any number of calls, any requests they may make and any   *)
(* cache limit, and WorkerLifecycle, for any set of runs and any bound of  *)
(* the event log.                                                          *)
(*                                                                         *)
(* An answer passes through up to four places before a caller has it: the  *)
(* host's result, its cache or the call it was joined to, the response     *)
(* that the service publishes, and the Handle that waits for it.  The      *)
(* invariant says what is known at each of them, so that "the output of    *)
(* one run for the same tool, key and input" can be handed along.  That a  *)
(* key has one effect rests on another fact: the order of the cache is the *)
(* tail of the order in which results were stored.                         *)
(*                                                                         *)
(* SignalHonoured speaks of terminal states only and is not inductive: it  *)
(* has to be known where in Run a worker in a given state is, that a       *)
(* request is only accepted while the control is in the table, that its    *)
(* flag is set before it is reported as accepted, and that the verdict of  *)
(* a run that has left the table agrees with flags nobody can set any more.*)
(***************************************************************************)
EXTENDS ToolRpc, WorkerLifecycle, TLAPS

Results == {Failed} \cup {Made(d) : d \in Calls}

ToolType ==
    /\ inv \in [Calls -> Invocations \cup {NoCall}]
    /\ at \in [Calls -> {"idle", "called", "provider", "join", "returned"}]
    /\ joined \in [Calls -> Calls \cup {NoCall}]
    /\ result \in [Calls -> Results]
    /\ cache \in [HostKeys -> Calls \cup {NoCall}]
    /\ inflight \in [HostKeys -> Calls \cup {NoCall}]
    /\ pending \in [Keys -> Calls \cup {NoCall}]
    /\ waits \in [Calls -> Calls \cup {NoCall}]
    /\ published \subseteq Calls /\ response \in [Calls -> Results]
    /\ answered \subseteq Calls /\ answer \in [Calls -> Results]
    /\ late \subseteq Calls

\* Calls about the same tool, key and input.
Alike(c, d) == inv[d].tool = inv[c].tool /\ inv[d].key = inv[c].key /\ inv[d].input = inv[c].input

\* d's provider ran and its output is there for c.
MadeFor(c, d) ==
    /\ d \in Calls /\ inv[d] # NoCall /\ at[d] = "returned" /\ result[d] = Made(d)
    /\ Alike(c, d) /\ (~Keyed(c) => d = c)

\* A call of the host, before and after it returns.
ResultOk(c) ==
    /\ at[c] # "idle" => inv[c] # NoCall
    /\ at[c] # "returned" => result[c] = Failed
    /\ result[c].ok => MadeFor(c, result[c].from)

\* A call that joined another waits for one that is like it.
JoinOk(c) ==
    at[c] = "join" => /\ joined[c] \in Calls /\ at[joined[c]] \in {"provider", "returned"}
                      /\ Keyed(c) /\ Alike(c, joined[c])

\* A cached entry is a call whose provider succeeded under that key, and an
\* in-flight entry the one call that runs the provider under it.
CacheOk ==
    \A k \in HostKeys : cache[k] # NoCall =>
        /\ at[cache[k]] = "returned" /\ result[cache[k]] = Made(cache[k])
        /\ KeyOf(cache[k]) = k

InFlightOk ==
    /\ \A k \in HostKeys : inflight[k] # NoCall => at[inflight[k]] = "provider" /\ KeyOf(inflight[k]) = k
    /\ \A c \in Calls : at[c] = "provider" /\ Keyed(c) => inflight[KeyOf(c)] = c /\ cache[KeyOf(c)] = NoCall

HostInv == (\A c \in Calls : ResultOk(c) /\ JoinOk(c)) /\ CacheOk /\ InFlightOk

\* A Handle waits for its own request or for one with the same fingerprint.
WaitsOk(c) ==
    waits[c] # NoCall =>
        /\ inv[c] # NoCall /\ inv[waits[c]] # NoCall
        /\ waits[c] # c => Keyed(c) /\ Alike(c, waits[c])

PendingOk == \A k \in Keys : pending[k] # NoCall => inv[pending[k]] # NoCall /\ inv[pending[k]].key = k

\* A response is the host's result or an error, and an answer the response of
\* the request waited for or an error.
ResponseOk(c) ==
    /\ c \in published => at[c] = "returned" /\ inv[c] # NoCall
    /\ response[c].ok => c \in published /\ response[c] = result[c]
    /\ answer[c].ok =>
          /\ c \in answered /\ waits[c] \in published /\ response[waits[c]].ok /\ answer[c] = response[waits[c]]

\* The host never serves a call that was made after its tool was revoked.
LateOk ==
    \A c \in late :
        /\ inv[c] # NoCall /\ inv[c].tool \notin granted
        /\ at[c] \in {"idle", "called", "returned"} /\ ~result[c].ok

RpcInv == (\A c \in Calls : WaitsOk(c) /\ ResponseOk(c)) /\ PendingOk /\ LateOk

\* The cache's order is the tail of the order in which results were stored.
OrderOk ==
    /\ stored \in Seq(Calls) /\ cacheOrder \in Seq(HostKeys)
    /\ Len(cacheOrder) <= CacheLimit
    /\ Len(cacheOrder) = Len(stored) \/ (Len(cacheOrder) = CacheLimit /\ Len(stored) > CacheLimit)
    /\ \A n \in 1 .. Len(stored) : inv[stored[n]] # NoCall
    /\ \A j \in 1 .. Len(cacheOrder) :
          /\ cacheOrder[j] = KeyOf(stored[Len(stored) - Len(cacheOrder) + j])
          /\ cache[cacheOrder[j]] # NoCall
    /\ \A i, j \in 1 .. Len(cacheOrder) : cacheOrder[i] = cacheOrder[j] => i = j

ToolInv == ToolType /\ HostInv /\ RpcInv /\ OrderOk

rpcVars == <<pending, waits, published, response, answered, answer, late>>

----------------------------------------------------------------------------
(* Facts that the steps share.                                             *)

LEMMA ResultFacts ==
    /\ Failed \in Results /\ ~Failed.ok
    /\ \A d \in Calls : Made(d) \in Results /\ Made(d).ok /\ Made(d).from = d
BY DEF Results, Failed, Made

LEMMA InvocationFacts ==
    ASSUME NEW c \in Calls, NEW i \in Asks[c]
    PROVE  i \in Invocations /\ i # NoCall /\ (i.key # NoKey => i.key \in Keys)
BY InvocationAssumption DEF Invocations, Keys

\* A call with a key has an entry of its own in the host's tables.
LEMMA KeyFacts ==
    ASSUME ToolType, NEW c \in Calls, inv[c] # NoCall, Keyed(c)
    PROVE  KeyOf(c) \in HostKeys
BY DEF ToolType, Keyed, KeyOf, HostKeys, Tools, Keys

\* What is known of a call that has returned stays so: the requests, and the
\* outcomes of calls that have returned.
Settled ==
    /\ UNCHANGED inv
    /\ \A d \in Calls : at[d] = "returned" => at'[d] = "returned" /\ result'[d] = result[d]

LEMMA MadeForStays ==
    ASSUME Settled, NEW c \in Calls, NEW d, MadeFor(c, d)
    PROVE  MadeFor(c, d)'
BY DEF Settled, MadeFor, Alike, Keyed

LEMMA RpcStays ==
    ASSUME ToolInv, Settled, UNCHANGED rpcVars, LateOk'
    PROVE  RpcInv'
BY DEF ToolInv, ToolType, RpcInv, WaitsOk, ResponseOk, PendingOk, Alike, Keyed, Settled, rpcVars

LEMMA OrderStays ==
    ASSUME OrderOk, UNCHANGED <<inv, stored, cacheOrder, cache>>
    PROVE  OrderOk'
BY DEF OrderOk, KeyOf

----------------------------------------------------------------------------
(* The host.                                                               *)

\* A call that does not run its provider returns.
LEMMA ReturnKeeps ==
    ASSUME ToolInv, NEW c \in Calls, NEW r \in Results, at[c] \in {"called", "join"}, Return(c, r),
           r.ok => MadeFor(c, r.from) /\ c \notin late,
           UNCHANGED <<inv, joined, cache, cacheOrder, inflight, granted, stored, rpcVars>>
    PROVE  ToolInv'
<1>1. /\ at' = [at EXCEPT ![c] = "returned"] /\ result' = [result EXCEPT ![c] = r]
      /\ at \in [Calls -> {"idle", "called", "provider", "join", "returned"}] /\ result \in [Calls -> Results]
    BY DEF Return, ToolInv, ToolType
<1>2. Settled
    BY <1>1 DEF Settled
<1>3. ToolType'
    BY <1>1 DEF ToolInv, ToolType, rpcVars
<1>4. ASSUME NEW d \in Calls PROVE (ResultOk(d) /\ JoinOk(d))'
  <2>1. ResultOk(d) /\ JoinOk(d)
    BY DEF ToolInv, HostInv
  <2>2. ResultOk(d)'
    <3>1. CASE d = c
      <4>1. at'[d] = "returned" /\ result'[d] = r /\ inv'[d] # NoCall
        BY <1>1, <2>1, <3>1 DEF ResultOk
      <4>2. r.ok => MadeFor(c, r.from)'
        BY <1>2, MadeForStays
      <4> QED
        BY <3>1, <4>1, <4>2 DEF ResultOk
    <3>2. CASE d # c
      <4>1. at'[d] = at[d] /\ result'[d] = result[d] /\ inv'[d] = inv[d]
        BY <1>1, <3>2
      <4>2. PICK e : e = result[d].from
        OBVIOUS
      <4>3. result[d].ok => MadeFor(d, e)'
        BY <1>2, <2>1, <4>2, MadeForStays DEF ResultOk
      <4> QED
        BY <2>1, <4>1, <4>2, <4>3 DEF ResultOk
    <3> QED
      BY <3>1, <3>2
  <2>3. JoinOk(d)'
    BY <1>1, <2>1 DEF JoinOk, Alike, Keyed
  <2> QED
    BY <2>2, <2>3
<1>5. CacheOk' /\ InFlightOk'
    BY <1>1 DEF ToolInv, ToolType, HostInv, CacheOk, InFlightOk, KeyOf, Keyed
<1>6. LateOk'
    BY <1>1 DEF ToolInv, ToolType, RpcInv, LateOk, rpcVars
<1>7. RpcInv'
    BY <1>2, <1>6, RpcStays
<1>8. OrderOk'
    BY OrderStays DEF ToolInv
<1> QED
    BY <1>3, <1>4, <1>5, <1>7, <1>8 DEF ToolInv, HostInv

LEMMA DenyKeeps ==
    ASSUME ToolInv, NEW c \in Calls, Deny(c), UNCHANGED rpcVars
    PROVE  ToolInv'
BY ResultFacts, ReturnKeeps DEF Deny

LEMMA ConflictKeeps ==
    ASSUME ToolInv, NEW c \in Calls, Conflict(c), UNCHANGED rpcVars
    PROVE  ToolInv'
BY ResultFacts, ReturnKeeps DEF Conflict, Looks

LEMMA JoinExpiresKeeps ==
    ASSUME ToolInv, NEW c \in Calls, JoinExpires(c), UNCHANGED rpcVars
    PROVE  ToolInv'
BY ResultFacts, ReturnKeeps DEF JoinExpires

\* A call is looked at only while its tool is granted, so not a late one.
LEMMA LooksIsInTime ==
    ASSUME ToolInv, NEW c \in Calls, at[c] = "called", Passes(c)
    PROVE  c \notin late /\ inv[c] # NoCall
BY DEF ToolInv, RpcInv, LateOk, Passes, HostInv, ResultOk

LEMMA ReplayKeeps ==
    ASSUME ToolInv, NEW c \in Calls, Replay(c), UNCHANGED rpcVars
    PROVE  ToolInv'
<1> DEFINE d == cache[KeyOf(c)]
<1>1. at[c] = "called" /\ c \notin late /\ inv[c] # NoCall /\ Keyed(c) /\ d # NoCall
    BY LooksIsInTime DEF Replay, Looks, Cached
<1>2. KeyOf(c) \in HostKeys /\ d \in Calls
    BY <1>1, KeyFacts DEF ToolInv, ToolType
<1>3. at[d] = "returned" /\ result[d] = Made(d) /\ KeyOf(d) = KeyOf(c)
    BY <1>1, <1>2 DEF ToolInv, HostInv, CacheOk
<1>4. inv[d] # NoCall
    BY <1>2, <1>3 DEF ToolInv, HostInv, ResultOk
<1>5. CASE SameInput(c, d)
  <2>1. MadeFor(c, d)
    BY <1>1, <1>2, <1>3, <1>4, <1>5 DEF MadeFor, Alike, SameInput, KeyOf
  <2>2. Return(c, Made(d)) /\ UNCHANGED <<inv, joined, cache, cacheOrder, inflight, granted, stored>>
    BY <1>5 DEF Replay, Cached
  <2>3. Made(d) \in Results /\ Made(d).from = d
    BY <1>2, ResultFacts
  <2> QED
    BY <1>1, <2>1, <2>2, <2>3, ReturnKeeps
<1>6. CASE ~SameInput(c, d)
  <2>1. Return(c, Failed) /\ UNCHANGED <<inv, joined, cache, cacheOrder, inflight, granted, stored>>
    BY <1>6 DEF Replay, Cached
  <2> QED
    BY <1>1, <2>1, ResultFacts, ReturnKeeps
<1> QED
    BY <1>5, <1>6

LEMMA JoinReturnsKeeps ==
    ASSUME ToolInv, NEW c \in Calls, JoinReturns(c), UNCHANGED rpcVars
    PROVE  ToolInv'
<1> DEFINE d == joined[c]
           r == result[d]
<1>1. at[c] = "join" /\ d \in Calls /\ Keyed(c) /\ Alike(c, d) /\ at[d] = "returned"
    BY DEF JoinReturns, ToolInv, HostInv, JoinOk
<1>2. r \in Results /\ (r.ok => MadeFor(d, r.from))
    BY <1>1 DEF ToolInv, ToolType, HostInv, ResultOk
<1>3. r.ok => MadeFor(c, r.from)
    BY <1>1, <1>2 DEF MadeFor, Alike
<1>4. c \notin late
    BY <1>1 DEF ToolInv, RpcInv, LateOk
<1>5. Return(c, r) /\ UNCHANGED <<inv, joined, cache, cacheOrder, inflight, granted, stored>>
    BY DEF JoinReturns
<1> HIDE DEF r
<1> QED
    BY <1>1, <1>2, <1>3, <1>4, <1>5, ReturnKeeps

\* A call moves on without returning: nobody refers to it yet.
LEMMA MovesOn ==
    ASSUME ToolInv, NEW c \in Calls, NEW to \in {"provider", "join"}, at[c] = "called",
           at' = [at EXCEPT ![c] = to], UNCHANGED <<inv, result, granted, rpcVars>>, c \notin late, inv[c] # NoCall
    PROVE  /\ at' \in [Calls -> {"idle", "called", "provider", "join", "returned"}]
           /\ \A d \in Calls : ResultOk(d)'
           /\ RpcInv'
<1>1. /\ at \in [Calls -> {"idle", "called", "provider", "join", "returned"}]
      /\ \A d \in Calls : at'[d] = IF d = c THEN to ELSE at[d]
    BY DEF ToolInv, ToolType
<1>2. Settled
    BY <1>1 DEF Settled
<1>3. ASSUME NEW d \in Calls PROVE ResultOk(d)'
  <2>1. ResultOk(d)
    BY DEF ToolInv, HostInv
  <2>2. PICK e : e = result[d].from
    OBVIOUS
  <2>3. result[d].ok => MadeFor(d, e)'
    BY <1>2, <2>1, <2>2, MadeForStays DEF ResultOk
  <2> QED
    BY <1>1, <2>1, <2>2, <2>3 DEF ResultOk
<1>4. LateOk'
    BY <1>1 DEF ToolInv, ToolType, RpcInv, LateOk, rpcVars
<1>5. RpcInv'
    BY <1>2, <1>4, RpcStays
<1> QED
    BY <1>1, <1>3, <1>5

LEMMA RunUnkeyedKeeps ==
    ASSUME ToolInv, NEW c \in Calls, RunUnkeyed(c), UNCHANGED rpcVars
    PROVE  ToolInv'
<1>1. /\ at[c] = "called" /\ ~Keyed(c) /\ at' = [at EXCEPT ![c] = "provider"]
      /\ UNCHANGED <<inv, joined, result, cache, cacheOrder, inflight, granted, stored>>
      /\ c \notin late /\ inv[c] # NoCall
    BY LooksIsInTime DEF RunUnkeyed
<1>2. /\ at' \in [Calls -> {"idle", "called", "provider", "join", "returned"}]
      /\ (\A d \in Calls : ResultOk(d)') /\ RpcInv'
    BY <1>1, MovesOn
<1>3. ToolType'
    BY <1>1, <1>2 DEF ToolInv, ToolType, rpcVars
<1>4. \A d \in Calls : at'[d] = IF d = c THEN "provider" ELSE at[d]
    BY <1>1 DEF ToolInv, ToolType
<1>5. \A d \in Calls : JoinOk(d)'
    BY <1>1, <1>4 DEF ToolInv, HostInv, JoinOk, Alike, Keyed
<1>6. CacheOk' /\ InFlightOk'
    BY <1>1, <1>4 DEF ToolInv, ToolType, HostInv, CacheOk, InFlightOk, KeyOf, Keyed
<1>7. OrderOk'
    BY <1>1, OrderStays DEF ToolInv
<1> QED
    BY <1>2, <1>3, <1>5, <1>6, <1>7 DEF ToolInv, HostInv

LEMMA JoinKeeps ==
    ASSUME ToolInv, NEW c \in Calls, Join(c), UNCHANGED rpcVars
    PROVE  ToolInv'
<1> DEFINE e == inflight[KeyOf(c)]
<1>1. /\ at[c] = "called" /\ Keyed(c) /\ at' = [at EXCEPT ![c] = "join"] /\ e # NoCall /\ SameInput(c, e)
      /\ joined' = [joined EXCEPT ![c] = e]
      /\ UNCHANGED <<inv, result, cache, cacheOrder, inflight, granted, stored>>
      /\ c \notin late /\ inv[c] # NoCall
    BY LooksIsInTime DEF Join, Looks, InFlight
<1>2. /\ at' \in [Calls -> {"idle", "called", "provider", "join", "returned"}]
      /\ (\A d \in Calls : ResultOk(d)') /\ RpcInv'
    BY <1>1, MovesOn
<1>3. KeyOf(c) \in HostKeys /\ e \in Calls
    BY <1>1, KeyFacts DEF ToolInv, ToolType
<1>4. at[e] = "provider" /\ KeyOf(e) = KeyOf(c)
    BY <1>1, <1>3 DEF ToolInv, HostInv, InFlightOk
<1>5. Alike(c, e)
    BY <1>1, <1>4 DEF Alike, SameInput, KeyOf
<1>6. ToolType'
    BY <1>1, <1>2, <1>3 DEF ToolInv, ToolType, rpcVars
<1>7. /\ \A d \in Calls : at'[d] = IF d = c THEN "join" ELSE at[d]
      /\ \A d \in Calls : joined'[d] = IF d = c THEN e ELSE joined[d]
    BY <1>1 DEF ToolInv, ToolType
<1> HIDE DEF e
<1>8. \A d \in Calls : JoinOk(d)'
    BY <1>1, <1>3, <1>4, <1>5, <1>7 DEF ToolInv, HostInv, JoinOk, Alike, Keyed
<1>9. CacheOk' /\ InFlightOk'
    BY <1>1, <1>7 DEF ToolInv, ToolType, HostInv, CacheOk, InFlightOk, KeyOf, Keyed
<1>10. OrderOk'
    BY <1>1, OrderStays DEF ToolInv
<1> QED
    BY <1>2, <1>6, <1>8, <1>9, <1>10 DEF ToolInv, HostInv

LEMMA LeadKeeps ==
    ASSUME ToolInv, NEW c \in Calls, Lead(c), UNCHANGED rpcVars
    PROVE  ToolInv'
<1> DEFINE k == KeyOf(c)
<1>1. /\ at[c] = "called" /\ Keyed(c) /\ at' = [at EXCEPT ![c] = "provider"] /\ cache[k] = NoCall /\ inflight[k] = NoCall
      /\ inflight' = [inflight EXCEPT ![k] = c]
      /\ UNCHANGED <<inv, joined, result, cache, cacheOrder, granted, stored>>
      /\ c \notin late /\ inv[c] # NoCall
    BY LooksIsInTime DEF Lead, Looks, InFlight, Cached
<1>2. /\ at' \in [Calls -> {"idle", "called", "provider", "join", "returned"}]
      /\ (\A d \in Calls : ResultOk(d)') /\ RpcInv'
    BY <1>1, MovesOn
<1>3. k \in HostKeys
    BY <1>1, KeyFacts DEF ToolInv
<1>4. ToolType'
    BY <1>1, <1>2, <1>3 DEF ToolInv, ToolType, rpcVars
<1>5. /\ \A d \in Calls : at'[d] = IF d = c THEN "provider" ELSE at[d]
      /\ \A h \in HostKeys : inflight'[h] = IF h = k THEN c ELSE inflight[h]
    BY <1>1 DEF ToolInv, ToolType
<1>6. \A d \in Calls : JoinOk(d)'
    BY <1>1, <1>5 DEF ToolInv, HostInv, JoinOk, Alike, Keyed
<1>7. CacheOk'
    BY <1>1, <1>5 DEF ToolInv, ToolType, HostInv, CacheOk, KeyOf
<1>8. InFlightOk'
  <2>1. ASSUME NEW h \in HostKeys, inflight'[h] # NoCall PROVE at'[inflight'[h]] = "provider" /\ KeyOf(inflight'[h]) = h
    <3>1. CASE h = k
      BY <1>5, <3>1
    <3>2. CASE h # k
      <4>1. inflight'[h] = inflight[h] /\ inflight[h] \in Calls /\ inflight[h] # NoCall
        BY <1>5, <2>1, <3>2 DEF ToolInv, ToolType
      <4>2. at[inflight[h]] = "provider" /\ KeyOf(inflight[h]) = h
        BY <4>1 DEF ToolInv, HostInv, InFlightOk
      <4> QED
        BY <1>1, <1>5, <4>1, <4>2
    <3> QED
      BY <3>1, <3>2
  <2>2. ASSUME NEW d \in Calls, at'[d] = "provider", Keyed(d) PROVE inflight'[KeyOf(d)] = d /\ cache[KeyOf(d)] = NoCall
    <3>1. CASE d = c
      BY <1>1, <1>3, <1>5, <3>1
    <3>2. CASE d # c
      <4>1. at[d] = "provider" /\ inflight[KeyOf(d)] = d /\ cache[KeyOf(d)] = NoCall /\ inv[d] # NoCall
        BY <1>5, <2>2, <3>2 DEF ToolInv, HostInv, InFlightOk, ResultOk
      <4>2. KeyOf(d) \in HostKeys /\ KeyOf(d) # k
        BY <1>1, <2>2, <4>1, KeyFacts, CallAssumption DEF ToolInv
      <4> QED
        BY <1>5, <4>1, <4>2
    <3> QED
      BY <3>1, <3>2
  <2> QED
    BY <1>1, <2>1, <2>2 DEF InFlightOk, KeyOf, Keyed
<1>9. OrderOk'
    BY <1>1, OrderStays DEF ToolInv
<1> QED
    BY <1>2, <1>4, <1>6, <1>7, <1>8, <1>9 DEF ToolInv, HostInv

\* storeLocked: the cache's order stays the tail of the order of storing, and
\* only the oldest entry can go.
LEMMA StoreLockedFacts ==
    ASSUME ToolInv, NEW c \in Calls, NEW k \in HostKeys, k = KeyOf(c), inv[c] # NoCall, cache[k] = NoCall,
           StoreLocked(c), UNCHANGED inv
    PROVE  /\ cache' \in [HostKeys -> Calls \cup {NoCall}]
           /\ \A h \in HostKeys : cache'[h] # NoCall => IF h = k THEN cache'[h] = c ELSE cache'[h] = cache[h]
           /\ OrderOk'
<1> DEFINE n == Len(cacheOrder)
           m == Len(stored)
           longer == Append(cacheOrder, k)
           full == Len(longer) > CacheLimit
<1>1. OrderOk /\ cache \in [HostKeys -> Calls \cup {NoCall}]
    BY DEF ToolInv, ToolType
<1>2. /\ cacheOrder' = IF full THEN Tail(longer) ELSE longer
      /\ cache' = [h \in HostKeys |-> IF full /\ h = Head(longer) THEN NoCall ELSE IF h = k THEN c ELSE cache[h]]
      /\ stored' = Append(stored, c)
    BY DEF StoreLocked
<1>3. n \in Nat /\ m \in Nat /\ CacheLimit \in Nat /\ CacheLimit >= 1 /\ n <= CacheLimit
      /\ (n = m \/ (n = CacheLimit /\ m > CacheLimit))
    BY <1>1, LimitAssumption DEF OrderOk
<1>4. /\ longer \in Seq(HostKeys) /\ Len(longer) = n + 1 /\ longer[n + 1] = k
      /\ \A j \in 1 .. n : longer[j] = cacheOrder[j]
    BY <1>1 DEF OrderOk
<1>5. /\ stored' \in Seq(Calls) /\ Len(stored') = m + 1 /\ stored'[m + 1] = c
      /\ \A j \in 1 .. m : stored'[j] = stored[j]
    BY <1>1, <1>2 DEF OrderOk
<1>6. \A j \in 1 .. n + 1 : longer[j] = KeyOf(stored'[m - n + j])
  <2> SUFFICES ASSUME NEW j \in 1 .. n + 1 PROVE longer[j] = KeyOf(stored'[m - n + j])
    OBVIOUS
  <2>1. CASE j = n + 1
    BY <1>3, <1>4, <1>5, <2>1
  <2>2. CASE j # n + 1
    <3>1. j \in 1 .. n /\ m - n + j \in 1 .. m
      BY <1>3, <2>2
    <3> QED
      BY <1>1, <1>4, <1>5, <3>1 DEF OrderOk
  <2> QED
    BY <2>1, <2>2
<1>7. \A i, j \in 1 .. n + 1 : longer[i] = longer[j] => i = j
  <2>1. \A j \in 1 .. n : longer[j] # k
    BY <1>1, <1>4 DEF OrderOk
  <2>2. \A i, j \in 1 .. n : longer[i] = longer[j] => i = j
    BY <1>1, <1>4 DEF OrderOk
  <2> QED
    BY <1>3, <1>4, <2>1, <2>2
<1>8. \A j \in 1 .. n + 1 : cache'[longer[j]] = IF full /\ j = 1 THEN NoCall ELSE IF j = n + 1 THEN c ELSE cache[longer[j]]
  <2>1. Head(longer) = longer[1] /\ 1 \in 1 .. n + 1
    BY <1>3, <1>4
  <2>2. \A j \in 1 .. n + 1 : longer[j] \in HostKeys
    BY <1>4
  <2> HIDE DEF longer, full
  <2>3. ASSUME NEW j \in 1 .. n + 1
        PROVE  cache'[longer[j]] = IF full /\ j = 1 THEN NoCall ELSE IF j = n + 1 THEN c ELSE cache[longer[j]]
    <3>1. (longer[j] = Head(longer) <=> j = 1) /\ (longer[j] = k <=> j = n + 1)
      BY <1>3, <1>4, <1>7, <2>1
    <3> QED
      BY <1>2, <2>2, <3>1
  <2> QED
    BY <2>3
<1>9. \A j \in 1 .. n : cache[longer[j]] # NoCall
    BY <1>1, <1>4 DEF OrderOk
<1>10. cache' \in [HostKeys -> Calls \cup {NoCall}]
    BY <1>1, <1>2
<1>11. \A h \in HostKeys : cache'[h] # NoCall => IF h = k THEN cache'[h] = c ELSE cache'[h] = cache[h]
    BY <1>2
<1>12. \A j \in 1 .. m + 1 : inv'[stored'[j]] # NoCall
  <2>1. \A j \in 1 .. m : inv[stored[j]] # NoCall
    BY <1>1 DEF OrderOk
  <2>2. \A j \in 1 .. m + 1 : j = m + 1 \/ j \in 1 .. m
    BY <1>3
  <2> QED
    BY <1>5, <2>1, <2>2
<1>13. OrderOk'
  <2>1. CASE ~full
    <3>1. cacheOrder' = longer /\ n + 1 <= CacheLimit /\ n = m
      BY <1>2, <1>3, <1>4, <2>1
    <3> HIDE DEF longer
    <3>2. \A j \in 1 .. n + 1 : cache'[longer[j]] # NoCall
      BY <1>3, <1>8, <1>9, <2>1, CallAssumption
    <3>3. Len(cacheOrder') = n + 1 /\ Len(stored') = m + 1 /\ Len(stored') - Len(cacheOrder') = m - n
      BY <1>3, <1>4, <1>5, <3>1
    <3>4. \A j \in 1 .. n + 1 : cacheOrder'[j] = KeyOf(stored[Len(stored) - Len(cacheOrder) + j])'
      BY <1>6, <3>1, <3>3 DEF KeyOf
    <3> HIDE DEF n, m
    <3> QED
      BY <1>3, <1>4, <1>5, <1>7, <1>12, <3>1, <3>2, <3>3, <3>4 DEF OrderOk
  <2>2. CASE full
    <3>1. cacheOrder' = Tail(longer) /\ n = CacheLimit
      BY <1>2, <1>3, <1>4, <2>2
    <3>2. /\ Tail(longer) \in Seq(HostKeys) /\ Len(Tail(longer)) = n
          /\ \A j \in 1 .. n : Tail(longer)[j] = longer[j + 1]
      BY <1>3, <1>4
    <3> HIDE DEF longer
    <3>3. \A j \in 1 .. n : j + 1 \in 1 .. n + 1 /\ j + 1 # 1
      BY <1>3
    <3>4. \A j \in 1 .. n : cache'[longer[j + 1]] # NoCall
      BY <1>3, <1>8, <1>9, <3>3, CallAssumption
    <3>5. \A j \in 1 .. n : cacheOrder'[j] = KeyOf(stored'[(m + 1) - n + j]) /\ cache'[cacheOrder'[j]] # NoCall
      <4> SUFFICES ASSUME NEW j \in 1 .. n
                   PROVE  cacheOrder'[j] = KeyOf(stored'[(m + 1) - n + j]) /\ cache'[cacheOrder'[j]] # NoCall
        OBVIOUS
      <4>1. cacheOrder'[j] = longer[j + 1] /\ m - n + (j + 1) = (m + 1) - n + j
        BY <1>3, <3>1, <3>2
      <4> QED
        BY <1>6, <3>3, <3>4, <4>1
    <3>6. \A i, j \in 1 .. n : cacheOrder'[i] = cacheOrder'[j] => i = j
      <4> SUFFICES ASSUME NEW i \in 1 .. n, NEW j \in 1 .. n, cacheOrder'[i] = cacheOrder'[j] PROVE i = j
        OBVIOUS
      <4>1. longer[i + 1] = longer[j + 1]
        BY <3>1, <3>2
      <4>2. i + 1 = j + 1
        BY <1>7, <3>3, <4>1
      <4> QED
        BY <4>2
    <3>7. Len(cacheOrder') = n /\ Len(stored') = m + 1 /\ Len(stored') - Len(cacheOrder') = (m + 1) - n
      BY <1>3, <1>5, <3>1, <3>2
    <3>8. \A j \in 1 .. n : cacheOrder'[j] = KeyOf(stored[Len(stored) - Len(cacheOrder) + j])'
      BY <3>5, <3>7 DEF KeyOf
    <3>9. m + 1 > CacheLimit
      BY <1>3, <3>1
    <3> HIDE DEF n, m
    <3> QED
      BY <1>3, <1>5, <1>12, <3>1, <3>2, <3>5, <3>6, <3>7, <3>8, <3>9 DEF OrderOk
  <2> QED
    BY <2>1, <2>2
<1> QED
    BY <1>10, <1>11, <1>13

LEMMA ProviderReturnsKeeps ==
    ASSUME ToolInv, NEW c \in Calls, NEW ok \in BOOLEAN, ProviderReturns(c, ok), UNCHANGED rpcVars
    PROVE  ToolInv'
<1> DEFINE k == KeyOf(c)
           r == IF ok THEN Made(c) ELSE Failed
<1>1. /\ at[c] = "provider" /\ inv[c] # NoCall /\ c \notin late /\ r \in Results /\ (r.ok => r = Made(c))
      /\ Keyed(c) => k \in HostKeys /\ inflight[k] = c /\ cache[k] = NoCall
  <2>1. at[c] = "provider"
    BY DEF ProviderReturns
  <2>2. inv[c] # NoCall /\ c \notin late
    BY <2>1 DEF ToolInv, HostInv, ResultOk, RpcInv, LateOk
  <2>3. Keyed(c) => k \in HostKeys /\ inflight[k] = c /\ cache[k] = NoCall
    BY <2>1, <2>2, KeyFacts DEF ToolInv, HostInv, InFlightOk
  <2>4. r \in Results /\ (r.ok => r = Made(c))
    BY ResultFacts
  <2> QED
    BY <2>1, <2>2, <2>3, <2>4
<1>2. /\ at' = [at EXCEPT ![c] = "returned"] /\ result' = [result EXCEPT ![c] = r]
      /\ UNCHANGED <<inv, joined, granted>>
      /\ IF ok /\ Keyed(c) THEN StoreLocked(c) ELSE UNCHANGED <<cache, cacheOrder, stored>>
      /\ inflight' = IF Keyed(c) THEN [inflight EXCEPT ![k] = NoCall] ELSE inflight
    BY DEF ProviderReturns, Return
<1> HIDE DEF r
<1>3. /\ \A d \in Calls : at'[d] = IF d = c THEN "returned" ELSE at[d]
      /\ \A d \in Calls : result'[d] = IF d = c THEN r ELSE result[d]
      /\ at' \in [Calls -> {"idle", "called", "provider", "join", "returned"}] /\ result' \in [Calls -> Results]
    BY <1>1, <1>2 DEF ToolInv, ToolType
<1>4. Settled
    BY <1>1, <1>2, <1>3 DEF Settled
<1>5. /\ cache' \in [HostKeys -> Calls \cup {NoCall}] /\ OrderOk'
      /\ \A h \in HostKeys : cache'[h] # NoCall =>
            \/ cache'[h] = cache[h]
            \/ h = k /\ Keyed(c) /\ cache'[h] = c /\ result'[c] = Made(c)
  <2>1. CASE ok /\ Keyed(c)
    <3>1. StoreLocked(c) /\ result'[c] = Made(c)
      BY <1>2, <1>3, <2>1 DEF r
    <3> QED
      BY <1>1, <1>2, <2>1, <3>1, StoreLockedFacts
  <2>2. CASE ~(ok /\ Keyed(c))
    <3>1. UNCHANGED <<cache, cacheOrder, stored>>
      BY <1>2, <2>2
    <3> QED
      BY <1>2, <3>1, OrderStays DEF ToolInv, ToolType
  <2> QED
    BY <2>1, <2>2
<1>6. \A h \in HostKeys : inflight'[h] = IF Keyed(c) /\ h = k THEN NoCall ELSE inflight[h]
    BY <1>1, <1>2 DEF ToolInv, ToolType
<1>7. ToolType'
    BY <1>1, <1>2, <1>3, <1>5 DEF ToolInv, ToolType, rpcVars
<1>8. ASSUME NEW d \in Calls PROVE ResultOk(d)'
  <2>1. ResultOk(d)
    BY DEF ToolInv, HostInv
  <2>2. CASE d = c
    <3>1. r.ok => MadeFor(c, c)'
      BY <1>1, <1>2, <1>3 DEF MadeFor, Alike
    <3>2. r.ok => r.from = c
      BY <1>1, ResultFacts
    <3> QED
      BY <1>1, <1>2, <1>3, <2>2, <3>1, <3>2 DEF ResultOk
  <2>3. CASE d # c
    <3>1. PICK e : e = result[d].from
      OBVIOUS
    <3>2. result[d].ok => MadeFor(d, e)'
      BY <1>4, <2>1, <3>1, MadeForStays DEF ResultOk
    <3> QED
      BY <1>2, <1>3, <2>1, <2>3, <3>1, <3>2 DEF ResultOk
  <2> QED
    BY <2>2, <2>3
<1>9. \A d \in Calls : JoinOk(d)'
    BY <1>1, <1>2, <1>3 DEF ToolInv, HostInv, JoinOk, Alike, Keyed
<1>10. CacheOk'
  <2> SUFFICES ASSUME NEW h \in HostKeys, cache'[h] # NoCall
               PROVE  /\ at'[cache'[h]] = "returned" /\ result'[cache'[h]] = Made(cache'[h])
                      /\ KeyOf(cache[h])' = h
    BY DEF CacheOk, Made
  <2>1. CASE cache'[h] = cache[h]
    <3>1. cache[h] \in Calls /\ at[cache[h]] = "returned" /\ result[cache[h]] = Made(cache[h]) /\ KeyOf(cache[h]) = h
      BY <2>1 DEF ToolInv, ToolType, HostInv, CacheOk
    <3> QED
      BY <1>2, <1>4, <2>1, <3>1 DEF Settled, KeyOf
  <2>2. CASE h = k /\ cache'[h] = c /\ result'[c] = Made(c)
    BY <1>2, <1>3, <2>2 DEF KeyOf
  <2> QED
    BY <1>5, <2>1, <2>2
<1>11. InFlightOk'
  <2>1. ASSUME NEW h \in HostKeys, inflight'[h] # NoCall
        PROVE  at'[inflight'[h]] = "provider" /\ KeyOf(inflight'[h]) = h
    <3>1. inflight'[h] = inflight[h] /\ inflight[h] \in Calls /\ inflight[h] # NoCall /\ ~(Keyed(c) /\ h = k)
      BY <1>6, <2>1 DEF ToolInv, ToolType
    <3>2. at[inflight[h]] = "provider" /\ KeyOf(inflight[h]) = h
      BY <3>1 DEF ToolInv, HostInv, InFlightOk
    <3>3. inflight[h] # c
      BY <3>1, <3>2 DEF KeyOf, HostKeys, Keys, Keyed
    <3> QED
      BY <1>3, <3>1, <3>2, <3>3
  <2>2. ASSUME NEW d \in Calls, at'[d] = "provider", Keyed(d)
        PROVE  inflight'[KeyOf(d)] = d /\ cache'[KeyOf(d)] = NoCall
    <3>1. d # c /\ at[d] = "provider" /\ inflight[KeyOf(d)] = d /\ cache[KeyOf(d)] = NoCall /\ inv[d] # NoCall
      BY <1>3, <2>2 DEF ToolInv, HostInv, InFlightOk, ResultOk
    <3>2. KeyOf(d) \in HostKeys /\ ~(Keyed(c) /\ KeyOf(d) = k)
      BY <1>1, <2>2, <3>1, KeyFacts DEF ToolInv
    <3> QED
      BY <1>5, <1>6, <3>1, <3>2
  <2> QED
    BY <1>2, <2>1, <2>2 DEF InFlightOk, KeyOf, Keyed
<1>12. LateOk'
    BY <1>1, <1>2, <1>3 DEF ToolInv, ToolType, RpcInv, LateOk, rpcVars
<1>13. RpcInv'
    BY <1>4, <1>12, RpcStays
<1> QED
    BY <1>5, <1>7, <1>8, <1>9, <1>10, <1>11, <1>13 DEF ToolInv, HostInv

\* A deadline that passes and a tool that is revoked change nothing of this.
LEMMA OutsideKeeps ==
    ASSUME ToolInv, UNCHANGED <<inv, at, joined, result, cache, cacheOrder, inflight, stored, rpcVars>>,
           granted' \subseteq granted
    PROVE  ToolInv'
<1>1. Settled
    BY DEF Settled
<1>2. ToolType'
    BY DEF ToolInv, ToolType, rpcVars
<1>3. HostInv'
    BY DEF ToolInv, HostInv, ResultOk, JoinOk, CacheOk, InFlightOk, MadeFor, Alike, Keyed, KeyOf
<1>4. LateOk'
    BY DEF ToolInv, RpcInv, LateOk, rpcVars
<1> QED
    BY <1>1, <1>2, <1>3, <1>4, RpcStays, OrderStays DEF ToolInv

LEMMA HostKeeps ==
    ASSUME ToolInv, HostStep, UNCHANGED rpcVars
    PROVE  ToolInv'
<1>1. ASSUME NEW c \in Calls, InvokeStep(c) PROVE ToolInv'
    BY <1>1, DenyKeeps, RunUnkeyedKeeps, ReplayKeeps, JoinKeeps, ConflictKeeps, LeadKeeps, JoinReturnsKeeps,
       JoinExpiresKeeps DEF InvokeStep
<1>2. ASSUME NEW c \in Calls, NEW ok \in BOOLEAN, ProviderReturns(c, ok) PROVE ToolInv'
    BY <1>2, ProviderReturnsKeeps
<1>3. ASSUME NEW t \in Tools, Revoke(t) PROVE ToolInv'
    BY <1>3, OutsideKeeps DEF Revoke
<1> QED
    BY <1>1, <1>2, <1>3 DEF HostStep

----------------------------------------------------------------------------
(* The service.                                                            *)

\* Nobody refers to a call that has not been made.
LEMMA NotMade ==
    ASSUME ToolInv, NEW c \in Calls, inv[c] = NoCall
    PROVE  at[c] = "idle" /\ result[c] = Failed /\ waits[c] = NoCall /\ c \notin published /\ c \notin late /\ ~answer[c].ok
<1>1. at[c] = "idle" /\ result[c] = Failed
    BY DEF ToolInv, ToolType, HostInv, ResultOk
<1>2. waits[c] = NoCall /\ c \notin published /\ c \notin late
    BY DEF ToolInv, RpcInv, WaitsOk, ResponseOk, LateOk
<1>3. ~answer[c].ok
    BY <1>2, CallAssumption DEF ToolInv, ToolType, RpcInv, ResponseOk
<1> QED
    BY <1>1, <1>2, <1>3

\* The host's part of a request that arrives.
LEMMA ArrivalHost ==
    ASSUME ToolInv, NEW c \in Calls, NEW i \in Asks[c], inv[c] = NoCall, inv' = [inv EXCEPT ![c] = i],
           at' = at \/ at' = [at EXCEPT ![c] = "called"],
           UNCHANGED <<joined, result, cache, cacheOrder, inflight, stored>>
    PROVE  /\ inv' \in [Calls -> Invocations \cup {NoCall}] /\ inv'[c] = i /\ i # NoCall
           /\ at' \in [Calls -> {"idle", "called", "provider", "join", "returned"}]
           /\ \A d \in Calls : d # c => inv'[d] = inv[d] /\ at'[d] = at[d]
           /\ at'[c] \in {"idle", "called"}
           /\ HostInv' /\ OrderOk'
<1>1. at[c] = "idle" /\ result[c] = Failed
    BY NotMade
<1>2. i \in Invocations /\ i # NoCall
    BY InvocationFacts
<1>3. /\ inv' \in [Calls -> Invocations \cup {NoCall}] /\ inv'[c] = i
      /\ at' \in [Calls -> {"idle", "called", "provider", "join", "returned"}]
      /\ \A d \in Calls : d # c => inv'[d] = inv[d] /\ at'[d] = at[d]
      /\ at'[c] \in {"idle", "called"}
    BY <1>1, <1>2 DEF ToolInv, ToolType
<1>4. ASSUME NEW d \in Calls PROVE ResultOk(d)' /\ JoinOk(d)'
  <2>1. ResultOk(d) /\ JoinOk(d)
    BY DEF ToolInv, HostInv
  <2>2. CASE d = c
    BY <1>1, <1>2, <1>3, <2>2, ResultFacts DEF ResultOk, JoinOk
  <2>3. CASE d # c
    <3>1. PICK e : e = result[d].from
      OBVIOUS
    <3>2. result[d].ok => MadeFor(d, e)'
      BY <1>1, <1>3, <2>1, <2>3, <3>1 DEF ResultOk, MadeFor, Alike, Keyed
    <3>3. ResultOk(d)'
      BY <1>3, <2>1, <2>3, <3>1, <3>2 DEF ResultOk
    <3>4. JoinOk(d)'
      BY <1>1, <1>3, <2>1, <2>3 DEF JoinOk, Alike, Keyed
    <3> QED
      BY <3>3, <3>4
  <2> QED
    BY <2>2, <2>3
<1>5. CacheOk'
    BY <1>1, <1>3 DEF ToolInv, ToolType, HostInv, CacheOk, KeyOf
<1>6. InFlightOk'
    BY <1>1, <1>3 DEF ToolInv, ToolType, HostInv, InFlightOk, KeyOf, Keyed
<1>7. OrderOk'
  <2>1. \A n \in 1 .. Len(stored) : stored[n] \in Calls /\ inv'[stored[n]] = inv[stored[n]] /\ inv[stored[n]] # NoCall
    BY <1>3 DEF ToolInv, OrderOk
  <2>2. \A j \in 1 .. Len(cacheOrder) : Len(stored) - Len(cacheOrder) + j \in 1 .. Len(stored)
    BY LimitAssumption DEF ToolInv, OrderOk
  <2>3. \A n \in 1 .. Len(stored) : KeyOf(stored[n])' = KeyOf(stored[n])
    BY <2>1 DEF KeyOf
  <2>4. ASSUME NEW j \in 1 .. Len(cacheOrder)
        PROVE  KeyOf(stored[Len(stored) - Len(cacheOrder) + j])' = cacheOrder[j]
    BY <2>2, <2>3 DEF ToolInv, OrderOk
  <2>5. \A n \in 1 .. Len(stored) : inv'[stored[n]] # NoCall
    BY <2>1
  <2> QED
    BY <2>4, <2>5 DEF ToolInv, OrderOk
<1> QED
    BY <1>2, <1>3, <1>4, <1>5, <1>6, <1>7 DEF HostInv

\* A request that arrives: whom it waits for is alike, or itself, or nobody.
LEMMA ArrivalKeeps ==
    ASSUME ToolInv, NEW c \in Calls, NEW i \in Asks[c], Arrives(c, i), inv' = [inv EXCEPT ![c] = i],
           at' = at \/ at' = [at EXCEPT ![c] = "called"],
           UNCHANGED <<joined, result, cache, cacheOrder, inflight, stored, granted, published, response>>,
           NEW w \in Calls \cup {NoCall}, waits' = [waits EXCEPT ![c] = w],
           \/ w = NoCall \/ w = c
           \/ /\ inv[w] # NoCall /\ i.key # NoKey
              /\ i.tool = inv[w].tool /\ i.key = inv[w].key /\ i.input = inv[w].input,
           pending' = pending \/ (i.key \in Keys /\ pending' = [pending EXCEPT ![i.key] = c]),
           answered' = answered \/ answered' = answered \cup {c},
           answer' = answer \/ answer' = [answer EXCEPT ![c] = Failed]
    PROVE  ToolInv'
<1>1. inv[c] = NoCall /\ late' = IF i.tool \in granted THEN late ELSE late \cup {c}
    BY DEF Arrives
<1>2. /\ inv' \in [Calls -> Invocations \cup {NoCall}] /\ inv'[c] = i /\ i # NoCall
      /\ at' \in [Calls -> {"idle", "called", "provider", "join", "returned"}]
      /\ \A d \in Calls : d # c => inv'[d] = inv[d] /\ at'[d] = at[d]
      /\ at'[c] \in {"idle", "called"}
      /\ HostInv' /\ OrderOk'
    BY <1>1, ArrivalHost
<1>3. at[c] = "idle" /\ result[c] = Failed /\ waits[c] = NoCall /\ c \notin published /\ c \notin late /\ ~answer[c].ok
    BY <1>1, NotMade
<1>4. /\ \A d \in Calls : waits'[d] = IF d = c THEN w ELSE waits[d]
      /\ \A d \in Calls : d # c => answer'[d] = answer[d]
      /\ ~answer'[c].ok /\ answer' \in [Calls -> Results]
    BY <1>3, ResultFacts DEF ToolInv, ToolType
<1>5. ToolType'
    BY <1>1, <1>2, <1>4 DEF ToolInv, ToolType
<1>6. ASSUME NEW d \in Calls PROVE WaitsOk(d)'
  <2>1. WaitsOk(d)
    BY DEF ToolInv, RpcInv
  <2>2. CASE d = c
    BY <1>1, <1>2, <1>4, <2>2 DEF WaitsOk, Alike, Keyed
  <2>3. CASE d # c
    <3>1. waits'[d] = waits[d] /\ waits[d] \in Calls \cup {NoCall}
      BY <1>4, <2>3 DEF ToolInv, ToolType
    <3> QED
      BY <1>1, <1>2, <2>1, <2>3, <3>1 DEF WaitsOk, Alike, Keyed
  <2> QED
    BY <2>2, <2>3
<1>7. ASSUME NEW d \in Calls PROVE ResponseOk(d)'
  <2>1. ResponseOk(d)
    BY DEF ToolInv, RpcInv
  <2>2. CASE d = c
    BY <1>2, <1>3, <1>4, <2>1, <2>2 DEF ResponseOk
  <2>3. CASE d # c
    BY <1>2, <1>3, <1>4, <2>1, <2>3 DEF ResponseOk
  <2> QED
    BY <2>2, <2>3
<1>8. PendingOk'
  <2>1. ASSUME NEW k \in Keys, pending'[k] # NoCall PROVE inv'[pending'[k]] # NoCall /\ inv'[pending'[k]].key = k
    <3>1. CASE pending'[k] = pending[k]
      <4>1. pending[k] \in Calls /\ inv[pending[k]] # NoCall /\ inv[pending[k]].key = k
        BY <2>1, <3>1 DEF ToolInv, ToolType, RpcInv, PendingOk
      <4> QED
        BY <1>1, <1>2, <3>1, <4>1
    <3>2. CASE pending'[k] # pending[k]
      <4>1. k = i.key /\ pending'[k] = c
        BY <2>1, <3>2 DEF ToolInv, ToolType
      <4> QED
        BY <1>2, <4>1
    <3> QED
      BY <3>1, <3>2
  <2> QED
    BY <2>1 DEF PendingOk
<1>9. LateOk'
  <2>1. \A d \in late : d \in Calls /\ d # c
    BY <1>3 DEF ToolInv, ToolType
  <2> QED
    BY <1>1, <1>2, <1>3, <2>1, ResultFacts DEF ToolInv, RpcInv, LateOk
<1> QED
    BY <1>2, <1>5, <1>6, <1>7, <1>8, <1>9 DEF ToolInv, RpcInv

LEMMA ArrivalStepKeeps ==
    ASSUME ToolInv, NEW c \in Calls, Arrival(c)
    PROVE  ToolInv'
<1> PICK i \in Asks[c] :
        \/ DirectInvoke(c, i) \/ HandleIncompatible(c, i) \/ HandleSingle(c, i)
        \/ HandleLeads(c, i) \/ HandleJoins(c, i) \/ HandleConflict(c, i)
    BY DEF Arrival
<1>1. /\ Arrives(c, i) /\ inv' = [inv EXCEPT ![c] = i] /\ (at' = at \/ at' = [at EXCEPT ![c] = "called"])
      /\ UNCHANGED <<joined, result, cache, cacheOrder, inflight, stored, granted>>
    BY DEF DirectInvoke, HandleIncompatible, HandleSingle, HandleLeads, HandleJoins, HandleConflict, ArrivesIdle,
       ArrivesCalling, Invoke
<1>2. i.key # NoKey => i.key \in Keys
    BY InvocationFacts
<1>3. UNCHANGED waits => waits' = [waits EXCEPT ![c] = NoCall]
  <2>1. waits[c] = NoCall /\ waits \in [Calls -> Calls \cup {NoCall}]
    BY <1>1, NotMade DEF Arrives, ToolInv, ToolType
  <2> QED
    BY <2>1
<1>4. CASE DirectInvoke(c, i)
  <2>1. UNCHANGED <<pending, waits, published, response, answered, answer>>
    BY <1>4 DEF DirectInvoke
  <2> QED
    BY <1>1, <1>3, <2>1, ArrivalKeeps
<1>5. CASE HandleIncompatible(c, i) \/ HandleConflict(c, i)
  <2>1. UNCHANGED <<pending, waits, published, response>> /\ AnswerWith(c, Failed)
    BY <1>5 DEF HandleIncompatible, HandleConflict
  <2> QED
    BY <1>1, <1>3, <2>1, ArrivalKeeps DEF AnswerWith
<1>6. CASE HandleSingle(c, i)
  <2>1. UNCHANGED <<pending, published, response, answered, answer>> /\ waits' = [waits EXCEPT ![c] = c]
    BY <1>6 DEF HandleSingle
  <2> QED
    BY <1>1, <2>1, ArrivalKeeps
<1>7. CASE HandleLeads(c, i)
  <2>1. /\ UNCHANGED <<published, response, answered, answer>> /\ waits' = [waits EXCEPT ![c] = c]
        /\ i.key # NoKey /\ pending' = [pending EXCEPT ![i.key] = c]
    BY <1>7 DEF HandleLeads, idempotencyKey
  <2> QED
    BY <1>1, <1>2, <2>1, ArrivalKeeps
<1>8. CASE HandleJoins(c, i)
  <2> DEFINE w == pending[i.key]
  <2>1. /\ UNCHANGED <<pending, published, response, answered, answer>> /\ waits' = [waits EXCEPT ![c] = w]
        /\ i.key # NoKey /\ w # NoCall
        /\ i.tool = inv[w].tool /\ i.key = inv[w].key /\ i.input = inv[w].input
    BY <1>8 DEF HandleJoins, idempotencyKey, Fingerprint
  <2>2. w \in Calls /\ inv[w] # NoCall
    BY <1>2, <2>1 DEF ToolInv, ToolType, RpcInv, PendingOk
  <2> HIDE DEF w
  <2> QED
    BY <1>1, <2>1, <2>2, ArrivalKeeps
<1> QED
    BY <1>4, <1>5, <1>6, <1>7, <1>8

LEMMA PublishKeeps ==
    ASSUME ToolInv, NEW c \in Calls, Publish(c)
    PROVE  ToolInv'
<1>1. /\ at[c] = "returned" /\ waits[c] = c /\ c \notin published
      /\ published' = published \cup {c}
      /\ response' = [response EXCEPT ![c] = IF Keyed(c) /\ c \in expired THEN Failed ELSE result[c]]
      /\ pending' = IF Keyed(c) THEN [pending EXCEPT ![inv[c].key] = NoCall] ELSE pending
      /\ UNCHANGED <<inv, at, joined, result, cache, cacheOrder, inflight, granted, stored>>
      /\ UNCHANGED <<waits, answered, answer, late>>
    BY DEF Publish, hostVars
<1>2. ToolType'
  <2>1. result[c] \in Results /\ Failed \in Results
    BY ResultFacts DEF ToolInv, ToolType
  <2>2. response' \in [Calls -> Results]
    BY <1>1, <2>1 DEF ToolInv, ToolType
  <2>3. pending' \in [Keys -> Calls \cup {NoCall}]
    BY <1>1 DEF ToolInv, ToolType
  <2> QED
    BY <1>1, <2>2, <2>3 DEF ToolInv, ToolType
<1>3. HostInv' /\ OrderOk'
  <2>1. OrderOk'
    BY <1>1, OrderStays DEF ToolInv
  <2>2. HostInv'
    BY <1>1 DEF ToolInv, HostInv, ResultOk, JoinOk, CacheOk, InFlightOk, MadeFor, Alike, Keyed, KeyOf
  <2> QED
    BY <2>1, <2>2
<1>4. inv[c] # NoCall
    BY <1>1, CallAssumption DEF ToolInv, RpcInv, WaitsOk
<1>5. \A d \in Calls : d # c => response'[d] = response[d]
    BY <1>1 DEF ToolInv, ToolType
<1>6. response'[c].ok => response'[c] = result[c]
    BY <1>1, ResultFacts DEF ToolInv, ToolType
<1>7. ASSUME NEW d \in Calls PROVE (WaitsOk(d) /\ ResponseOk(d))'
  <2>1. WaitsOk(d) /\ ResponseOk(d) /\ waits[d] \in Calls \cup {NoCall}
    BY DEF ToolInv, RpcInv, ToolType
  <2>2. WaitsOk(d)'
    BY <1>1, <2>1 DEF WaitsOk, Alike, Keyed
  <2>3. /\ d \in published' => at'[d] = "returned" /\ inv'[d] # NoCall
        /\ response'[d].ok => d \in published' /\ response'[d] = result'[d]
    BY <1>1, <1>4, <1>5, <1>6, <2>1 DEF ResponseOk
  <2>4. answer[d].ok => waits[d] # c /\ waits[d] \in Calls
    BY <1>1, <2>1 DEF ResponseOk, ToolInv, ToolType
  <2> QED
    BY <1>1, <1>5, <2>1, <2>2, <2>3, <2>4 DEF ResponseOk
<1>8. PendingOk'
    BY <1>1 DEF ToolInv, ToolType, RpcInv, PendingOk
<1>9. LateOk'
    BY <1>1 DEF ToolInv, RpcInv, LateOk
<1> QED
    BY <1>2, <1>3, <1>7, <1>8, <1>9 DEF ToolInv, RpcInv

\* A Handle returns an error, or the response it waited for.
LEMMA AnswerKeeps ==
    ASSUME ToolInv, NEW c \in Calls, NEW r \in Results, AnswerWith(c, r),
           r.ok => waits[c] \in published /\ response[waits[c]].ok /\ r = response[waits[c]],
           UNCHANGED <<hostVars, pending, waits, published, response, late>>
    PROVE  ToolInv'
<1>1. /\ answered' = answered \cup {c} /\ answer' = [answer EXCEPT ![c] = r]
      /\ UNCHANGED <<inv, at, joined, result, cache, cacheOrder, inflight, granted, stored>>
      /\ UNCHANGED <<pending, waits, published, response, late>>
    BY DEF AnswerWith, hostVars
<1>2. ToolType'
    BY <1>1 DEF ToolInv, ToolType
<1>3. HostInv' /\ OrderOk'
  <2>1. OrderOk'
    BY <1>1, OrderStays DEF ToolInv
  <2>2. HostInv'
    BY <1>1 DEF ToolInv, HostInv, ResultOk, JoinOk, CacheOk, InFlightOk, MadeFor, Alike, Keyed, KeyOf
  <2> QED
    BY <2>1, <2>2
<1>4. \A d \in Calls : answer'[d] = IF d = c THEN r ELSE answer[d]
    BY <1>1 DEF ToolInv, ToolType
<1>5. ASSUME NEW d \in Calls PROVE (WaitsOk(d) /\ ResponseOk(d))'
  <2>1. WaitsOk(d) /\ ResponseOk(d)
    BY DEF ToolInv, RpcInv
  <2>2. WaitsOk(d)'
    BY <1>1, <2>1 DEF WaitsOk, Alike, Keyed
  <2>3. ResponseOk(d)'
    BY <1>1, <1>4, <2>1 DEF ResponseOk
  <2> QED
    BY <2>2, <2>3
<1>6. PendingOk' /\ LateOk'
    BY <1>1 DEF ToolInv, RpcInv, PendingOk, LateOk
<1> QED
    BY <1>2, <1>3, <1>5, <1>6 DEF ToolInv, RpcInv

LEMMA AnswerPublishedKeeps ==
    ASSUME ToolInv, NEW c \in Calls, AnswerPublished(c)
    PROVE  ToolInv'
<1> DEFINE r == IF ~Keyed(c) /\ c \in expired THEN Failed ELSE response[waits[c]]
<1>1. /\ waits[c] \in published /\ AnswerWith(c, r)
      /\ UNCHANGED <<hostVars, pending, waits, published, response, late>>
    BY DEF AnswerPublished
<1>2. r \in Results
    BY <1>1, ResultFacts DEF ToolInv, ToolType
<1>3. r.ok => response[waits[c]].ok /\ r = response[waits[c]]
    BY ResultFacts
<1> HIDE DEF r
<1> QED
    BY <1>1, <1>2, <1>3, AnswerKeeps

LEMMA AnswerExpiredKeeps ==
    ASSUME ToolInv, NEW c \in Calls, AnswerExpired(c)
    PROVE  ToolInv'
BY ResultFacts, AnswerKeeps DEF AnswerExpired

----------------------------------------------------------------------------
LEMMA InitTool == ToolInit => ToolInv
<1> SUFFICES ASSUME ToolInit PROVE ToolInv
    OBVIOUS
<1> USE DEF ToolInit, HostInit
<1>1. ToolType
    BY ResultFacts DEF ToolType
<1>2. HostInv
    BY ResultFacts DEF HostInv, ResultOk, JoinOk, CacheOk, InFlightOk
<1>3. RpcInv
    BY ResultFacts DEF RpcInv, WaitsOk, ResponseOk, PendingOk, LateOk
<1>4. OrderOk
    BY LimitAssumption DEF OrderOk
<1> QED
    BY <1>1, <1>2, <1>3, <1>4 DEF ToolInv

LEMMA StepKeepsTool == ToolInv /\ [ToolNext]_toolVars => ToolInv'
<1> SUFFICES ASSUME ToolInv, [ToolNext]_toolVars PROVE ToolInv'
    OBVIOUS
<1>1. CASE UNCHANGED toolVars
    BY <1>1, OutsideKeeps DEF toolVars, hostVars, rpcVars
<1>2. ASSUME NEW c \in Calls, Expires(c) PROVE ToolInv'
    BY <1>2, OutsideKeeps DEF Expires, Expire, rpcVars
<1>3. ASSUME NEW c \in Calls, Arrival(c) \/ Publish(c) \/ AnswerPublished(c) \/ AnswerExpired(c) PROVE ToolInv'
    BY <1>3, ArrivalStepKeeps, PublishKeeps, AnswerPublishedKeeps, AnswerExpiredKeeps
<1>4. CASE HostStep /\ UNCHANGED <<pending, waits, published, response, answered, answer, late>>
    BY <1>4, HostKeeps DEF rpcVars
<1> QED
    BY <1>1, <1>2, <1>3, <1>4 DEF ToolNext

\* Whatever a request or a call got in the end was made for it, and by a call
\* of the host that had authority when it was made.
LEMMA OutcomeFacts ==
    ASSUME ToolInv, NEW c \in Calls, Outcome(c).ok
    PROVE  /\ MadeFor(c, Outcome(c).from)
           /\ c \in late => waits[c] \notin late \cup {NoCall}
<1>1. CASE inv[c] # NoCall /\ inv[c].rpc
  <2> DEFINE w == waits[c]
  <2>1. answer[c].ok /\ Outcome(c) = answer[c]
    BY <1>1 DEF Outcome
  <2>2. w \in published /\ response[w].ok /\ answer[c] = response[w]
    BY <2>1 DEF ToolInv, RpcInv, ResponseOk
  <2>3. w \in Calls /\ w # NoCall
    BY <2>2, CallAssumption DEF ToolInv, ToolType
  <2>4. answer[c] = result[w] /\ result[w].ok
    BY <2>2, <2>3 DEF ToolInv, RpcInv, ResponseOk
  <2>5. MadeFor(w, result[w].from)
    BY <2>3, <2>4 DEF ToolInv, HostInv, ResultOk
  <2>6. w # c => Keyed(c) /\ Alike(c, w)
    BY <2>3 DEF ToolInv, RpcInv, WaitsOk
  <2>7. MadeFor(c, result[w].from)
    BY <2>5, <2>6 DEF MadeFor, Alike, Keyed
  <2>8. w \notin late
    BY <2>4 DEF ToolInv, RpcInv, LateOk
  <2> QED
    BY <2>1, <2>3, <2>4, <2>7, <2>8
<1>2. CASE ~(inv[c] # NoCall /\ inv[c].rpc)
  <2>1. Outcome(c) = result[c] /\ result[c].ok
    BY <1>2 DEF Outcome
  <2>2. MadeFor(c, result[c].from)
    BY <2>1 DEF ToolInv, HostInv, ResultOk
  <2>3. c \notin late
    BY <2>1 DEF ToolInv, RpcInv, LateOk
  <2> QED
    BY <2>1, <2>2, <2>3
<1> QED
    BY <1>1, <1>2

\* A success, from Invoke or from toolbox.invoke, is the output of one
\* successful provider run for the same tool, key and input, and of the call's
\* own run if it has no key: through the cache, both tables of requests in
\* flight, and responses published after deadlines.
THEOREM AnswerIsOwnHolds == ToolSpec => []AnswerIsOwn
<1>1. ToolInv => AnswerIsOwn
  <2> SUFFICES ASSUME ToolInv, NEW c \in Calls, Outcome(c).ok
               PROVE  LET d == Outcome(c).from
                      IN  /\ result[d] = Made(d)
                          /\ inv[d].tool = inv[c].tool /\ inv[d].key = inv[c].key /\ inv[d].input = inv[c].input
                          /\ ~Keyed(c) => d = c
    BY DEF AnswerIsOwn
  <2>1. MadeFor(c, Outcome(c).from)
    BY OutcomeFacts
  <2> QED
    BY <2>1 DEF MadeFor, Alike
<1> QED
    BY <1>1, InitTool, StepKeepsTool, PTL DEF ToolSpec

\* A request made after its tool was revoked succeeds only by joining one that
\* was made before: the cache, the host's calls in flight and a response that
\* is published late never stand in for the policy.
THEOREM AnswerAuthorisedHolds == ToolSpec => []AnswerAuthorised
<1>1. ToolInv => AnswerAuthorised
    BY OutcomeFacts DEF AnswerAuthorised, ToolInv, ToolType
<1> QED
    BY <1>1, InitTool, StepKeepsTool, PTL DEF ToolSpec

\* The one step that starts the provider of a call with a key.
LEMMA OnlyLeadStarts ==
    ASSUME ToolInv, ToolNext, NEW c \in Calls, at[c] # "provider", at'[c] = "provider", Keyed(c)
    PROVE  Lead(c)
<1>1. at \in [Calls -> {"idle", "called", "provider", "join", "returned"}]
    BY DEF ToolInv, ToolType
<1>2. ASSUME NEW d \in Calls, Arrival(d) PROVE FALSE
  <2>1. PICK i \in Asks[d] : at' = at \/ at' = [at EXCEPT ![d] = "called"]
    BY <1>2 DEF Arrival, DirectInvoke, HandleIncompatible, HandleSingle, HandleLeads, HandleJoins, HandleConflict,
       ArrivesIdle, ArrivesCalling, Invoke
  <2> QED
    BY <1>1, <2>1
<1>3. ASSUME NEW d \in Calls, Expires(d) \/ Publish(d) \/ AnswerPublished(d) \/ AnswerExpired(d) PROVE FALSE
    BY <1>3 DEF Expires, Expire, Publish, AnswerPublished, AnswerExpired, hostVars
<1>4. ASSUME NEW d \in Calls,
             Deny(d) \/ Replay(d) \/ Conflict(d) \/ JoinReturns(d) \/ JoinExpires(d)
                \/ \E ok \in BOOLEAN : ProviderReturns(d, ok)
      PROVE  FALSE
  <2>1. at' = [at EXCEPT ![d] = "returned"]
    BY <1>4 DEF Deny, Replay, Conflict, JoinReturns, JoinExpires, ProviderReturns, Return
  <2> QED
    BY <1>1, <2>1
<1>5. ASSUME NEW d \in Calls, Join(d) PROVE FALSE
    BY <1>1, <1>5 DEF Join
<1>6. ASSUME NEW d \in Calls, RunUnkeyed(d) PROVE FALSE
    BY <1>1, <1>6 DEF RunUnkeyed
<1>7. ASSUME NEW t \in Tools, Revoke(t) PROVE FALSE
    BY <1>7 DEF Revoke
<1>8. ASSUME NEW d \in Calls, Lead(d) PROVE d = c
    BY <1>1, <1>8 DEF Lead
<1> QED
    BY <1>2, <1>3, <1>4, <1>5, <1>6, <1>7, <1>8 DEF ToolNext, HostStep, InvokeStep

\* A key that is neither cached nor in flight: nobody runs its provider, and
\* each result stored for it has been pushed out of the cache by others.
LEMMA FreshKey ==
    ASSUME ToolInv, NEW k \in HostKeys, cache[k] = NoCall, inflight[k] = NoCall,
           NEW d \in Calls, inv[d] # NoCall, Keyed(d), KeyOf(d) = k
    PROVE  /\ at[d] # "provider"
           /\ \A n \in 1 .. Len(stored) : stored[n] = d => Len(stored) - n >= CacheLimit
<1>1. at[d] # "provider"
    BY CallAssumption DEF ToolInv, HostInv, InFlightOk
<1>2. ASSUME NEW n \in 1 .. Len(stored), stored[n] = d, ~(Len(stored) - n >= CacheLimit) PROVE FALSE
  <2> DEFINE j == n - (Len(stored) - Len(cacheOrder))
  <2>1. Len(stored) \in Nat /\ Len(cacheOrder) \in Nat /\ n \in Nat
    BY DEF ToolInv, OrderOk
  <2>2. Len(cacheOrder) <= CacheLimit /\ (Len(cacheOrder) = Len(stored) \/ Len(cacheOrder) = CacheLimit)
    BY DEF ToolInv, OrderOk
  <2>3. j \in 1 .. Len(cacheOrder) /\ Len(stored) - Len(cacheOrder) + j = n
    BY <1>2, <2>1, <2>2, LimitAssumption
  <2> HIDE DEF j
  <2>4. cacheOrder[j] = KeyOf(stored[n]) /\ cache[cacheOrder[j]] # NoCall
    BY <2>3 DEF ToolInv, OrderOk
  <2> QED
    BY <1>2, <2>4
<1> QED
    BY <1>1, <1>2

\* One effect for a key: the provider of a keyed call is never started while
\* another call runs it for the same tool and key, and after a success only
\* once CacheLimit further results have pushed that one out of the cache.
THEOREM EffectOnceHolds == ToolSpec => EffectOnce
<1> DEFINE Once == \A c, d \in Calls :
        (at[c] # "provider" /\ at'[c] = "provider" /\ Keyed(c) /\ d # c /\ inv[d] # NoCall /\ KeyOf(c) = KeyOf(d)) =>
            /\ at[d] # "provider"
            /\ \A n \in 1 .. Len(stored) : stored[n] = d => Len(stored) - n >= CacheLimit
<1>1. ToolInv /\ [ToolNext]_toolVars => [Once]_hostVars
  <2> SUFFICES ASSUME ToolInv, ToolNext,
                      NEW c \in Calls, NEW d \in Calls, at[c] # "provider", at'[c] = "provider", Keyed(c),
                      d # c, inv[d] # NoCall, KeyOf(c) = KeyOf(d)
               PROVE  /\ at[d] # "provider"
                      /\ \A n \in 1 .. Len(stored) : stored[n] = d => Len(stored) - n >= CacheLimit
    BY DEF toolVars
  <2>1. Lead(c)
    BY OnlyLeadStarts
  <2>2. cache[KeyOf(c)] = NoCall /\ inflight[KeyOf(c)] = NoCall /\ at[c] = "called"
    BY <2>1 DEF Lead, Looks, Cached, InFlight
  <2>3. inv[c] # NoCall /\ Keyed(d)
    BY <2>2 DEF ToolInv, HostInv, ResultOk, KeyOf, Keyed
  <2>4. KeyOf(c) \in HostKeys
    BY <2>3, KeyFacts DEF ToolInv
  <2> QED
    BY <2>2, <2>3, <2>4, FreshKey
<1> QED
    BY <1>1, InitTool, StepKeepsTool, PTL DEF ToolSpec, EffectOnce

(***************************************************************************)
(* Worker lifecycle.                                                       *)
(***************************************************************************)
\* The types that the argument rests on.
SignalType ==
    /\ pc \in [Runs -> {"idle", "created", "starting", "adapter", "detach", "stopping", "last", "done"}]
    /\ state \in [Runs -> States \cup {"none"}]
    /\ verdict \in [Runs -> Terminal]
    /\ accepted \in [Runs -> SUBSET Requests]
    /\ signals \subseteq Runs \X Requests

\* A control is in the table from its instantiation until Run detaches it.
ActiveIsInside ==
    \A r \in active : pc[r] \in {"created", "starting", "adapter", "detach"}

\* Where Run is tells what the instance's record says; a worker is terminal
\* only once its run is over.
TerminalIsOver ==
    \A r \in Runs : state[r] \in Terminal => pc[r] = "done" /\ state[r] = verdict[r]

\* A request sets its flag before it is reported as accepted.
FlagFirst ==
    /\ \A r \in Runs : (<<r, "stop">> \in signals \/ "stop" \in accepted[r]) => r \in stopped
    /\ \A r \in Runs : (<<r, "terminate">> \in signals \/ "terminate" \in accepted[r]) => r \in terminated

\* The verdict of a run that has detached is the one its flags call for.
VerdictFits ==
    \A r \in Runs : pc[r] \in {"stopping", "last"} \/ state[r] \in Terminal =>
        verdict[r] = TerminalState(r)

SignalInv == SignalType /\ ActiveIsInside /\ TerminalIsOver /\ FlagFirst /\ VerdictFits

LEMMA InitSignal == WLInit => SignalInv
BY DEF WLInit, SignalInv, SignalType, ActiveIsInside, TerminalIsOver, FlagFirst, VerdictFits,
       States, Terminal, Requests

LEMMA StepKeepsSignal == SignalInv /\ [WLNext]_vars => SignalInv'
<1> SUFFICES ASSUME SignalInv, [WLNext]_vars PROVE SignalInv'
    OBVIOUS
<1> USE DEF SignalInv, SignalType, ActiveIsInside, TerminalIsOver, FlagFirst, VerdictFits,
            States, Terminal, Requests, TerminalState
<1>1. ASSUME NEW r \in Runs, RunRefused(r) PROVE SignalInv'
    BY <1>1 DEF RunRefused, Goto
<1>2. ASSUME NEW r \in Runs, Instantiate(r) PROVE SignalInv'
    BY <1>2 DEF Instantiate, Goto
<1>3. ASSUME NEW r \in Runs, Begin(r) PROVE SignalInv'
    BY <1>3 DEF Begin, Goto
<1>4. ASSUME NEW r \in Runs, Starting(r) PROVE SignalInv'
    BY <1>4 DEF Starting, Goto, Transition
<1>5. ASSUME NEW r \in Runs, Running(r) PROVE SignalInv'
    BY <1>5 DEF Running, Goto, Transition
<1>6. ASSUME NEW r \in Runs, AdapterReturn(r) PROVE SignalInv'
    BY <1>6 DEF AdapterReturn, Goto
<1>7. ASSUME NEW r \in Runs, Detach(r) PROVE SignalInv'
    BY <1>7 DEF Detach, Goto
<1>8. ASSUME NEW r \in Runs, Stopping(r) PROVE SignalInv'
    BY <1>8 DEF Stopping, Goto, Transition
<1>9. ASSUME NEW r \in Runs, LastTransition(r) PROVE SignalInv'
    BY <1>9 DEF LastTransition, Goto, Transition
<1>10. ASSUME NEW r \in Runs, NEW q \in Requests, Signal(r, q) PROVE SignalInv'
    BY <1>10 DEF Signal
<1>11. ASSUME NEW r \in Runs, NEW q \in Requests, Cancel(r, q) PROVE SignalInv'
    BY <1>11 DEF Cancel
<1>12. ASSUME NEW r \in Runs, ParentCancel(r) PROVE SignalInv'
    BY <1>12 DEF ParentCancel
<1>13. CASE UNCHANGED vars
    BY <1>13 DEF vars
<1> QED
    BY <1>1, <1>2, <1>3, <1>4, <1>5, <1>6, <1>7, <1>8, <1>9, <1>10, <1>11, <1>12, <1>13
       DEF WLNext, ManagerStep

LEMMA SignalInvSuffices == SignalInv => SignalHonoured
BY DEF SignalInv, SignalType, ActiveIsInside, TerminalIsOver, FlagFirst, VerdictFits, SignalHonoured,
       Terminal, Requests, TerminalState

\* A Stop or Terminate that returned true to its caller decides how the run
\* ends, whatever it raced with, for any number of runs (signal and the
\* critical section that follows the adapter in Run).
THEOREM SignalHonouredHolds == WLSpec => []SignalHonoured
<1>1. WLInit => SignalInv
    BY InitSignal
<1>2. SignalInv /\ [WLNext]_vars => SignalInv'
    BY StepKeepsSignal
<1>3. SignalInv => SignalHonoured
    BY SignalInvSuffices
<1> QED
    BY <1>1, <1>2, <1>3, PTL DEF WLSpec
============================================================================
