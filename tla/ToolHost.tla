------------------------------ MODULE ToolHost ------------------------------
(***************************************************************************)
(* The tool invocation host, src/toolbox/host/host.go, over the registry   *)
(* (src/toolbox/registry) and the policy engine (src/toolbox/policy).      *)
(*                                                                         *)
(* A call is one activation of Host.Invoke.  A cached result and the hash  *)
(* of its input are those of the call whose provider made it, so a cache   *)
(* entry and an in-flight entry are that call.  A tool stands for a tool   *)
(* and the execution contract it is called under; whether the registry     *)
(* knows it with a provider and the policy grants it is one fact, which    *)
(* may change from true to false.  One step is one critical section of     *)
(* Host.mu, with the policy evaluation that precedes it: only Revoke       *)
(* touches what it reads, and a property that depends on authority looks   *)
(* at the moment a request is made.  Metrics and the audit log are left    *)
(* out (nothing reads them back).                                          *)
(***************************************************************************)
EXTENDS Naturals, Sequences

CONSTANTS
    Calls,        \* activations of Invoke, numbered in the order they are made
    NoCall,       \* no call
    NoKey,        \* an invocation without an idempotency key
    Asks,         \* what each call may ask: tool, key, input, and who asks how
    CacheLimit    \* defaultCacheLimit

Invocations == UNION {Asks[c] : c \in Calls}
Tools == {i.tool : i \in Invocations}
Keys == {i.key : i \in Invocations} \ {NoKey}

ASSUME CallAssumption == Calls \subseteq Nat /\ NoCall \notin Calls
ASSUME LimitAssumption == CacheLimit \in Nat \ {0}
ASSUME InvocationAssumption ==
    \A i \in Invocations :
        i # NoCall /\ DOMAIN i = {"tool", "key", "input", "caller", "rpc", "major"} /\ i.rpc \in BOOLEAN

VARIABLES
    inv,         \* the invocation of each call, NoCall before it is made
    at,          \* where the call is
    joined,      \* the in-flight call it waits for
    result,      \* what it returned: whether ok, and the call whose provider ran
    cache,       \* Host.cache
    cacheOrder,  \* Host.cacheOrder
    inflight,    \* Host.inflight
    expired,     \* calls whose context is done
    granted,     \* tools that are registered and granted
    stored       \* history: the calls whose result was stored, in order

hostVars == <<inv, at, joined, result, cache, cacheOrder, inflight, expired, granted, stored>>

HostKeys == Tools \X Keys
KeyOf(c) == <<inv[c].tool, inv[c].key>>
Keyed(c) == inv[c].key # NoKey

Failed == [ok |-> FALSE, from |-> NoCall]
Made(c) == [ok |-> TRUE, from |-> c]

HostInit ==
    /\ inv = [c \in Calls |-> NoCall]
    /\ at = [c \in Calls |-> "idle"]
    /\ joined = [c \in Calls |-> NoCall]
    /\ result = [c \in Calls |-> Failed]
    /\ cache = [k \in HostKeys |-> NoCall] /\ cacheOrder = <<>>
    /\ inflight = [k \in HostKeys |-> NoCall]
    /\ expired = {} /\ granted = Tools /\ stored = <<>>

Return(c, r) ==
    /\ at' = [at EXCEPT ![c] = "returned"]
    /\ result' = [result EXCEPT ![c] = r]

\* A call enters Invoke.
Invoke(c, i) ==
    /\ inv' = [inv EXCEPT ![c] = i]
    /\ at' = [at EXCEPT ![c] = "called"]

Cached(c) == cache[KeyOf(c)]
InFlight(c) == inflight[KeyOf(c)]

\* A key with a cached result needs no policy.
Passes_CachedFirst(c) == inv[c].tool \in granted \/ (Keyed(c) /\ Cached(c) # NoCall)

\* Registry.Get, Engine.Evaluate and ProviderForManifest all pass.
Passes(c) == inv[c].tool \in granted

\* What each keyed call does first: policy, then the lookup under the lock.
Looks(c) == at[c] = "called" /\ Passes(c) /\ Keyed(c)

\* One of them does not: the call returns its error.
Deny(c) ==
    /\ at[c] = "called" /\ ~Passes(c)
    /\ Return(c, Failed)
    /\ UNCHANGED <<inv, joined, cache, cacheOrder, inflight, expired, granted, stored>>

\* Without a key the provider runs every time.
RunUnkeyed(c) ==
    /\ at[c] = "called" /\ Passes(c) /\ ~Keyed(c)
    /\ at' = [at EXCEPT ![c] = "provider"]
    /\ UNCHANGED <<inv, joined, result, cache, cacheOrder, inflight, expired, granted, stored>>

\* The input is not compared.
SameInput_Unchecked(c, d) == TRUE

\* The fingerprints of the two inputs are equal.
SameInput(c, d) == inv[c].input = inv[d].input

\* The key has a cached result.  It is looked for before a call in flight.
Replay(c) ==
    /\ Looks(c) /\ Cached(c) # NoCall
    /\ Return(c, IF SameInput(c, Cached(c)) THEN Made(Cached(c)) ELSE Failed)
    /\ UNCHANGED <<inv, joined, cache, cacheOrder, inflight, expired, granted, stored>>

\* A call with the same key and input is in flight: wait for it.
Join(c) ==
    /\ Looks(c) /\ Cached(c) = NoCall /\ InFlight(c) # NoCall
    /\ SameInput(c, InFlight(c))
    /\ at' = [at EXCEPT ![c] = "join"]
    /\ joined' = [joined EXCEPT ![c] = InFlight(c)]
    /\ UNCHANGED <<inv, result, cache, cacheOrder, inflight, expired, granted, stored>>

\* The call in flight has another input: conflict.
Conflict(c) ==
    /\ Looks(c) /\ Cached(c) = NoCall /\ InFlight(c) # NoCall
    /\ ~SameInput(c, InFlight(c))
    /\ Return(c, Failed)
    /\ UNCHANGED <<inv, joined, cache, cacheOrder, inflight, expired, granted, stored>>

\* The call runs its provider without entering the in-flight table.
Lead_Unregistered(c) ==
    /\ Looks(c) /\ Cached(c) = NoCall /\ InFlight(c) = NoCall
    /\ at' = [at EXCEPT ![c] = "provider"]
    /\ UNCHANGED <<inv, joined, result, cache, cacheOrder, inflight, expired, granted, stored>>

\* Neither: the call goes to the provider and others can join it.
Lead(c) ==
    /\ Looks(c) /\ Cached(c) = NoCall /\ InFlight(c) = NoCall
    /\ inflight' = [inflight EXCEPT ![KeyOf(c)] = c]
    /\ at' = [at EXCEPT ![c] = "provider"]
    /\ UNCHANGED <<inv, joined, result, cache, cacheOrder, expired, granted, stored>>

\* storeLocked: the entry is inserted and the oldest are evicted.
StoreLocked(c) ==
    LET k == KeyOf(c)
        longer == IF cache[k] = NoCall THEN Append(cacheOrder, k) ELSE cacheOrder
        full == Len(longer) > CacheLimit
    IN  /\ cacheOrder' = IF full THEN Tail(longer) ELSE longer
        /\ cache' = [h \in HostKeys |->
                        IF full /\ h = Head(longer) THEN NoCall ELSE IF h = k THEN c ELSE cache[h]]
        /\ stored' = Append(stored, c)

\* The provider returned an output (ok) or an error, a recovered panic
\* included; a keyed call hands it to those that joined and, if ok, to the cache.
ProviderReturns(c, ok) ==
    /\ at[c] = "provider"
    /\ Return(c, IF ok THEN Made(c) ELSE Failed)
    /\ IF ok /\ Keyed(c) THEN StoreLocked(c) ELSE UNCHANGED <<cache, cacheOrder, stored>>
    /\ inflight' = IF Keyed(c) THEN [inflight EXCEPT ![KeyOf(c)] = NoCall] ELSE inflight
    /\ UNCHANGED <<inv, joined, expired, granted>>

\* The call that was joined is done: its result or its error.
JoinReturns(c) ==
    /\ at[c] = "join" /\ at[joined[c]] = "returned"
    /\ Return(c, result[joined[c]])
    /\ UNCHANGED <<inv, joined, cache, cacheOrder, inflight, expired, granted, stored>>

\* Or its own context is, whichever the select takes.
JoinExpires(c) ==
    /\ at[c] = "join" /\ c \in expired
    /\ Return(c, Failed)
    /\ UNCHANGED <<inv, joined, cache, cacheOrder, inflight, expired, granted, stored>>

\* The context of a call is cancelled or passes its deadline.
Expire(c) ==
    /\ inv[c] # NoCall /\ c \notin expired
    /\ expired' = expired \cup {c}
    /\ UNCHANGED <<inv, at, joined, result, cache, cacheOrder, inflight, granted, stored>>

\* Registry.Remove, Registry.Replace or a narrower contract.
Revoke(t) ==
    /\ t \in granted
    /\ granted' = granted \ {t}
    /\ UNCHANGED <<inv, at, joined, result, cache, cacheOrder, inflight, expired, stored>>

\* What Invoke does by itself; only the provider's return is somebody else's.
InvokeStep(c) ==
    \/ Deny(c) \/ RunUnkeyed(c)
    \/ Replay(c) \/ Join(c) \/ Conflict(c) \/ Lead(c)
    \/ JoinReturns(c) \/ JoinExpires(c)

HostStep ==
    \/ \E c \in Calls : InvokeStep(c) \/ \E ok \in BOOLEAN : ProviderReturns(c, ok)
    \/ \E t \in Tools : Revoke(t)

----------------------------------------------------------------------------
\* One effect for a key: a provider is never started for a key while another
\* call runs it, and after a success only once CacheLimit further results have
\* pushed that one out of the cache (Invoke and storeLocked; package comment:
\* "repeating the same request returns the original result").
EffectOnce ==
    [][\A c, d \in Calls :
          (at[c] # "provider" /\ at'[c] = "provider" /\ Keyed(c) /\ d # c
             /\ inv[d] # NoCall /\ KeyOf(c) = KeyOf(d)) =>
          /\ at[d] # "provider"
          /\ \A n \in 1 .. Len(stored) : stored[n] = d => Len(stored) - n >= CacheLimit]_hostVars
============================================================================
