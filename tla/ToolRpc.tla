------------------------------ MODULE ToolRpc ------------------------------
(***************************************************************************)
(* The toolbox.invoke requests of src/toolbox/rpc/rpc.go over ToolHost,    *)
(* beside Go code that calls Host.Invoke directly.  The service has its    *)
(* own table of requests in flight, by idempotency key alone, in front of  *)
(* the host's table by tool, contract and key.                             *)
(*                                                                         *)
(* A request is executed by a goroutine of its own, which is the call of   *)
(* ToolHost with the same name; its Handle waits for the goroutine of the  *)
(* request it leads or joined, or for its own deadline.  Of the envelope   *)
(* only the major version is kept.                                         *)
(***************************************************************************)
EXTENDS ToolHost

VARIABLES
    pending,     \* Service.inflight
    waits,       \* the request whose response a Handle waits for
    published,   \* requests whose cacheResult has its response
    response,    \* that response
    answered,    \* requests whose Handle returned
    answer,      \* what it returned
    late         \* history: requests made after their tool was revoked

toolVars == <<hostVars, pending, waits, published, response, answered, answer, late>>

ToolInit ==
    /\ HostInit
    /\ pending = [k \in Keys |-> NoCall]
    /\ waits = [c \in Calls |-> NoCall]
    /\ published = {} /\ response = [c \in Calls |-> Failed]
    /\ answered = {} /\ answer = [c \in Calls |-> Failed]
    /\ late = {}

Arrives(c, i) ==
    /\ inv[c] = NoCall /\ \A d \in Calls : d < c => inv[d] # NoCall
    /\ late' = IF i.tool \in granted THEN late ELSE late \cup {c}

\* A request that waits without a goroutine of its own.
ArrivesIdle(c, i) ==
    /\ Arrives(c, i)
    /\ inv' = [inv EXCEPT ![c] = i]
    /\ UNCHANGED <<at, joined, result, cache, cacheOrder, inflight, expired, granted, stored>>

ArrivesCalling(c, i) ==
    /\ Arrives(c, i)
    /\ Invoke(c, i)
    /\ UNCHANGED <<joined, result, cache, cacheOrder, inflight, expired, granted, stored>>

AnswerWith(c, r) ==
    /\ answered' = answered \cup {c}
    /\ answer' = [answer EXCEPT ![c] = r]

\* Go code calls the host.
DirectInvoke(c, i) ==
    /\ ~i.rpc
    /\ ArrivesCalling(c, i)
    /\ UNCHANGED <<pending, waits, published, response, answered, answer>>

\* An envelope of another major is refused before the request is looked at.
compatible(i) == i.major = 1

HandleIncompatible(c, i) ==
    /\ i.rpc /\ ~compatible(i)
    /\ ArrivesIdle(c, i)
    /\ AnswerWith(c, Failed)
    /\ UNCHANGED <<pending, waits, published, response>>

\* handleWithDedup is for requests with a key.
idempotencyKey(i) == i.rpc /\ compatible(i) /\ i.key # NoKey

\* handleSingle: no key.
HandleSingle(c, i) ==
    /\ i.rpc /\ compatible(i) /\ i.key = NoKey
    /\ ArrivesCalling(c, i)
    /\ waits' = [waits EXCEPT ![c] = c]
    /\ UNCHANGED <<pending, published, response, answered, answer>>

\* The first request of its key starts the goroutine that executes it.
HandleLeads(c, i) ==
    /\ idempotencyKey(i) /\ pending[i.key] = NoCall
    /\ ArrivesCalling(c, i)
    /\ pending' = [pending EXCEPT ![i.key] = c]
    /\ waits' = [waits EXCEPT ![c] = c]
    /\ UNCHANGED <<published, response, answered, answer>>

\* What two requests under one key must agree on: parameters and caller.
Fingerprint(i) == <<i.tool, i.key, i.input, i.caller>>

\* A later one waits for the first, if it is the same request.
HandleJoins(c, i) ==
    /\ idempotencyKey(i) /\ pending[i.key] # NoCall
    /\ Fingerprint(i) = Fingerprint(inv[pending[i.key]])
    /\ ArrivesIdle(c, i)
    /\ waits' = [waits EXCEPT ![c] = pending[i.key]]
    /\ UNCHANGED <<pending, published, response, answered, answer>>

HandleConflict(c, i) ==
    /\ idempotencyKey(i) /\ pending[i.key] # NoCall
    /\ Fingerprint(i) # Fingerprint(inv[pending[i.key]])
    /\ ArrivesIdle(c, i)
    /\ AnswerWith(c, Failed)
    /\ UNCHANGED <<pending, waits, published, response>>

\* The goroutine's dispatch has returned.  A keyed request past its deadline
\* publishes the deadline's error, whatever the host returned.
Publish(c) ==
    /\ at[c] = "returned" /\ waits[c] = c /\ c \notin published
    /\ published' = published \cup {c}
    /\ response' = [response EXCEPT ![c] = IF Keyed(c) /\ c \in expired THEN Failed ELSE result[c]]
    /\ pending' = IF Keyed(c) THEN [pending EXCEPT ![inv[c].key] = NoCall] ELSE pending
    /\ UNCHANGED <<hostVars, waits, answered, answer, late>>

\* waitForResponse takes the response; handleSingle looks at its deadline again.
AnswerPublished(c) ==
    /\ c \notin answered /\ waits[c] \in published
    /\ AnswerWith(c, IF ~Keyed(c) /\ c \in expired THEN Failed ELSE response[waits[c]])
    /\ UNCHANGED <<hostVars, pending, waits, published, response, late>>

\* A request that joined another one waits for the response only.
AnswerExpired_LeaderOnly(c) ==
    /\ c \notin answered /\ waits[c] = c /\ c \in expired
    /\ AnswerWith(c, Failed)
    /\ UNCHANGED <<hostVars, pending, waits, published, response, late>>

\* Or its own deadline.
AnswerExpired(c) ==
    /\ c \notin answered /\ waits[c] # NoCall /\ c \in expired
    /\ AnswerWith(c, Failed)
    /\ UNCHANGED <<hostVars, pending, waits, published, response, late>>

\* A deadline passes or a caller cancels, while its call or its Handle looks at it.
Expires(c) ==
    /\ at[c] = "join" \/ (waits[c] # NoCall /\ c \notin answered)
    /\ Expire(c)
    /\ UNCHANGED <<pending, waits, published, response, answered, answer, late>>

Arrival(c) ==
    \E i \in Asks[c] :
        \/ DirectInvoke(c, i) \/ HandleIncompatible(c, i) \/ HandleSingle(c, i)
        \/ HandleLeads(c, i) \/ HandleJoins(c, i) \/ HandleConflict(c, i)

ToolNext ==
    \/ \E c \in Calls : Arrival(c) \/ Expires(c) \/ Publish(c) \/ AnswerPublished(c) \/ AnswerExpired(c)
    \/ HostStep /\ UNCHANGED <<pending, waits, published, response, answered, answer, late>>

\* Every Handle is bounded by its deadline and is scheduled.  Neither provider
\* nor execution goroutine has to get anywhere.
HandleStep(c) == AnswerPublished(c) \/ AnswerExpired(c)
DeadlinePasses(c) == inv[c] # NoCall /\ inv[c].rpc /\ Expires(c)

ToolSpec == ToolInit /\ [][ToolNext]_toolVars

----------------------------------------------------------------------------
\* What a request or a direct call got in the end.
Outcome(c) == IF inv[c] # NoCall /\ inv[c].rpc THEN answer[c] ELSE result[c]

\* A success is the output of one successful provider run for the same tool,
\* key and input, and without a key of the request's own run, through both
\* tables, the cache and answers that were published late (Invoke,
\* handleWithDedup).
AnswerIsOwn ==
    \A c \in Calls : Outcome(c).ok =>
        LET d == Outcome(c).from
        IN  /\ result[d] = Made(d)
            /\ inv[d].tool = inv[c].tool /\ inv[d].key = inv[c].key /\ inv[d].input = inv[c].input
            /\ ~Keyed(c) => d = c

\* No cached result outlives its authority: who asks after the tool was
\* revoked gets a success only by joining a request that was made before
\* (handleWithDedup: the host "re-evaluates policy first").
AnswerAuthorised ==
    \A c \in late : Outcome(c).ok => waits[c] \notin late \cup {NoCall}

\* Every request is answered, though its provider never returns and whoever it
\* joined has timed out (doHandle: "every request is bounded").
RequestsAnswered ==
    \A c \in Calls : (inv[c] # NoCall /\ inv[c].rpc) ~> c \in answered
============================================================================
