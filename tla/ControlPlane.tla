---------------------------- MODULE ControlPlane ----------------------------
(***************************************************************************)
(* The writes of the control plane: HTTP handlers (src/app/internal/       *)
(* controlplane) that create team, routine and policy definitions          *)
(* (src/app/definitions.go over src/registry), projects, and work packages *)
(* (src/app/main.go over projectstate), and the process that is built      *)
(* again from what they left on disk.                                      *)
(*                                                                         *)
(* Handlers run concurrently.  A definition goes through the registry's    *)
(* map, which no mutex guards, in steps of their own: the handler's look   *)
(* for a conflict, Add's look for a duplicate, and Add's write.  Between   *)
(* them PutRecord checks the stored record and renames the new one over it *)
(* in two steps.  Accesses to the map that overlap in time stop the        *)
(* process, which Stop covers; accesses one after the other do not.        *)
(* Projects and work packages are written and adopted under the mutex of   *)
(* projectstate.                                                           *)
(*                                                                         *)
(* A specification is a name; its content hash is the name.  Deliveries to *)
(* the observation plane are failure-open and left out.                    *)
(***************************************************************************)
EXTENDS Integers, FiniteSets, Tables

CONSTANTS
    Handlers,       \* goroutines of the HTTP server
    DefIds,         \* ids of definitions
    Specs,          \* specifications a client may post
    BadSpecs,       \* those that Validate refuses
    ProjectIds,     \* ids of projects, the default project's not among them
    MaxHttp,        \* bound on requests
    MaxHttpFaults,  \* bound on failing writes
    MaxBoots        \* bound on stops of the process

ASSUME ControlPlaneBounds ==
    /\ MaxHttp \in Nat /\ MaxHttpFaults \in Nat /\ MaxBoots \in Nat
    /\ BadSpecs \subseteq Specs
    /\ "default" \notin ProjectIds
    /\ "nobody" \notin Handlers /\ "not found" \notin Specs

VARIABLES
    serving,      \* whether the process is running
    catalog,      \* teams, routines and policies registries: key -> spec
    projects,     \* State.projects: id -> the work packages in its graph
    stateMu,      \* who holds State.mu, or NoHandler
    defFile,      \* definition records on disk
    projectFile,  \* project records on disk
    workFile,     \* work-package records on disk, by id
    handler,      \* what each handler is doing
    created,      \* history: the requests answered 201
    overwritten,  \* history: keys whose record a handler replaced, and in which boot
    httpCalls, httpFaults, boots

memoryOfProcess == <<serving, catalog, projects, stateMu>>
filesOfProcess == <<defFile, projectFile, workFile>>
cpBounds == <<httpCalls, httpFaults, boots>>
cpvars == <<memoryOfProcess, filesOfProcess, handler, created, overwritten, cpBounds>>

NoHandler == "nobody"
IdleHandler == [at |-> "idle"]

\* The first start of an empty root seeds the default project.
ControlPlaneInit ==
    /\ serving = TRUE /\ stateMu = NoHandler
    /\ catalog = <<>> /\ projects = [p \in {"default"} |-> {}]
    /\ defFile = <<>> /\ projectFile = {"default"} /\ workFile = <<>>
    /\ handler = [h \in Handlers |-> IdleHandler]
    /\ created = {} /\ overwritten = {}
    /\ httpCalls = 0 /\ httpFaults = 0 /\ boots = 0

\* A registry of each kind keeps its definitions by id.
TeamPosts == [op : {"define"}, key : {"team_spec"} \X DefIds, spec : Specs]
RoutinePosts == [op : {"define"}, key : {"routine"} \X DefIds, spec : Specs]
PolicyPosts == [op : {"define"}, key : {"policy_definition"} \X DefIds, spec : Specs]
ProjectPosts == [op : {"project"}, id : ProjectIds \cup {"default"}]
\* A work package depends on nothing, on a submitted package, or on an unknown one.
WorkPosts == [op : {"work"}, project : ProjectIds \cup {"default"},
              deps : {{}} \cup {{n} : n \in 1 .. Cardinality(DOMAIN workFile) + 1}]

Goto(h, place) == handler' = [handler EXCEPT ![h].at = place]

\* writeError: the request ends and changes nothing else.
TurnDown(h) == handler' = [handler EXCEPT ![h] = IdleHandler] /\ UNCHANGED created

\* writeJSON with 201: the client is told that what it posted exists.
Confirm(h, what) ==
    /\ handler' = [handler EXCEPT ![h] = IdleHandler]
    /\ created' = created \cup {what}

CreatedDefinitions == {c \in created : c.op = "define"}

\* History: the id was given away before this request came.
Late(post) == post.op = "define" /\ \E c \in CreatedDefinitions : c.key = post.key

\* A request reaches its handler, or auth (401) or the decoding of its body
\* (400) turns it away.
Accept(h, post) ==
    /\ serving /\ handler[h] = IdleHandler
    /\ httpCalls < MaxHttp
    /\ httpCalls' = httpCalls + 1
    /\ \/ handler' = [handler EXCEPT ![h] = [at |-> post.op, post |-> post, id |-> 0, late |-> Late(post)]]
       \/ UNCHANGED handler
    /\ UNCHANGED <<memoryOfProcess, filesOfProcess, created, overwritten, httpFaults, boots>>

\* The write of a record fails and leaves nothing behind.
WriteFails == httpFaults < MaxHttpFaults /\ httpFaults' = httpFaults + 1

----------------------------------------------------------------------------
(* Definitions: AddTeam, AddRoutine and AddPolicy.                         *)

KeepRest == UNCHANGED <<serving, projects, stateMu, projectFile, workFile, httpCalls, boots>>

\* Get in the registry (409) and Validate (400).
LookUpDefinition(h) ==
    LET post == handler[h].post
    IN  /\ handler[h].at = "define"
        /\ IF post.key \in DOMAIN catalog \/ post.spec \in BadSpecs
           THEN TurnDown(h)
           ELSE Goto(h, "put") /\ UNCHANGED created
        /\ KeepRest /\ UNCHANGED <<catalog, defFile, overwritten, httpFaults>>

\* persist, up to PutRecord's look at the stored record: the same content is
\* fine, other content at revision 1 is stale.
PutDefinition(h) ==
    LET post == handler[h].post
    IN  /\ handler[h].at = "put"
        /\ IF post.key \notin DOMAIN defFile THEN Goto(h, "rename") /\ UNCHANGED created
           ELSE IF defFile[post.key] = post.spec THEN Goto(h, "add") /\ UNCHANGED created
           ELSE TurnDown(h)
        /\ KeepRest /\ UNCHANGED <<catalog, defFile, overwritten, httpFaults>>

\* What a rename over an existing record leaves in the history.
Replacing(key) == IF key \in DOMAIN defFile THEN overwritten \cup {<<key, boots>>} ELSE overwritten

\* Mutant: persist drops the error of PutRecord.
RenameDefinition_ErrorDropped(h) ==
    LET post == handler[h].post
    IN  /\ handler[h].at = "rename"
        /\ Goto(h, "add") /\ UNCHANGED created
        /\ \/ /\ defFile' = Put(defFile, post.key, post.spec)
              /\ overwritten' = Replacing(post.key)
              /\ UNCHANGED httpFaults
           \/ WriteFails /\ UNCHANGED <<defFile, overwritten>>
        /\ KeepRest /\ UNCHANGED catalog

\* The rest of PutRecord: the new record is renamed into place, whatever is
\* there by now.
RenameDefinition(h) ==
    LET post == handler[h].post
    IN  /\ handler[h].at = "rename"
        /\ \/ /\ defFile' = Put(defFile, post.key, post.spec)
              /\ overwritten' = Replacing(post.key)
              /\ Goto(h, "add")
              /\ UNCHANGED <<created, httpFaults>>
           \/ WriteFails /\ TurnDown(h) /\ UNCHANGED <<defFile, overwritten>>
        /\ KeepRest /\ UNCHANGED catalog

\* Registry.Add, up to its look at the map: a duplicate is refused.
AddDefinition(h) ==
    /\ handler[h].at = "add"
    /\ IF handler[h].post.key \in DOMAIN catalog THEN TurnDown(h) ELSE Goto(h, "store") /\ UNCHANGED created
    /\ KeepRest /\ UNCHANGED <<catalog, defFile, overwritten, httpFaults>>

\* The rest of Add: the map is written, whatever is there by now, and the handler
\* answers.
StoreDefinition(h) ==
    LET post == handler[h].post
    IN  /\ handler[h].at = "store"
        /\ catalog' = Put(catalog, post.key, post.spec)
        /\ Confirm(h, post)
        /\ KeepRest /\ UNCHANGED <<defFile, overwritten, httpFaults>>

----------------------------------------------------------------------------
(* Projects and work packages.                                             *)

KeepDefinitions == UNCHANGED <<serving, catalog, defFile, overwritten, httpCalls, boots>>

\* ProjectRepository.Create: the id must be new on disk too.
OnDisk(id) == id \in projectFile

\* CreateProject up to the durable record: an id in use is a conflict.
CreateProject(h) ==
    LET id == handler[h].post.id
    IN  /\ handler[h].at = "project" /\ stateMu = NoHandler
        /\ \/ /\ id \in DOMAIN projects \/ OnDisk(id)
              /\ TurnDown(h) /\ UNCHANGED <<projectFile, stateMu, httpFaults>>
           \/ /\ id \notin DOMAIN projects /\ ~OnDisk(id)
              /\ \/ /\ projectFile' = projectFile \cup {id}
                    /\ stateMu' = h
                    /\ Goto(h, "adoptProject")
                    /\ UNCHANGED <<created, httpFaults>>
                 \/ WriteFails /\ TurnDown(h) /\ UNCHANGED <<projectFile, stateMu>>
        /\ KeepDefinitions /\ UNCHANGED <<projects, workFile>>

\* The graph and runtime of the project; the handler reads it back and answers.
AdoptProject(h) ==
    /\ handler[h].at = "adoptProject"
    /\ projects' = Put(projects, handler[h].post.id, {})
    /\ stateMu' = NoHandler
    /\ Confirm(h, handler[h].post)
    /\ KeepDefinitions /\ UNCHANGED <<projectFile, workFile, httpFaults>>

\* workSubmit looks the project up (404) before it submits.
FindProject(h) ==
    /\ handler[h].at = "work" /\ stateMu = NoHandler
    /\ IF handler[h].post.project \in DOMAIN projects THEN Goto(h, "submit") /\ UNCHANGED created ELSE TurnDown(h)
    /\ KeepDefinitions /\ UNCHANGED <<projects, stateMu, projectFile, workFile, httpFaults>>

\* Graph.Get of every dependency.
KnownDependencies(post) == post.deps \subseteq projects[post.project]

\* WorkPackageRepository.Create, of what later steps look at.
WorkRecord(post) == [project |-> post.project, deps |-> post.deps]

\* SubmitWork up to the durable record, under a fresh id.  An unknown dependency
\* is refused; so is an empty title, which the model has not.
SubmitWorkPackage(h) ==
    LET post == handler[h].post
        id == Cardinality(DOMAIN workFile) + 1
    IN  /\ handler[h].at = "submit" /\ stateMu = NoHandler
        /\ \/ /\ ~KnownDependencies(post)
              /\ TurnDown(h) /\ UNCHANGED <<workFile, stateMu, httpFaults>>
           \/ /\ KnownDependencies(post)
              /\ \/ /\ workFile' = Put(workFile, id, WorkRecord(post))
                    /\ stateMu' = h
                    /\ handler' = [handler EXCEPT ![h].at = "adoptWork", ![h].id = id]
                    /\ UNCHANGED <<created, httpFaults>>
                 \/ WriteFails /\ TurnDown(h) /\ UNCHANGED <<workFile, stateMu>>
        /\ KeepDefinitions /\ UNCHANGED <<projects, projectFile>>

\* Graph.Add.
ExtendGraph(p, id) == projects' = [projects EXCEPT ![p] = @ \cup {id}]

\* The graph takes the package; the handler reads it back and answers.
AdoptWork(h) ==
    LET post == handler[h].post
    IN  /\ handler[h].at = "adoptWork"
        /\ ExtendGraph(post.project, handler[h].id)
        /\ stateMu' = NoHandler
        /\ Confirm(h, [op |-> "work", project |-> post.project, deps |-> post.deps, id |-> handler[h].id])
        /\ KeepDefinitions /\ UNCHANGED <<projectFile, workFile, httpFaults>>

----------------------------------------------------------------------------
(* The process.                                                            *)

\* The process stops, wherever its handlers are.
Stop ==
    /\ serving /\ boots < MaxBoots
    /\ boots' = boots + 1
    /\ serving' = FALSE /\ stateMu' = NoHandler
    /\ catalog' = <<>> /\ projects' = <<>>
    /\ handler' = [h \in Handlers |-> IdleHandler]
    /\ UNCHANGED <<filesOfProcess, created, overwritten, httpCalls, httpFaults>>

\* Graph.Validate: no missing dependency, none on itself, no cycle.
ValidGraph(nodes) ==
    /\ \A n \in nodes : workFile[n].deps \subseteq nodes \ {n}
    /\ \A loop \in (SUBSET nodes) \ {{}} : \E n \in loop : workFile[n].deps \cap loop = {}

\* WorkPackageRepository.ListByProject.
WorkOf(p) == {n \in DOMAIN workFile : workFile[n].project = p}

\* projectstate.New fails closed on a work package of an unknown project and on
\* an invalid graph.
Loadable ==
    /\ \A n \in DOMAIN workFile : workFile[n].project \in projectFile
    /\ \A p \in projectFile : ValidGraph(WorkOf(p))

\* loadDefinitions: every stored definition is added to its registry.
LoadDefinitions == catalog' = defFile

\* EnsureProject seeds the default project; the others have the graphs of their
\* work packages.
EnsureProject ==
    /\ projectFile' = projectFile \cup {"default"}
    /\ projects' = [p \in projectFile' |-> WorkOf(p)]

\* build, the parts that read what handlers wrote.
Build ==
    /\ ~serving /\ Loadable
    /\ serving' = TRUE
    /\ LoadDefinitions
    /\ EnsureProject
    /\ UNCHANGED <<stateMu, defFile, workFile, handler, created, overwritten, cpBounds>>

ControlPlaneNext ==
    \/ \E h \in Handlers :
          \/ \E post \in TeamPosts \cup RoutinePosts \cup PolicyPosts \cup ProjectPosts \cup WorkPosts : Accept(h, post)
          \/ LookUpDefinition(h) \/ PutDefinition(h) \/ RenameDefinition(h) \/ AddDefinition(h) \/ StoreDefinition(h)
          \/ CreateProject(h) \/ AdoptProject(h)
          \/ FindProject(h) \/ SubmitWorkPackage(h) \/ AdoptWork(h)
    \/ Stop
    \/ Build

ControlPlaneSpec == ControlPlaneInit /\ [][ControlPlaneNext]_cpvars

----------------------------------------------------------------------------
(* What a reader is answered.                                              *)

Lookup(key) == IF key \in DOMAIN catalog THEN catalog[key] ELSE "not found"

\* GET of a team, a routine, a policy, a project's graph and its work list.
Team(id) == Lookup(<<"team_spec", id>>)
Routine(id) == Lookup(<<"routine", id>>)
Policy(id) == Lookup(<<"policy_definition", id>>)
Graph(p) == projects[p]
WorkList(p) == WorkOf(p)

ServedAs(key) ==
    IF key[1] = "team_spec" THEN Team(key[2]) ELSE IF key[1] = "routine" THEN Routine(key[2]) ELSE Policy(key[2])

Overwritten(key) == \E o \in overwritten : o[1] = key

\* What a client was told exists (201) stays.  An id that was given away is served and
\* on disk, before and after restarts, and a request that comes later writes neither its
\* record nor the registry.  Requests that overlap may both be told 201, for different
\* specifications: PutRecord (memory/store/store.go:85) and Registry.Add look first and
\* write later, without a lock.  That takes a handler that renames its record over the
\* other's; where none did, the id has one specification, which is what is served and
\* stored.  Where one did, the answers and what is served may differ from the record,
\* but only until that process stops: the next one serves the record.
DefinitionsKept ==
    /\ \A h \in Handlers : handler[h].at \in {"rename", "store"} => ~handler[h].late
    /\ \A c \in CreatedDefinitions :
          /\ c.key \in DOMAIN defFile
          /\ \A d \in CreatedDefinitions : c.key = d.key /\ c.spec # d.spec => Overwritten(c.key)
          /\ serving =>
                /\ ServedAs(c.key) # "not found"
                /\ ~Overwritten(c.key) => ServedAs(c.key) = c.spec /\ defFile[c.key] = c.spec
                /\ ServedAs(c.key) # defFile[c.key] => <<c.key, boots>> \in overwritten

\* Projects and work packages are served with the dependencies they were posted with;
\* the list, read from disk, and the graph, kept in memory, name the same packages
\* whenever no handler holds the mutex; and the disk can always be loaded.
CreatedIsKept ==
    /\ DefinitionsKept
    /\ Loadable
    /\ serving =>
         /\ \A c \in created : c.op = "project" => c.id \in DOMAIN projects
         /\ \A c \in created : c.op = "work" =>
               c.id \in Graph(c.project) /\ workFile[c.id] = [project |-> c.project, deps |-> c.deps]
         /\ stateMu = NoHandler => \A p \in DOMAIN projects : Graph(p) = WorkList(p)
=============================================================================
