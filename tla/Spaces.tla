------------------------------- MODULE Spaces -------------------------------
(***************************************************************************)
(* The small web apps an agent builds and deploys:                         *)
(* packages/tools/src/spaces/service.ts over its clients of Convex and     *)
(* Vercel.                                                                 *)
(*                                                                         *)
(* All projects here have one name.  Each initialisation has an identity   *)
(* of its own, which also names the Convex project, the Vercel project and *)
(* the row it creates.  Convex takes several projects of a name and finds  *)
(* one of them by it; Vercel refuses the second.                           *)
(***************************************************************************)
EXTENDS Naturals, FiniteSets

CONSTANTS
  Inits,        \* calls of init_app_project
  Deploys,      \* calls of deploy_app
  Deletes,      \* calls of delete_app_project
  SpaceOwner,   \* the workspace of each call
  Scenarios,    \* the sets of calls explored together
  SpaceEvents,  \* "callFails": an awaited call rejects
  NoInit

SpaceTenants == {SpaceOwner[c] : c \in Inits \cup Deploys \cup Deletes}

ASSUME SpaceAssumption ==
  /\ Inits \cap Deploys = {} /\ Inits \cap Deletes = {} /\ Deploys \cap Deletes = {}
  /\ NoInit \notin Inits /\ "none" \notin Deploys
  /\ Scenarios \subseteq SUBSET (Inits \cup Deploys \cup Deletes)
  /\ SpaceEvents \subseteq {"callFails"}

VARIABLES
  scenario,   \* the calls that are made
  convex,     \* projects at Convex
  vercel,     \* the projects at Vercel
  space,      \* rows: "none", "READY", "ACTIVE" or "DELETED"
  renamed,    \* rows that have given up the project's name
  dist,       \* the deployment that has built the frontend last, per workspace
  stage,      \* the await each call is suspended at
  target,     \* the row each deployment and deletion has found
  deployment, \* spaceDeployment rows: "none", "BUILDING", "SUCCESS", "FAILED"
  shipped,    \* the build each deployment has uploaded
  overlaps,   \* deployments that ran beside another one of the workspace
  undone,     \* deployments that made a deleted space ACTIVE
  strays      \* initialisations whose Convex project another space's deletion took,
              \* or that survived their own space's

spaceVars == <<scenario, convex, vercel, space, renamed, dist, stage, target,
               deployment, shipped, overlaps, undone, strays>>
remote    == <<scenario, convex, vercel>>
spaceRows == <<space, renamed>>
builds    == <<deployment, shipped, overlaps>>
accidents == <<undone, strays>>
-----------------------------------------------------------------------------
SpaceCalls == Inits \cup Deploys \cup Deletes

SpacesInit ==
  /\ scenario \in Scenarios
  /\ convex = {} /\ vercel = {}
  /\ space    = [i \in Inits |-> "none"]
  /\ renamed  = {}
  /\ dist     = [w \in SpaceTenants |-> "none"]
  /\ stage    = [c \in SpaceCalls |-> "idle"]
  /\ target   = [c \in Deploys \cup Deletes |-> NoInit]
  /\ deployment = [d \in Deploys |-> "none"]
  /\ shipped  = [d \in Deploys |-> "none"]
  /\ overlaps = {}
  /\ undone = {} /\ strays = {}

Stage(c, from, to) == stage[c] = from /\ stage' = [stage EXCEPT ![c] = to]

\* The row that has the name in a workspace.
Named(w) == {i \in Inits : SpaceOwner[i] = w /\ space[i] # "none" /\ i \notin renamed}
-----------------------------------------------------------------------------
(* initProject.                                                            *)

\* The template is copied over whatever the directory holds (what that is, is no
\* part of the model).
CopyTemplate(i) ==
  /\ i \in scenario
  /\ Stage(i, "idle", "createConvex")
  /\ UNCHANGED <<remote, spaceRows, dist, target, builds, accidents>>

CreateConvexProject(i) ==
  /\ Stage(i, "createConvex", "createVercel")
  /\ convex' = convex \cup {i}
  /\ UNCHANGED <<scenario, vercel, spaceRows, dist, target, builds, accidents>>

\* createProject, refused when the name is taken: the Convex project stays.
\* Then setDomain.
CreateVercelProject(i) ==
  /\ IF vercel = {} THEN Stage(i, "createVercel", "createRow") /\ vercel' = {i}
                    ELSE Stage(i, "createVercel", "failed") /\ vercel' = vercel
  /\ UNCHANGED <<scenario, convex, spaceRows, dist, target, builds, accidents>>

\* Unique by workspace and name.
CreateRow(i) ==
  /\ IF Named(SpaceOwner[i]) = {}
       THEN Stage(i, "createRow", "setEnv") /\ space' = [space EXCEPT ![i] = "READY"]
       ELSE Stage(i, "createRow", "failed") /\ space' = space
  /\ UNCHANGED <<remote, renamed, dist, target, builds, accidents>>

FinishInit(i) ==
  /\ Stage(i, "setEnv", "done")
  /\ UNCHANGED <<remote, spaceRows, dist, target, builds, accidents>>

-----------------------------------------------------------------------------
(* deploy.                                                                 *)

Deploying(w) == {d \in Deploys : SpaceOwner[d] = w /\ stage[d] \in {"create", "backend", "build", "upload"}}

\* findUnique by name, DELETED or not.
FindSpace(c, next) ==
  /\ stage[c] = "idle" /\ c \in scenario
  /\ IF Named(SpaceOwner[c]) = {}
       THEN stage' = [stage EXCEPT ![c] = "failed"] /\ target' = target
       ELSE /\ stage' = [stage EXCEPT ![c] = next]
            /\ \E i \in Named(SpaceOwner[c]) : target' = [target EXCEPT ![c] = i]
  /\ UNCHANGED <<remote, spaceRows, dist, deployment, shipped, accidents>>

StartDeploy(d) ==
  /\ FindSpace(d, "create")
  /\ overlaps' = IF Deploying(SpaceOwner[d]) = {} \/ Named(SpaceOwner[d]) = {} THEN overlaps
                 ELSE overlaps \cup {d} \cup Deploying(SpaceOwner[d])

RecordDeployment(d) ==
  /\ Stage(d, "create", "backend")
  /\ deployment' = [deployment EXCEPT ![d] = "BUILDING"]
  /\ UNCHANGED <<remote, spaceRows, dist, target, shipped, overlaps, accidents>>

\* setEnvVars and convex.deploy address the backend by its deploy key.
DeployBackend(d) ==
  /\ Stage(d, "backend", IF target[d] \in convex THEN "build" ELSE "catch")
  /\ UNCHANGED <<remote, spaceRows, dist, target, builds, accidents>>

BuildFrontend(d) ==
  /\ Stage(d, "build", "upload")
  /\ dist' = [dist EXCEPT ![SpaceOwner[d]] = d]
  /\ UNCHANGED <<remote, spaceRows, target, builds, accidents>>

Upload(d) ==
  /\ Stage(d, "upload", "success")
  /\ shipped' = [shipped EXCEPT ![d] = dist[SpaceOwner[d]]]
  /\ UNCHANGED <<remote, spaceRows, dist, target, deployment, overlaps, accidents>>

RecordSuccess(d) ==
  /\ Stage(d, "success", "activate")
  /\ deployment' = [deployment EXCEPT ![d] = "SUCCESS"]
  /\ UNCHANGED <<remote, spaceRows, dist, target, shipped, overlaps, accidents>>

\* The row is updated by its id, whatever has become of it.
Activate(d) ==
  /\ Stage(d, "activate", "done")
  /\ space' = [space EXCEPT ![target[d]] = "ACTIVE"]
  /\ undone' = IF space[target[d]] = "DELETED" THEN undone \cup {d} ELSE undone
  /\ UNCHANGED <<remote, renamed, dist, target, builds, strays>>

\* The catch block.
RecordFailure(d) ==
  /\ Stage(d, "catch", "failed")
  /\ deployment' = [deployment EXCEPT ![d] = "FAILED"]
  /\ UNCHANGED <<remote, spaceRows, dist, target, shipped, overlaps, accidents>>
-----------------------------------------------------------------------------
(* deleteProject.                                                          *)

StartDelete(x) ==
  /\ FindSpace(x, "deleteConvex")
  /\ overlaps' = overlaps

\* By name: any project that has it.  Its failure is swallowed.
DeleteConvexProject(x) ==
  /\ Stage(x, "deleteConvex", "deleteVercel")
  /\ \/ /\ convex # {}
        /\ \E i \in convex :
             /\ convex' = convex \ {i}
             /\ strays' = IF i = target[x] THEN strays ELSE strays \cup {i, target[x]}
     \/ /\ convex = {} \/ "callFails" \in SpaceEvents
        /\ convex' = convex
        /\ strays' = strays \cup {target[x]}
  /\ UNCHANGED <<scenario, vercel, spaceRows, dist, target, builds, undone>>

\* Mutant: an error of Vercel is swallowed as one of Convex is.
IgnoreVercel(x) ==
  /\ Stage(x, "deleteVercel", "rename")
  /\ \E gone \in {{}, {target[x]}} : vercel' = vercel \ gone
  /\ UNCHANGED <<scenario, convex, spaceRows, dist, target, builds, accidents>>

\* By the row's project id; a project that is gone already is an error.
DeleteVercelProject(x) ==
  /\ Stage(x, "deleteVercel", IF target[x] \in vercel THEN "rename" ELSE "failed")
  /\ vercel' = vercel \ {target[x]}
  /\ UNCHANGED <<scenario, convex, spaceRows, dist, target, builds, accidents>>

MarkDeleted(x) ==
  /\ Stage(x, "rename", "done")
  /\ space' = [space EXCEPT ![target[x]] = "DELETED"]
  /\ renamed' = renamed \cup {target[x]}
  /\ UNCHANGED <<remote, dist, target, builds, accidents>>
-----------------------------------------------------------------------------
(* What a deployed app asks of the bot, with the name and the secret its deployment
   gave it.                                                                   *)

\* findBySecret: the secret is that of one initialisation.
FindBySecret(i) == {j \in {i} \ renamed : space[j] \notin {"none", "DELETED"}}

\* handleToolCall, of a tool that is registered or not: the status of the answer.
HandleToolCall(i, known) ==
  IF FindBySecret(i) = {} THEN 403 ELSE IF known THEN 200 ELSE 404
-----------------------------------------------------------------------------
\* An awaited call rejects: the catch block of a deployment records it, unless that fails too.
SpaceCallFails(c) ==
  /\ "callFails" \in SpaceEvents
  /\ stage[c] \notin {"idle", "done", "failed"}
  /\ stage' = [stage EXCEPT ![c] =
       IF stage[c] \in {"backend", "build", "upload", "success", "activate"} THEN "catch" ELSE "failed"]
  /\ UNCHANGED <<remote, spaceRows, dist, target, builds, accidents>>

SpacesNext ==
  \/ \E i \in Inits :
       \/ CopyTemplate(i) \/ CreateConvexProject(i) \/ CreateVercelProject(i)
       \/ CreateRow(i) \/ FinishInit(i)
  \/ \E d \in Deploys :
       \/ StartDeploy(d) \/ RecordDeployment(d) \/ DeployBackend(d) \/ BuildFrontend(d)
       \/ Upload(d) \/ RecordSuccess(d) \/ Activate(d) \/ RecordFailure(d)
  \/ \E x \in Deletes :
       StartDelete(x) \/ DeleteConvexProject(x) \/ DeleteVercelProject(x) \/ MarkDeleted(x)
  \/ \E c \in SpaceCalls : SpaceCallFails(c)

SpacesSpec == SpacesInit /\ [][SpacesNext]_spaceVars
-----------------------------------------------------------------------------
(* Properties.                                                             *)

SpacesTypeOK ==
  /\ convex \subseteq Inits /\ vercel \subseteq Inits /\ Cardinality(vercel) <= 1
  /\ space \in [Inits -> {"none", "READY", "ACTIVE", "DELETED"}]
  /\ renamed \subseteq Inits
  /\ \A c \in Deploys \cup Deletes : target[c] \in Inits \cup {NoInit}
  /\ deployment \in [Deploys -> {"none", "BUILDING", "SUCCESS", "FAILED"}]
  /\ \A d \in Deploys : shipped[d] \in Deploys \cup {"none"}

Deleting(i) == \E x \in Deletes : target[x] = i

\* A space that nobody deletes keeps its projects, unless the deletion of
\* another project of its name found this one at Convex (convex-client.ts:110).
LiveSpaceHasProjects ==
  \A i \in Inits :
    (space[i] \in {"READY", "ACTIVE"} /\ ~Deleting(i)) => i \in vercel /\ (i \in convex \/ i \in strays)

\* A project without a living space belongs to an initialisation that is under
\* way or has failed, which at Vercel keeps the name from everybody, or survived
\* the deletion of its space, which found another project or whose call failed.
OrphansExplained ==
  \A i \in convex \cup vercel :
    \/ space[i] \in {"READY", "ACTIVE"}
    \/ space[i] = "none" /\ stage[i] # "done"
    \/ i \in convex \cap strays

\* Only a deployment that had found the space before the deletion ended can make
\* a DELETED space ACTIVE again, and it does so under the name the row was
\* given: the name stays free.
ResurrectionExplained ==
  \A i \in renamed : space[i] # "DELETED" => \E d \in undone : target[d] = i

\* What a deployment uploads is its own build, unless another deployment of the
\* workspace ran beside it: all build into one directory (service.ts:192).
OwnBuildIsShipped ==
  \A d \in Deploys : shipped[d] \notin {"none", d} => d \in overlaps

\* The deployments' record tells the truth: SUCCESS was uploaded, and a finished
\* one does not stay BUILDING unless recording it failed.
DeploymentRecordIsTrue ==
  \A d \in Deploys :
    /\ deployment[d] = "SUCCESS" => shipped[d] # "none"
    /\ stage[d] = "done" => deployment[d] = "SUCCESS"

\* An app that was deployed, and that nobody deletes, may call tools; one whose space
\* was deleted may not, also when a late deployment has made its row ACTIVE again.
AppsAreServed ==
  /\ \A d \in Deploys :
       stage[d] = "done" /\ ~Deleting(target[d]) => HandleToolCall(target[d], TRUE) = 200
  /\ \A i \in renamed : HandleToolCall(i, TRUE) = 403

\* Rows, remote projects and deployments agree, but for what the conjuncts name
\* (service.ts:93-328).
SpacesFollowProjects ==
  /\ LiveSpaceHasProjects /\ OrphansExplained /\ ResurrectionExplained
  /\ OwnBuildIsShipped /\ DeploymentRecordIsTrue /\ AppsAreServed
=============================================================================
