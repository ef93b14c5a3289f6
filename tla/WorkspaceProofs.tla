-------------------------- MODULE WorkspaceProofs ---------------------------
(***************************************************************************)
(* Theorems about what the tools keep in a workspace: its projects and     *)
(* spaces, its files, the commands it runs and its skills, for every set   *)
(* of calls, workspaces, texts and bounds.                                 *)
(***************************************************************************)
EXTENDS Spaces, WorkspaceFiles, ShellCommands, Skills, FiniteSetTheorems, TLAPS

-----------------------------------------------------------------------------
(* Spaces: the inductive invariant.                                        *)

USE DEF remote, spaceRows, builds, accidents, SpaceCalls

InitStages   == {"idle", "createConvex", "createVercel", "createRow", "setEnv", "done", "failed"}
DeployStages == {"idle", "create", "backend", "build", "upload", "success", "activate",
                 "done", "catch", "failed"}
DeleteStages == {"idle", "deleteConvex", "deleteVercel", "rename", "done", "failed"}

SpacesTyped ==
  /\ convex \subseteq Inits
  /\ vercel = {} \/ \E i \in Inits : vercel = {i}
  /\ space \in [Inits -> {"none", "READY", "ACTIVE", "DELETED"}]
  /\ renamed \subseteq Inits
  /\ dist \in [SpaceTenants -> Deploys \cup {"none"}]
  /\ stage \in [SpaceCalls -> InitStages \cup DeployStages \cup DeleteStages]
  /\ \A i \in Inits   : stage[i] \in InitStages
  /\ \A d \in Deploys : stage[d] \in DeployStages
  /\ \A x \in Deletes : stage[x] \in DeleteStages
  /\ target \in [Deploys \cup Deletes -> Inits \cup {NoInit}]
  /\ deployment \in [Deploys -> {"none", "BUILDING", "SUCCESS", "FAILED"}]
  /\ shipped \in [Deploys -> Deploys \cup {"none"}]
  /\ overlaps \subseteq Deploys /\ undone \subseteq Deploys

\* What an initialisation has made when it is where it is.
StartedInv ==
  \A i \in Inits :
    /\ stage[i] \in {"idle", "createConvex"} => i \notin convex
    /\ stage[i] \in {"idle", "createConvex", "createVercel"} => i \notin vercel
    /\ stage[i] \in {"idle", "createConvex", "createVercel", "createRow"} => space[i] = "none"
    /\ stage[i] \in {"setEnv", "done"} => space[i] # "none"
    /\ stage[i] \in {"createVercel", "createRow"} => i \in convex \/ i \in strays
    /\ stage[i] = "createRow" => i \in vercel

\* A call that has found a row has found one that was created.
TargetInv ==
  \A c \in Deploys \cup Deletes :
    /\ stage[c] = "idle" => target[c] = NoInit
    /\ stage[c] \notin {"idle", "failed"} => target[c] \in Inits
    /\ target[c] \in Inits => space[target[c]] # "none"

\* What a deletion has taken, and that only a finished one renames a row.
DeletedInv ==
  /\ \A x \in Deletes :
       /\ stage[x] \in {"deleteVercel", "rename", "done"} => target[x] \notin convex \/ target[x] \in strays
       /\ stage[x] \in {"rename", "done"} => target[x] \notin vercel
  /\ \A i \in renamed : space[i] # "none" /\ \E x \in Deletes : stage[x] = "done" /\ target[x] = i
  /\ \A i \in Inits : space[i] = "DELETED" => i \in renamed
  /\ \A d \in undone : stage[d] # "idle"

\* What a deployment builds and uploads.
BuildInv ==
  /\ \A d \in Deploys, e \in Deploys :
       d # e /\ SpaceOwner[d] = SpaceOwner[e] /\ d \in Deploying(SpaceOwner[d]) /\ e \in Deploying(SpaceOwner[d])
         => d \in overlaps
  /\ \A d \in Deploys :
       /\ stage[d] = "upload" => dist[SpaceOwner[d]] # "none" /\ (dist[SpaceOwner[d]] = d \/ d \in overlaps)
       /\ stage[d] \in {"success", "activate", "done"} => shipped[d] # "none"
       /\ stage[d] \in {"activate", "done"} => deployment[d] = "SUCCESS"
       /\ deployment[d] = "SUCCESS" => shipped[d] # "none"
       /\ shipped[d] \notin {"none", d} => d \in overlaps

SpaceInv ==
  /\ SpacesTyped /\ StartedInv /\ TargetInv /\ DeletedInv /\ BuildInv
  /\ LiveSpaceHasProjects /\ ResurrectionExplained

LEMMA SpaceInvInit == SpacesInit => SpaceInv
BY SpaceAssumption
   DEF SpacesInit, SpaceInv, SpacesTyped, StartedInv, TargetInv, DeletedInv, BuildInv,
       LiveSpaceHasProjects, ResurrectionExplained, Deploying, Deleting, InitStages,
       DeployStages, DeleteStages

\* The invariant implies what the run checks.
LEMMA SpaceInvSuffices == SpaceInv => SpacesTypeOK /\ SpacesFollowProjects
<1> SUFFICES ASSUME SpaceInv PROVE SpacesTypeOK /\ SpacesFollowProjects
  OBVIOUS
<1> USE SpaceAssumption
<1>0. /\ SpacesTyped /\ StartedInv /\ TargetInv /\ DeletedInv /\ BuildInv
      /\ LiveSpaceHasProjects /\ ResurrectionExplained
  BY DEF SpaceInv
<1>1. vercel \subseteq Inits /\ Cardinality(vercel) <= 1
  <2>1. CASE vercel = {}
    BY <2>1, FS_EmptySet
  <2>2. ASSUME NEW i \in Inits, vercel = {i} PROVE vercel \subseteq Inits /\ Cardinality(vercel) <= 1
    <3>1. Cardinality({i}) = 1
      BY FS_Singleton
    <3>2. QED
      BY <2>2, <3>1
  <2>3. QED
    BY <1>0, <2>1, <2>2 DEF SpacesTyped
<1>2. SpacesTypeOK
  BY <1>0, <1>1 DEF SpacesTyped, SpacesTypeOK
<1>3. OrphansExplained
  BY <1>0 DEF SpacesTyped, StartedInv, DeletedInv, OrphansExplained
<1>4. OwnBuildIsShipped /\ DeploymentRecordIsTrue
  BY <1>0 DEF BuildInv, OwnBuildIsShipped, DeploymentRecordIsTrue
<1>5. AppsAreServed
  <2>1. ASSUME NEW d \in Deploys, stage[d] = "done", ~Deleting(target[d])
        PROVE  HandleToolCall(target[d], TRUE) = 200
    <3>1. target[d] \in Inits /\ space[target[d]] # "none"
      BY <1>0, <2>1 DEF TargetInv
    <3>2. target[d] \notin renamed /\ space[target[d]] # "DELETED"
      BY <1>0, <2>1, <3>1 DEF DeletedInv, Deleting
    <3>3. QED
      BY <3>1, <3>2 DEF HandleToolCall, FindBySecret
  <2>2. ASSUME NEW i \in renamed PROVE HandleToolCall(i, TRUE) = 403
    BY <2>2 DEF HandleToolCall, FindBySecret
  <2>3. \A d \in Deploys :
          stage[d] = "done" /\ ~Deleting(target[d]) => HandleToolCall(target[d], TRUE) = 200
    BY <2>1
  <2>4. QED
    BY <2>2, <2>3 DEF AppsAreServed
<1>6. QED
  BY <1>0, <1>2, <1>3, <1>4, <1>5 DEF SpacesFollowProjects

\* Every step keeps the invariant.
LEMMA SpaceInvStep == SpaceInv /\ [SpacesNext]_spaceVars => SpaceInv'
<1> SUFFICES ASSUME SpaceInv, [SpacesNext]_spaceVars PROVE SpaceInv'
  OBVIOUS
<1> USE SpaceAssumption DEF InitStages, DeployStages, DeleteStages
<1>0. /\ SpacesTyped /\ StartedInv /\ TargetInv /\ DeletedInv /\ BuildInv
      /\ LiveSpaceHasProjects /\ ResurrectionExplained
  BY DEF SpaceInv
<1>1. ASSUME NEW i \in Inits, CopyTemplate(i) PROVE SpaceInv'
  <2>1. SpacesTyped'
    BY <1>0, <1>1 DEF CopyTemplate, Stage, SpacesTyped, TargetInv
  <2>2. StartedInv'
    BY <1>0, <1>1 DEF CopyTemplate, Stage, SpacesTyped, StartedInv, TargetInv
  <2>3. TargetInv'
    BY <1>0, <1>1 DEF CopyTemplate, Stage, SpacesTyped, StartedInv, TargetInv
  <2>4. DeletedInv'
    BY <1>0, <1>1 DEF CopyTemplate, Stage, SpacesTyped, StartedInv, TargetInv, DeletedInv
  <2>5. BuildInv'
    BY <1>0, <1>1 DEF CopyTemplate, Stage, SpacesTyped, BuildInv, Deploying
  <2>6. LiveSpaceHasProjects' /\ ResurrectionExplained'
    BY <1>0, <1>1 DEF CopyTemplate, Stage, SpacesTyped, StartedInv, TargetInv, DeletedInv,
         LiveSpaceHasProjects, ResurrectionExplained, Deleting
  <2>7. QED
    BY <2>1, <2>2, <2>3, <2>4, <2>5, <2>6 DEF SpaceInv
<1>2. ASSUME NEW i \in Inits, CreateConvexProject(i) PROVE SpaceInv'
  <2>1. SpacesTyped'
    BY <1>0, <1>2 DEF CreateConvexProject, Stage, SpacesTyped, TargetInv
  <2>2. StartedInv'
    BY <1>0, <1>2 DEF CreateConvexProject, Stage, SpacesTyped, StartedInv, TargetInv
  <2>3. TargetInv'
    BY <1>0, <1>2 DEF CreateConvexProject, Stage, SpacesTyped, StartedInv, TargetInv
  <2>4. DeletedInv'
    BY <1>0, <1>2 DEF CreateConvexProject, Stage, SpacesTyped, StartedInv, TargetInv, DeletedInv
  <2>5. BuildInv'
    BY <1>0, <1>2 DEF CreateConvexProject, Stage, SpacesTyped, BuildInv, Deploying
  <2>6. LiveSpaceHasProjects' /\ ResurrectionExplained'
    BY <1>0, <1>2 DEF CreateConvexProject, Stage, SpacesTyped, StartedInv, TargetInv, DeletedInv,
         LiveSpaceHasProjects, ResurrectionExplained, Deleting
  <2>7. QED
    BY <2>1, <2>2, <2>3, <2>4, <2>5, <2>6 DEF SpaceInv
<1>3. ASSUME NEW i \in Inits, CreateVercelProject(i) PROVE SpaceInv'
  <2>1. SpacesTyped'
    BY <1>0, <1>3 DEF CreateVercelProject, Stage, SpacesTyped, TargetInv
  <2>2. StartedInv'
    BY <1>0, <1>3 DEF CreateVercelProject, Stage, SpacesTyped, StartedInv, TargetInv
  <2>3. TargetInv'
    BY <1>0, <1>3 DEF CreateVercelProject, Stage, SpacesTyped, StartedInv, TargetInv
  <2>4. DeletedInv'
    BY <1>0, <1>3 DEF CreateVercelProject, Stage, SpacesTyped, StartedInv, TargetInv, DeletedInv
  <2>5. BuildInv'
    BY <1>0, <1>3 DEF CreateVercelProject, Stage, SpacesTyped, BuildInv, Deploying
  <2>6. LiveSpaceHasProjects' /\ ResurrectionExplained'
    BY <1>0, <1>3 DEF CreateVercelProject, Stage, SpacesTyped, StartedInv, TargetInv, DeletedInv,
         LiveSpaceHasProjects, ResurrectionExplained, Deleting
  <2>7. QED
    BY <2>1, <2>2, <2>3, <2>4, <2>5, <2>6 DEF SpaceInv
<1>4. ASSUME NEW i \in Inits, CreateRow(i) PROVE SpaceInv'
  <2>1. SpacesTyped'
    BY <1>0, <1>4 DEF CreateRow, Stage, Named, SpacesTyped, TargetInv
  <2>2. StartedInv'
    BY <1>0, <1>4 DEF CreateRow, Stage, Named, SpacesTyped, StartedInv, TargetInv
  <2>3. TargetInv'
    BY <1>0, <1>4 DEF CreateRow, Stage, Named, SpacesTyped, StartedInv, TargetInv
  <2>4. DeletedInv'
    BY <1>0, <1>4 DEF CreateRow, Stage, Named, SpacesTyped, StartedInv, TargetInv, DeletedInv
  <2>5. BuildInv'
    BY <1>0, <1>4 DEF CreateRow, Stage, Named, SpacesTyped, BuildInv, Deploying
  <2>6. LiveSpaceHasProjects' /\ ResurrectionExplained'
    BY <1>0, <1>4 DEF CreateRow, Stage, Named, SpacesTyped, StartedInv, TargetInv, DeletedInv,
         LiveSpaceHasProjects, ResurrectionExplained, Deleting
  <2>7. QED
    BY <2>1, <2>2, <2>3, <2>4, <2>5, <2>6 DEF SpaceInv
<1>5. ASSUME NEW i \in Inits, FinishInit(i) PROVE SpaceInv'
  <2>1. SpacesTyped'
    BY <1>0, <1>5 DEF FinishInit, Stage, SpacesTyped, TargetInv
  <2>2. StartedInv'
    BY <1>0, <1>5 DEF FinishInit, Stage, SpacesTyped, StartedInv, TargetInv
  <2>3. TargetInv'
    BY <1>0, <1>5 DEF FinishInit, Stage, SpacesTyped, StartedInv, TargetInv
  <2>4. DeletedInv'
    BY <1>0, <1>5 DEF FinishInit, Stage, SpacesTyped, StartedInv, TargetInv, DeletedInv
  <2>5. BuildInv'
    BY <1>0, <1>5 DEF FinishInit, Stage, SpacesTyped, BuildInv, Deploying
  <2>6. LiveSpaceHasProjects' /\ ResurrectionExplained'
    BY <1>0, <1>5 DEF FinishInit, Stage, SpacesTyped, StartedInv, TargetInv, DeletedInv,
         LiveSpaceHasProjects, ResurrectionExplained, Deleting
  <2>7. QED
    BY <2>1, <2>2, <2>3, <2>4, <2>5, <2>6 DEF SpaceInv
<1>6. ASSUME NEW d \in Deploys, StartDeploy(d) PROVE SpaceInv'
  <2>1. SpacesTyped'
    BY <1>0, <1>6 DEF StartDeploy, FindSpace, Named, Deploying, SpacesTyped, TargetInv
  <2>2. StartedInv'
    BY <1>0, <1>6 DEF StartDeploy, FindSpace, Named, SpacesTyped, StartedInv, TargetInv
  <2>3. TargetInv'
    BY <1>0, <1>6 DEF StartDeploy, FindSpace, Named, SpacesTyped, StartedInv, TargetInv
  <2>4. DeletedInv'
    BY <1>0, <1>6 DEF StartDeploy, FindSpace, Named, SpacesTyped, StartedInv, TargetInv, DeletedInv
  <2>5. BuildInv'
    BY <1>0, <1>6 DEF StartDeploy, FindSpace, Named, SpacesTyped, BuildInv, Deploying
  <2>6. LiveSpaceHasProjects' /\ ResurrectionExplained'
    BY <1>0, <1>6 DEF StartDeploy, FindSpace, Named, SpacesTyped, StartedInv, TargetInv, DeletedInv,
         LiveSpaceHasProjects, ResurrectionExplained, Deleting
  <2>7. QED
    BY <2>1, <2>2, <2>3, <2>4, <2>5, <2>6 DEF SpaceInv
<1>7. ASSUME NEW d \in Deploys, RecordDeployment(d) PROVE SpaceInv'
  <2>1. SpacesTyped'
    BY <1>0, <1>7 DEF RecordDeployment, Stage, SpacesTyped, TargetInv
  <2>2. StartedInv'
    BY <1>0, <1>7 DEF RecordDeployment, Stage, SpacesTyped, StartedInv, TargetInv
  <2>3. TargetInv'
    BY <1>0, <1>7 DEF RecordDeployment, Stage, SpacesTyped, StartedInv, TargetInv
  <2>4. DeletedInv'
    BY <1>0, <1>7 DEF RecordDeployment, Stage, SpacesTyped, StartedInv, TargetInv, DeletedInv
  <2>5. BuildInv'
    BY <1>0, <1>7 DEF RecordDeployment, Stage, SpacesTyped, BuildInv, Deploying
  <2>6. LiveSpaceHasProjects' /\ ResurrectionExplained'
    BY <1>0, <1>7 DEF RecordDeployment, Stage, SpacesTyped, StartedInv, TargetInv, DeletedInv,
         LiveSpaceHasProjects, ResurrectionExplained, Deleting
  <2>7. QED
    BY <2>1, <2>2, <2>3, <2>4, <2>5, <2>6 DEF SpaceInv
<1>8. ASSUME NEW d \in Deploys, DeployBackend(d) PROVE SpaceInv'
  <2>1. SpacesTyped'
    BY <1>0, <1>8 DEF DeployBackend, Stage, SpacesTyped, TargetInv
  <2>2. StartedInv'
    BY <1>0, <1>8 DEF DeployBackend, Stage, SpacesTyped, StartedInv, TargetInv
  <2>3. TargetInv'
    BY <1>0, <1>8 DEF DeployBackend, Stage, SpacesTyped, StartedInv, TargetInv
  <2>4. DeletedInv'
    BY <1>0, <1>8 DEF DeployBackend, Stage, SpacesTyped, StartedInv, TargetInv, DeletedInv
  <2>5. BuildInv'
    BY <1>0, <1>8 DEF DeployBackend, Stage, SpacesTyped, BuildInv, Deploying
  <2>6. LiveSpaceHasProjects' /\ ResurrectionExplained'
    BY <1>0, <1>8 DEF DeployBackend, Stage, SpacesTyped, StartedInv, TargetInv, DeletedInv,
         LiveSpaceHasProjects, ResurrectionExplained, Deleting
  <2>7. QED
    BY <2>1, <2>2, <2>3, <2>4, <2>5, <2>6 DEF SpaceInv
<1>9. ASSUME NEW d \in Deploys, BuildFrontend(d) PROVE SpaceInv'
  <2>0. \A e \in Deploys : SpaceOwner[e] \in SpaceTenants
    BY DEF SpaceTenants
  <2>1. SpacesTyped'
    BY <1>0, <1>9, <2>0 DEF BuildFrontend, Stage, SpacesTyped, TargetInv
  <2>2. StartedInv'
    BY <1>0, <1>9 DEF BuildFrontend, Stage, SpacesTyped, StartedInv, TargetInv
  <2>3. TargetInv'
    BY <1>0, <1>9 DEF BuildFrontend, Stage, SpacesTyped, StartedInv, TargetInv
  <2>4. DeletedInv'
    BY <1>0, <1>9 DEF BuildFrontend, Stage, SpacesTyped, StartedInv, TargetInv, DeletedInv
  <2>5. BuildInv'
    BY <1>0, <1>9, <2>0 DEF BuildFrontend, Stage, SpacesTyped, BuildInv, Deploying
  <2>6. LiveSpaceHasProjects' /\ ResurrectionExplained'
    BY <1>0, <1>9 DEF BuildFrontend, Stage, SpacesTyped, StartedInv, TargetInv, DeletedInv,
         LiveSpaceHasProjects, ResurrectionExplained, Deleting
  <2>7. QED
    BY <2>1, <2>2, <2>3, <2>4, <2>5, <2>6 DEF SpaceInv
<1>10. ASSUME NEW d \in Deploys, Upload(d) PROVE SpaceInv'
  <2>0. \A e \in Deploys : SpaceOwner[e] \in SpaceTenants
    BY DEF SpaceTenants
  <2>1. SpacesTyped'
    BY <1>0, <1>10, <2>0 DEF Upload, Stage, SpacesTyped, TargetInv
  <2>2. StartedInv'
    BY <1>0, <1>10 DEF Upload, Stage, SpacesTyped, StartedInv, TargetInv
  <2>3. TargetInv'
    BY <1>0, <1>10 DEF Upload, Stage, SpacesTyped, StartedInv, TargetInv
  <2>4. DeletedInv'
    BY <1>0, <1>10 DEF Upload, Stage, SpacesTyped, StartedInv, TargetInv, DeletedInv
  <2>5. BuildInv'
    BY <1>0, <1>10, <2>0 DEF Upload, Stage, SpacesTyped, BuildInv, Deploying
  <2>6. LiveSpaceHasProjects' /\ ResurrectionExplained'
    BY <1>0, <1>10 DEF Upload, Stage, SpacesTyped, StartedInv, TargetInv, DeletedInv,
         LiveSpaceHasProjects, ResurrectionExplained, Deleting
  <2>7. QED
    BY <2>1, <2>2, <2>3, <2>4, <2>5, <2>6 DEF SpaceInv
<1>11. ASSUME NEW d \in Deploys, RecordSuccess(d) PROVE SpaceInv'
  <2>1. SpacesTyped'
    BY <1>0, <1>11 DEF RecordSuccess, Stage, SpacesTyped, TargetInv
  <2>2. StartedInv'
    BY <1>0, <1>11 DEF RecordSuccess, Stage, SpacesTyped, StartedInv, TargetInv
  <2>3. TargetInv'
    BY <1>0, <1>11 DEF RecordSuccess, Stage, SpacesTyped, StartedInv, TargetInv
  <2>4. DeletedInv'
    BY <1>0, <1>11 DEF RecordSuccess, Stage, SpacesTyped, StartedInv, TargetInv, DeletedInv
  <2>5. BuildInv'
    BY <1>0, <1>11 DEF RecordSuccess, Stage, SpacesTyped, BuildInv, Deploying
  <2>6. LiveSpaceHasProjects' /\ ResurrectionExplained'
    BY <1>0, <1>11 DEF RecordSuccess, Stage, SpacesTyped, StartedInv, TargetInv, DeletedInv,
         LiveSpaceHasProjects, ResurrectionExplained, Deleting
  <2>7. QED
    BY <2>1, <2>2, <2>3, <2>4, <2>5, <2>6 DEF SpaceInv
<1>12. ASSUME NEW d \in Deploys, Activate(d) PROVE SpaceInv'
  <2>1. SpacesTyped'
    BY <1>0, <1>12 DEF Activate, Stage, SpacesTyped, TargetInv
  <2>2. StartedInv'
    BY <1>0, <1>12 DEF Activate, Stage, SpacesTyped, StartedInv, TargetInv
  <2>3. TargetInv'
    BY <1>0, <1>12 DEF Activate, Stage, SpacesTyped, StartedInv, TargetInv
  <2>4. DeletedInv'
    BY <1>0, <1>12 DEF Activate, Stage, SpacesTyped, StartedInv, TargetInv, DeletedInv
  <2>5. BuildInv'
    BY <1>0, <1>12 DEF Activate, Stage, SpacesTyped, BuildInv, Deploying
  <2>6. LiveSpaceHasProjects' /\ ResurrectionExplained'
    BY <1>0, <1>12 DEF Activate, Stage, SpacesTyped, StartedInv, TargetInv, DeletedInv,
         LiveSpaceHasProjects, ResurrectionExplained, Deleting
  <2>7. QED
    BY <2>1, <2>2, <2>3, <2>4, <2>5, <2>6 DEF SpaceInv
<1>13. ASSUME NEW d \in Deploys, RecordFailure(d) PROVE SpaceInv'
  <2>1. SpacesTyped'
    BY <1>0, <1>13 DEF RecordFailure, Stage, SpacesTyped, TargetInv
  <2>2. StartedInv'
    BY <1>0, <1>13 DEF RecordFailure, Stage, SpacesTyped, StartedInv, TargetInv
  <2>3. TargetInv'
    BY <1>0, <1>13 DEF RecordFailure, Stage, SpacesTyped, StartedInv, TargetInv
  <2>4. DeletedInv'
    BY <1>0, <1>13 DEF RecordFailure, Stage, SpacesTyped, StartedInv, TargetInv, DeletedInv
  <2>5. BuildInv'
    BY <1>0, <1>13 DEF RecordFailure, Stage, SpacesTyped, BuildInv, Deploying
  <2>6. LiveSpaceHasProjects' /\ ResurrectionExplained'
    BY <1>0, <1>13 DEF RecordFailure, Stage, SpacesTyped, StartedInv, TargetInv, DeletedInv,
         LiveSpaceHasProjects, ResurrectionExplained, Deleting
  <2>7. QED
    BY <2>1, <2>2, <2>3, <2>4, <2>5, <2>6 DEF SpaceInv
<1>14. ASSUME NEW x \in Deletes, StartDelete(x) PROVE SpaceInv'
  <2>1. SpacesTyped'
    BY <1>0, <1>14 DEF StartDelete, FindSpace, Named, SpacesTyped, TargetInv
  <2>2. StartedInv'
    BY <1>0, <1>14 DEF StartDelete, FindSpace, Named, SpacesTyped, StartedInv, TargetInv
  <2>3. TargetInv'
    BY <1>0, <1>14 DEF StartDelete, FindSpace, Named, SpacesTyped, StartedInv, TargetInv
  <2>4. DeletedInv'
    BY <1>0, <1>14 DEF StartDelete, FindSpace, Named, SpacesTyped, StartedInv, TargetInv, DeletedInv
  <2>5. BuildInv'
    BY <1>0, <1>14 DEF StartDelete, FindSpace, Named, SpacesTyped, BuildInv, Deploying
  <2>6. LiveSpaceHasProjects' /\ ResurrectionExplained'
    BY <1>0, <1>14 DEF StartDelete, FindSpace, Named, SpacesTyped, StartedInv, TargetInv, DeletedInv,
         LiveSpaceHasProjects, ResurrectionExplained, Deleting
  <2>7. QED
    BY <2>1, <2>2, <2>3, <2>4, <2>5, <2>6 DEF SpaceInv
<1>15. ASSUME NEW x \in Deletes, DeleteConvexProject(x) PROVE SpaceInv'
  <2>1. SpacesTyped'
    BY <1>0, <1>15 DEF DeleteConvexProject, Stage, SpacesTyped, TargetInv
  <2>2. StartedInv'
    BY <1>0, <1>15 DEF DeleteConvexProject, Stage, SpacesTyped, StartedInv, TargetInv
  <2>3. TargetInv'
    BY <1>0, <1>15 DEF DeleteConvexProject, Stage, SpacesTyped, StartedInv, TargetInv
  <2>4. DeletedInv'
    BY <1>0, <1>15 DEF DeleteConvexProject, Stage, SpacesTyped, StartedInv, TargetInv, DeletedInv
  <2>5. BuildInv'
    BY <1>0, <1>15 DEF DeleteConvexProject, Stage, SpacesTyped, BuildInv, Deploying
  <2>6. LiveSpaceHasProjects' /\ ResurrectionExplained'
    BY <1>0, <1>15 DEF DeleteConvexProject, Stage, SpacesTyped, StartedInv, TargetInv, DeletedInv,
         LiveSpaceHasProjects, ResurrectionExplained, Deleting
  <2>7. QED
    BY <2>1, <2>2, <2>3, <2>4, <2>5, <2>6 DEF SpaceInv
<1>16. ASSUME NEW x \in Deletes, DeleteVercelProject(x) PROVE SpaceInv'
  <2>1. SpacesTyped'
    BY <1>0, <1>16 DEF DeleteVercelProject, Stage, SpacesTyped, TargetInv
  <2>2. StartedInv'
    BY <1>0, <1>16 DEF DeleteVercelProject, Stage, SpacesTyped, StartedInv, TargetInv
  <2>3. TargetInv'
    BY <1>0, <1>16 DEF DeleteVercelProject, Stage, SpacesTyped, StartedInv, TargetInv
  <2>4. DeletedInv'
    BY <1>0, <1>16 DEF DeleteVercelProject, Stage, SpacesTyped, StartedInv, TargetInv, DeletedInv
  <2>5. BuildInv'
    BY <1>0, <1>16 DEF DeleteVercelProject, Stage, SpacesTyped, BuildInv, Deploying
  <2>6. LiveSpaceHasProjects' /\ ResurrectionExplained'
    BY <1>0, <1>16 DEF DeleteVercelProject, Stage, SpacesTyped, StartedInv, TargetInv, DeletedInv,
         LiveSpaceHasProjects, ResurrectionExplained, Deleting
  <2>7. QED
    BY <2>1, <2>2, <2>3, <2>4, <2>5, <2>6 DEF SpaceInv
<1>17. ASSUME NEW x \in Deletes, MarkDeleted(x) PROVE SpaceInv'
  <2>1. SpacesTyped'
    BY <1>0, <1>17 DEF MarkDeleted, Stage, SpacesTyped, TargetInv
  <2>2. StartedInv'
    BY <1>0, <1>17 DEF MarkDeleted, Stage, SpacesTyped, StartedInv, TargetInv
  <2>3. TargetInv'
    BY <1>0, <1>17 DEF MarkDeleted, Stage, SpacesTyped, StartedInv, TargetInv
  <2>4. DeletedInv'
    BY <1>0, <1>17 DEF MarkDeleted, Stage, SpacesTyped, StartedInv, TargetInv, DeletedInv
  <2>5. BuildInv'
    BY <1>0, <1>17 DEF MarkDeleted, Stage, SpacesTyped, BuildInv, Deploying
  <2>6. LiveSpaceHasProjects' /\ ResurrectionExplained'
    BY <1>0, <1>17 DEF MarkDeleted, Stage, SpacesTyped, StartedInv, TargetInv, DeletedInv,
         LiveSpaceHasProjects, ResurrectionExplained, Deleting
  <2>7. QED
    BY <2>1, <2>2, <2>3, <2>4, <2>5, <2>6 DEF SpaceInv
<1>18. ASSUME NEW c \in SpaceCalls, SpaceCallFails(c) PROVE SpaceInv'
  <2>1. SpacesTyped'
    BY <1>0, <1>18 DEF SpaceCallFails, SpacesTyped, TargetInv
  <2>2. StartedInv'
    BY <1>0, <1>18 DEF SpaceCallFails, SpacesTyped, StartedInv, TargetInv
  <2>3. TargetInv'
    BY <1>0, <1>18 DEF SpaceCallFails, SpacesTyped, StartedInv, TargetInv
  <2>4. DeletedInv'
    BY <1>0, <1>18 DEF SpaceCallFails, SpacesTyped, StartedInv, TargetInv, DeletedInv
  <2>5. BuildInv'
    BY <1>0, <1>18 DEF SpaceCallFails, SpacesTyped, BuildInv, Deploying
  <2>6. LiveSpaceHasProjects' /\ ResurrectionExplained'
    BY <1>0, <1>18 DEF SpaceCallFails, SpacesTyped, StartedInv, TargetInv, DeletedInv,
         LiveSpaceHasProjects, ResurrectionExplained, Deleting
  <2>7. QED
    BY <2>1, <2>2, <2>3, <2>4, <2>5, <2>6 DEF SpaceInv
<1>19. CASE UNCHANGED spaceVars
  BY <1>0, <1>19 DEF spaceVars, SpaceInv, SpacesTyped, StartedInv, TargetInv, DeletedInv,
       BuildInv, Deploying, LiveSpaceHasProjects, ResurrectionExplained, Deleting
<1>20. QED
  BY <1>1, <1>2, <1>3, <1>4, <1>5, <1>6, <1>7, <1>8, <1>9, <1>10, <1>11, <1>12, <1>13, <1>14, <1>15, <1>16, <1>17, <1>18, <1>19 DEF SpacesNext

\* Every variable of Spaces keeps its type, and rows, remote projects and deployments
\* agree, but for what the conjuncts of SpacesFollowProjects name.
THEOREM SpacesFollow == SpacesSpec => [](SpacesTypeOK /\ SpacesFollowProjects)
BY SpaceInvInit, SpaceInvStep, SpaceInvSuffices, PTL DEF SpacesSpec

HIDE DEF remote, spaceRows, builds, accidents, SpaceCalls

-----------------------------------------------------------------------------
(* Files.                                                                  *)

Writing(c) == fileCallAt[c] = "writing"

\* No edit is lost yet: no crash has cut a write short, and no call that had not seen
\* another's text has answered.
Unspoilt == ~torn /\ \A c \in unseen : fileCallAt[c] # "done"

\* While nobody writes, the file is what the calls made of it; a call that has seen
\* all texts holds the latest, or another one has emptied the file before it read;
\* and one that has emptied the file finds it empty, until another fills it.
FilesInv ==
  /\ FilesTypeOK
  /\ DOMAIN args = FileCalls /\ DOMAIN read = FileCalls
  /\ \A w \in FileWrites : fileCallAt[w] # "read"
  /\ (Unspoilt /\ \A c \in FileCalls : ~Writing(c)) => content = intended
  /\ \A e \in FileEdits \ unseen :
       Unspoilt /\ fileCallAt[e] \in {"read", "writing"} =>
         read[e] = intended \/ \E d \in FileCalls \ {e} : Writing(d)
  /\ \A c \in FileCalls \ unseen : Writing(c) => content = <<>>

LEMMA FilesInvInit == FilesInit => FilesInv
BY FilesAssumption DEF FilesInit, FilesInv, FilesTypeOK, FileCalls, NoArgs, Unspoilt, Writing

\* Every step keeps the invariant.
LEMMA FilesInvStep == FilesInv /\ [FilesNext]_fileVars => FilesInv'
<1> SUFFICES ASSUME FilesInv, [FilesNext]_fileVars PROVE FilesInv'
  OBVIOUS
<1> USE FilesAssumption DEF FileCalls, FilesInv, FilesTypeOK, Unspoilt, Writing
<1>1. ASSUME NEW e \in FileEdits, ReadForEdit(e) PROVE FilesInv'
  BY <1>1 DEF ReadForEdit, To
<1>2. ASSUME NEW e \in FileEdits, RefuseEdit(e) PROVE FilesInv'
  BY <1>2 DEF RefuseEdit, To
<1>3. ASSUME NEW e \in FileEdits, BeginEdit(e) PROVE FilesInv'
  BY <1>3 DEF BeginEdit, Truncate, To
<1>4. ASSUME NEW w \in FileWrites, BeginWrite(w) PROVE FilesInv'
  BY <1>4 DEF BeginWrite, Truncate, To
<1>5. ASSUME NEW c \in FileCalls, Fill(c) PROVE FilesInv'
  BY <1>5 DEF Fill, To, Outcome, WrittenOver
<1>6. CASE Crash
  BY <1>6 DEF Crash
<1>7. CASE UNCHANGED fileVars
  BY <1>7 DEF fileVars
<1>8. QED
  BY <1>1, <1>2, <1>3, <1>4, <1>5, <1>6, <1>7 DEF FilesNext

LEMMA FilesInvHolds == FilesSpec => []FilesInv
BY FilesInvInit, FilesInvStep, PTL DEF FilesSpec

\* Every variable keeps its type, and when no call is under way the file shows every
\* call that succeeded, unless a call wrote it unseen or a crash emptied it.
THEOREM FilesKeepEdits == FilesSpec => [](FilesTypeOK /\ EditsAreKept)
<1>1. FilesInv => FilesTypeOK /\ EditsAreKept
  BY FilesAssumption DEF FilesInv, FilesTypeOK, EditsAreKept, Underway, Unspoilt, Writing, FileCalls
<1>2. QED
  BY <1>1, FilesInvHolds, PTL

\* An edit reads what the calls before it have left, unless another one is rewriting
\* the file or a text was lost.
THEOREM FreshReads == FilesSpec => StaleReadExplained
<1> DEFINE Explained ==
      \A e \in FileEdits :
        fileCallAt[e] = "idle" /\ fileCallAt'[e] = "read" /\ content # intended
        => torn \/ \E c \in FileCalls : fileCallAt[c] = "writing" \/ c \in unseen
<1>1. FilesInv => [Explained]_fileVars
  BY DEF FilesInv, FilesTypeOK, Unspoilt, Writing
<1>2. QED
  BY <1>1, FilesInvHolds, PTL DEF StaleReadExplained

\* A set of numbers has a greatest one.
LEMMA HasGreatest ==
  ASSUME NEW n \in Nat, NEW S \in SUBSET (1..n), S # {}
  PROVE  \E x \in S : \A y \in S : y <= x
<1> DEFINE Topped(T) == \E x \in T : \A y \in T : y <= x
           bad == {T \in SUBSET S : T # {} /\ ~Topped(T)}
<1>1. SUFFICES ASSUME ~Topped(S) PROVE FALSE
  OBVIOUS
<1>2. IsFiniteSet(S)
  <2>1. n \in Int /\ 1 \in Int
    OBVIOUS
  <2>2. IsFiniteSet(1..n)
    BY <2>1, FS_Interval
  <2>3. QED
    BY <2>2, FS_Subset
<1>3. bad # {} /\ bad \subseteq FiniteSubsetsOf(S)
  BY <1>1, <1>2, FS_FiniteSubsetsOfFinite
<1>4. PICK T \in bad : \A U \in bad : <<U, T>> \notin StrictSubsetOrdering(S)
  <2> HIDE DEF bad
  <2>1. QED
    BY <1>3, FS_StrictSubsetOrderingWellFounded, WFMin
<1>5. PICK x \in T : TRUE
  OBVIOUS
<1>6. T \ {x} \notin bad
  BY <1>4, <1>5 DEF StrictSubsetOrdering
<1>7. CASE T \ {x} = {}
  BY <1>4, <1>5, <1>7
<1>8. CASE T \ {x} # {}
  <2>1. PICK m \in T \ {x} : \A y \in T \ {x} : y <= m
    BY <1>6, <1>8
  <2>2. /\ x >= m => \A y \in T : y <= x
        /\ m >= x => \A y \in T : y <= m
        /\ {x, m} \subseteq Nat
    BY <1>4, <1>5, <2>1
  <2>3. QED
    BY <1>4, <1>5, <2>1, <2>2
<1>9. QED
  BY <1>7, <1>8

\* A replacement without a pattern stands for itself.
LEMMA PlainReplacement ==
  ASSUME NEW s, NEW a, NEW i, a.new \in Seq(STRING), ~HasPattern(a)
  PROVE  Expansion(s, a, i) = a.new
<1> DEFINE new    == a.new
           size   == Len(new)
           stands == [c \in PatternMarks |->
                        CASE c = "$" -> <<"$">>
                          [] c = "&" -> a.old
                          [] c = "pre" -> SubSeq(s, 1, i - 1)
                          [] c = "post" -> SubSeq(s, i + Len(a.old), Len(s))]
           Unfold(f) == [j \in 1..(size + 1) |->
                           IF j > size THEN <<>>
                           ELSE IF new[j] = "$" /\ j < size /\ new[j + 1] \in DOMAIN stands
                                THEN stands[new[j + 1]] \o f[j + 2]
                                ELSE <<new[j]>> \o f[j + 1]]
           expand == CHOOSE f : f = Unfold(f)
           rest   == [j \in 1..(size + 1) |-> SubSeq(new, j, size)]
<1>1. Expansion(s, a, i) = expand[1]
  BY Zenon DEF Expansion
<1>2. size \in Nat /\ new \in Seq(STRING)
  OBVIOUS
<1>3. ASSUME NEW j \in 1..(size + 1), j <= size
      PROVE  ~(new[j] = "$" /\ j < size /\ new[j + 1] \in DOMAIN stands)
  <2>1. DOMAIN stands = PatternMarks
    OBVIOUS
  <2> HIDE DEF stands
  <2>2. QED
    BY <1>2, <1>3, <2>1 DEF HasPattern
<1> HIDE DEF stands
<1>4. ASSUME NEW f
      PROVE  Unfold(f) = [j \in 1..(size + 1) |->
                            IF j > size THEN <<>> ELSE <<new[j]>> \o f[j + 1]]
  <2>1. ASSUME NEW j \in 1..(size + 1)
        PROVE  Unfold(f)[j] = IF j > size THEN <<>> ELSE <<new[j]>> \o f[j + 1]
    BY <1>2, <1>3
  <2>2. QED
    BY <2>1
<1>5. ASSUME NEW j \in 1..size
      PROVE  SubSeq(new, j, size) = <<new[j]>> \o SubSeq(new, j + 1, size)
  <2> HIDE DEF new
  <2>1. QED
    BY <1>2
<1>6. rest = Unfold(rest)
  <2>1. SubSeq(new, size + 1, size) = <<>>
    <3> HIDE DEF new
    <3>1. QED
      BY <1>2
  <2>2. ASSUME NEW j \in 1..(size + 1)
        PROVE  rest[j] = IF j > size THEN <<>> ELSE <<new[j]>> \o rest[j + 1]
    <3>1. CASE j > size
      <4>1. j = size + 1
        BY <1>2, <3>1
      <4> HIDE DEF new, size
      <4>2. QED
        BY <1>2, <2>1, <3>1, <4>1
    <3>2. CASE j <= size
      <4> HIDE DEF new, size
      <4>1. j \in 1..size /\ j + 1 \in 1..(size + 1) /\ ~(j > size)
        BY <1>2, <3>2
      <4>2. rest[j] = SubSeq(new, j, size) /\ rest[j + 1] = SubSeq(new, j + 1, size)
        BY <4>1
      <4>3. QED
        BY <1>5, <4>1, <4>2
    <3>3. QED
      BY <1>2, <3>1, <3>2
  <2> HIDE DEF Unfold
  <2>3. QED
    BY <1>4, <2>2
<1>7. expand = Unfold(expand)
  <2> HIDE DEF Unfold, rest
  <2>1. QED
    BY <1>6, Zenon
<1> HIDE DEF expand, Unfold, new, size
<1>8. ASSUME NEW j \in 1..(size + 1)
      PROVE  expand[j] = IF j > size THEN <<>> ELSE <<new[j]>> \o expand[j + 1]
  BY <1>4, <1>7
<1>9. ASSUME NEW j \in 1..(size + 1)
      PROVE  rest[j] = IF j > size THEN <<>> ELSE <<new[j]>> \o rest[j + 1]
  BY <1>4, <1>6
<1>10. rest[1] = new
  <2>1. SubSeq(new, 1, size) = new /\ 1 \in 1..(size + 1)
    BY <1>2 DEF size
  <2>2. QED
    BY <2>1
<1> HIDE DEF rest
<1>11. ASSUME NEW j \in 1..(size + 1) PROVE expand[j] = rest[j]
  <2> DEFINE apart == {k \in 1..(size + 1) : expand[k] # rest[k]}
  <2>1. SUFFICES ASSUME apart # {} PROVE FALSE
    OBVIOUS
  <2>2. PICK k \in apart : \A l \in apart : l <= k
    <3>1. size + 1 \in Nat /\ apart \in SUBSET (1..(size + 1))
      BY <1>2
    <3> HIDE DEF apart
    <3>2. QED
      BY <2>1, <3>1, HasGreatest
  <2>3. k <= size
    <3>1. k \in 1..(size + 1) /\ expand[k] # rest[k]
      BY <2>2
    <3>2. ASSUME k > size PROVE expand[k] = <<>> /\ rest[k] = <<>>
      BY <1>8, <1>9, <3>1, <3>2, Zenon
    <3>3. QED
      BY <1>2, <3>1, <3>2
  <2>4. k + 1 \in 1..(size + 1) /\ k + 1 \notin apart
    BY <1>2, <2>2, <2>3
  <2>5. expand[k + 1] = rest[k + 1]
    BY <2>4
  <2>6. QED
    BY <1>2, <1>8, <1>9, <2>3, <2>5
<1>12. 1 \in 1..(size + 1)
  BY <1>2
<1>13. QED
  BY <1>1, <1>10, <1>11, <1>12 DEF new

\* What an edit looks for and puts in its place are texts.
ArgsInv == \A c \in FileCalls : DOMAIN args = FileCalls /\ args[c].new \in Seq(STRING)

LEMMA ArgsInvHolds == FilesSpec => []ArgsInv
<1>1. FilesInit => ArgsInv
  <2>1. NoArgs.new \in Seq(STRING)
    BY DEF NoArgs
  <2>2. QED
    BY <2>1 DEF FilesInit, ArgsInv
<1>2. ArgsInv /\ [FilesNext]_fileVars => ArgsInv'
  <2> SUFFICES ASSUME ArgsInv, [FilesNext]_fileVars PROVE ArgsInv'
    OBVIOUS
  <2>1. CASE args' = args
    BY <2>1 DEF ArgsInv
  <2>2. ASSUME NEW e \in FileEdits, ReadForEdit(e) PROVE ArgsInv'
    <3>1. PICK old \in OldStrings, new \in NewStrings, all \in BOOLEAN :
            args' = [args EXCEPT ![e] = [old |-> old, new |-> new, all |-> all]]
      BY <2>2 DEF ReadForEdit
    <3>2. new \in Seq(STRING)
      BY FilesAssumption
    <3>3. QED
      BY <3>1, <3>2 DEF ArgsInv
  <2>3. ASSUME NEW w \in FileWrites, BeginWrite(w) PROVE ArgsInv'
    <3>1. PICK text \in Texts : args' = [args EXCEPT ![w].new = text]
      BY <2>3 DEF BeginWrite
    <3>2. text \in Seq(STRING)
      BY FilesAssumption
    <3>3. ASSUME NEW c \in FileCalls PROVE args'[c].new \in Seq(STRING)
      BY <3>1, <3>2 DEF ArgsInv
    <3>4. QED
      BY <3>1, <3>3 DEF ArgsInv
  <2>4. QED
    BY <2>1, <2>2, <2>3
       DEF FilesNext, RefuseEdit, BeginEdit, Fill, Crash, fileVars
<1>3. QED
  BY <1>1, <1>2, PTL DEF FilesSpec

\* An edit that no other call interferes with leaves what it read with the new text for
\* the old one, in both backends, unless the new text holds a pattern and the backend is
\* the local one.  (file-edit.ts:9 and 68-70)
THEOREM WholeEdits == FilesSpec => InexactEditExplained
<1> DEFINE Explained ==
      \A e \in FileEdits :
        Undisturbed(e) /\ content' # Exact(read[e], args[e])
        => host = "local" /\ HasPattern(args[e])
<1>1. FilesInv /\ ArgsInv /\ [FilesNext]_fileVars => [Explained]_fileVars
  <2> SUFFICES ASSUME FilesInv, ArgsInv, FilesNext, NEW e \in FileEdits, Undisturbed(e),
                      content' # Exact(read[e], args[e])
               PROVE  host = "local" /\ HasPattern(args[e])
    BY DEF fileVars
  <2>1. Fill(e)
    BY FilesAssumption
       DEF FilesInv, FilesTypeOK, FileCalls, FilesNext, ReadForEdit, RefuseEdit, BeginEdit,
           BeginWrite, Truncate, Fill, Crash, To, Undisturbed
  <2>2. content = <<>>
    BY DEF FilesInv, FileCalls, Undisturbed, Writing
  <2>3. content' = Edited(read[e], args[e])
    BY <2>1, <2>2 DEF Fill, Outcome, WrittenOver
  <2>4. host = "local"
    BY <2>3 DEF Edited
  <2>5. ASSUME ~HasPattern(args[e]) PROVE FALSE
    <3>1. args[e].new \in Seq(STRING)
      BY DEF ArgsInv, FileCalls
    <3>2. \A i \in DOMAIN read[e] : Expansion(read[e], args[e], i) = args[e].new
      BY <2>5, <3>1, PlainReplacement
    <3>3. [i \in DOMAIN read[e] |-> Expansion(read[e], args[e], i)]
            = [i \in DOMAIN read[e] |-> args[e].new]
      BY <3>2
    <3>4. Edited(read[e], args[e]) = Exact(read[e], args[e])
      BY <2>4, <3>3, Zenon DEF Edited, Exact
    <3>5. QED
      BY <2>3, <3>4
  <2>6. QED
    BY <2>4, <2>5
<1>2. QED
  BY <1>1, FilesInvHolds, ArgsInvHolds, PTL DEF FilesSpec, InexactEditExplained

-----------------------------------------------------------------------------
(* Commands.                                                               *)

USE DEF output, request

\* The executor keeps all until it has kept enough, and what it then leaves out it has
\* noted, but for the two exceptions; an answer repeats what was kept and noted.
ShellInv ==
  /\ shellHost \in {"local", "modal"} /\ reader \in Readers
  /\ shell \in {"none", "running", "code", "SIGTERM", "SIGKILL"}
  /\ helper \in {"none", "running", "gone"}
  /\ code \in {0, 1} /\ printed \in Nat /\ kept \in Nat
  /\ timer \in {"set", "over", "cleared"}
  /\ kept <= printed /\ kept <= MaxOutput
  /\ kept < MaxOutput => kept = printed
  /\ kept = MaxOutput => marked \/ brimful \/ shellHost = "modal"
  /\ \/ verdict = NoVerdict
     \/ \E why \in {"start", "timeout"} : verdict = Erred(why)
     \/ /\ verdict = Printed(ExitCode, kept, marked)
        /\ shell \notin {"none", "running"} /\ helper # "running"

LEMMA ShellInvInit == ShellInit => ShellInv
BY ShellAssumption DEF ShellInit, ShellInv

\* The invariant implies what the run checks.
LEMMA ShellInvSuffices == ShellInv => ShellTypeOK /\ CommandsAreReported
<1> SUFFICES ASSUME ShellInv PROVE ShellTypeOK /\ CommandsAreReported
  OBVIOUS
<1> USE ShellAssumption DEF ShellInv
<1>1. CASE verdict = NoVerdict
  BY <1>1 DEF NoVerdict, Waiting, ShellTypeOK, CommandsAreReported, OutputMeansEnded, CutIsNoted,
              ReadersAreRight
<1>2. ASSUME NEW why \in {"start", "timeout"}, verdict = Erred(why)
      PROVE  ShellTypeOK /\ CommandsAreReported
  BY <1>2 DEF Erred, ShellTypeOK, CommandsAreReported, OutputMeansEnded, CutIsNoted,
              ReadersAreRight, ScriptStatus, ConditionAllows
<1>3. CASE /\ verdict = Printed(ExitCode, kept, marked)
           /\ shell \notin {"none", "running"} /\ helper # "running"
  BY <1>3 DEF Printed, ExitCode, ShellTypeOK, CommandsAreReported, OutputMeansEnded, CutIsNoted,
              ReadersAreRight, ScriptStatus, ConditionAllows
<1>4. QED
  BY <1>1, <1>2, <1>3

\* Every step keeps the invariant.
LEMMA ShellInvStep == ShellInv /\ [ShellNext]_shellVars => ShellInv'
<1> SUFFICES ASSUME ShellInv, [ShellNext]_shellVars PROVE ShellInv'
  OBVIOUS
<1> USE ShellAssumption DEF ShellInv, ExitCode, Printed, Erred, NoVerdict, Waiting
<1>1. CASE Spawn
  BY <1>1 DEF Spawn
<1>2. CASE SpawnFails
  BY <1>2 DEF SpawnFails
<1>3. CASE HelperStarts \/ HelperEnds
  BY <1>3 DEF HelperStarts, HelperEnds
<1>4. ASSUME NEW n \in Chunks, PipeBrings(n) PROVE ShellInv'
  <2>1. n \in Nat \ {0} /\ MaxOutput \in Nat \ {0} /\ verdict' = verdict /\ verdict = NoVerdict
    BY <1>4 DEF PipeBrings
  <2>2. CASE kept < MaxOutput
    <3>1. /\ printed' = kept + n
          /\ kept' = IF kept + n > MaxOutput THEN MaxOutput ELSE kept + n
          /\ UNCHANGED <<shellHost, reader, shell, code, helper, timer>>
      BY <1>4, <2>2 DEF PipeBrings
    <3>2. kept + n > MaxOutput => marked' \/ shellHost = "modal"
      BY <1>4, <2>2 DEF PipeBrings
    <3>3. kept + n = MaxOutput => brimful'
      BY <1>4, <2>2 DEF PipeBrings
    <3>4. QED
      BY <2>1, <2>2, <3>1, <3>2, <3>3
  <2>3. CASE kept = MaxOutput
    BY <1>4, <2>1, <2>3 DEF PipeBrings
  <2>4. QED
    BY <2>2, <2>3
<1>5. CASE PrintAnswer
  BY <1>5 DEF PrintAnswer
<1>6. CASE ShellExits
  BY <1>6 DEF ShellExits
<1>7. CASE ShellIsKilled
  BY <1>7 DEF ShellIsKilled
<1>8. CASE LocalTimeIsUp
  BY <1>8 DEF LocalTimeIsUp
<1>9. CASE ModalTimeIsUp
  BY <1>9 DEF ModalTimeIsUp
<1>10. CASE CallerGivesUp
  BY <1>10 DEF CallerGivesUp
<1>11. CASE Closes
  BY <1>11 DEF Closes
<1>12. CASE NextCommand
  BY <1>12 DEF NextCommand
<1>13. CASE UNCHANGED shellVars
  BY <1>13 DEF shellVars
<1>14. QED
  BY <1>1, <1>2, <1>3, <1>4, <1>5, <1>6, <1>7, <1>8, <1>9, <1>10, <1>11, <1>12, <1>13
     DEF ShellNext

\* Every variable keeps its type, and of a command no more is said than it did, to the
\* model, to a script job and to a condition.
THEOREM ShellReports == ShellSpec => [](ShellTypeOK /\ CommandsAreReported)
BY ShellInvInit, ShellInvStep, ShellInvSuffices, PTL DEF ShellSpec

HIDE DEF output, request

-----------------------------------------------------------------------------
(* Skills.                                                                 *)

USE DEF rowVars, runVars

SeedStates ==
  [at : {"idle", "look", "update", "create", "done"}, todo : SUBSET BuiltInSkills,
   cur : SkillNames, refused : BOOLEAN]

\* A row's version counts its writes since it was created, and one of them at most
\* was told that it did.
RowsInv ==
  /\ DOMAIN skill = SkillNames
  /\ writes \in [SkillNames -> 0..WriteBound] /\ creators \in [SkillNames -> 0..1]
  /\ \A n \in SkillNames :
       /\ skill[n].version = writes[n]
       /\ writes[n] = 0 => creators[n] = 0
       /\ Exists(n) <=> writes[n] # 0

\* A tool is in the run's list as often as it was loaded, while it is there or was.
ToolListInv ==
  /\ {connected, forsaken} \subseteq BOOLEAN
  /\ active \in [AppTools -> Nat] /\ loaded \subseteq AppTools
  /\ runAt \in {"none", "working"}
  /\ \A t \in AppTools : active[t] = IF t \in loaded THEN 1 ELSE 0
  /\ runAt = "none" => loaded = {}
  /\ runAt = "working" => connected \/ forsaken

\* A seeding has dealt with the definitions it has not still to do.
Seeding(s) ==
  /\ seeding[s].at \in {"update", "create"} => seeding[s].cur \in BuiltInSkills
  /\ SeedAt(s, "update") => Exists(seeding[s].cur)
  /\ SeedAt(s, "done") => seeding[s].todo = {} \/ seeding[s].refused
  /\ SeedAt(s, "idle") \/ seeding[s].refused
     \/ \A n \in BuiltInSkills \ seeding[s].todo :
          Exists(n) \/ (SeedAt(s, "create") /\ seeding[s].cur = n)

SkillsInv ==
  /\ RowsInv /\ ToolListInv
  /\ seeding \in [Seeders -> SeedStates] /\ \A s \in Seeders : Seeding(s)

LEMMA SkillsInvInit == SkillsInit => SkillsInv
<1> SUFFICES ASSUME SkillsInit PROVE SkillsInv
  OBVIOUS
<1> USE SkillAssumption DEF SkillsInit
<1>1. AtRest \in SeedStates
  BY DEF AtRest, SeedStates, SkillNames
<1>2. RowsInv
  BY DEF RowsInv, NoSkill, Exists
<1>3. ToolListInv
  BY DEF ToolListInv
<1>4. \A s \in Seeders : Seeding(s)
  BY DEF Seeding, AtRest, SeedAt
<1>5. QED
  BY <1>1, <1>2, <1>3, <1>4 DEF SkillsInv

\* The invariant implies what the run checks.
LEMMA SkillsInvSuffices == SkillsInv => SkillsTypeOK /\ SkillsAreKept
<1> SUFFICES ASSUME SkillsInv PROVE SkillsTypeOK /\ SkillsAreKept
  OBVIOUS
<1> USE SkillAssumption DEF SkillsInv
<1>1. SkillsTypeOK
  BY DEF SkillsTypeOK, RowsInv, ToolListInv, SeedStates
<1>2. VersionsCountWrites /\ ToolsAreOfferedOnce /\ OfferedToolsExist
  BY DEF VersionsCountWrites, ToolsAreOfferedOnce, OfferedToolsExist, RowsInv, ToolListInv
<1>3. SeedingIsComplete
  BY DEF SeedingIsComplete, Seeding, SeedAt
<1>4. QED
  BY <1>1, <1>2, <1>3 DEF SkillsAreKept

\* A text is stored as a row that exists and whose version is one more; others stay.
LEMMA TextIsStored ==
  ASSUME RowsInv, NEW n \in SkillNames, NEW text, StoreText(n, text)
  PROVE  /\ DOMAIN skill' = SkillNames /\ writes' \in [SkillNames -> 0..WriteBound]
         /\ writes'[n] = writes[n] + 1 /\ skill'[n].version = writes[n] + 1 /\ Exists(n)'
         /\ \A m \in SkillNames \ {n} :
              writes'[m] = writes[m] /\ skill'[m] = skill[m]
<1> USE SkillAssumption DEF RowsInv, StoreText
<1>1. DOMAIN skill' = SkillNames /\ writes' \in [SkillNames -> 0..WriteBound]
  OBVIOUS
<1>2. writes'[n] = writes[n] + 1
  OBVIOUS
<1>3. skill'[n] = [by |-> text.by, schemas |-> text.schemas, version |-> writes[n] + 1]
  OBVIOUS
<1>4. skill'[n].version = writes[n] + 1
  BY <1>3
<1>5. skill'[n] # NoSkill
  BY <1>4 DEF NoSkill
<1>6. \A m \in SkillNames \ {n} : writes'[m] = writes[m] /\ skill'[m] = skill[m]
  OBVIOUS
<1>7. QED
  BY <1>1, <1>2, <1>4, <1>5, <1>6 DEF Exists

\* So the rows' part is kept, when at most a writer that made version 1 is told so.
LEMMA StoringKeepsRows ==
  ASSUME RowsInv, NEW n \in SkillNames, NEW text, StoreText(n, text),
         creators' = creators \/ creators' = [creators EXCEPT ![n] = IF skill'[n].version = 1 THEN @ + 1 ELSE @]
  PROVE  /\ RowsInv'
         /\ \A m \in SkillNames : Exists(m) => Exists(m)'
<1>1. /\ DOMAIN skill' = SkillNames /\ writes' \in [SkillNames -> 0..WriteBound]
      /\ writes'[n] = writes[n] + 1 /\ skill'[n].version = writes[n] + 1 /\ Exists(n)'
      /\ \A m \in SkillNames \ {n} : writes'[m] = writes[m] /\ skill'[m] = skill[m]
  BY TextIsStored
<1>2. /\ creators' \in [SkillNames -> 0..1]
      /\ \A m \in SkillNames \ {n} : creators'[m] = creators[m]
  BY <1>1, SkillAssumption DEF RowsInv
<1>3. \A m \in SkillNames \ {n} : Exists(m)' <=> Exists(m)
  BY <1>1 DEF Exists, NoSkill
<1>4. QED
  BY <1>1, <1>2, <1>3, SkillAssumption DEF RowsInv

\* A seeding that does not move keeps its part while no built-in skill goes.
LEMMA SeedingStays ==
  ASSUME NEW s \in Seeders, Seeding(s), seeding'[s] = seeding[s],
         \A n \in BuiltInSkills : Exists(n) => Exists(n)'
  PROVE  Seeding(s)'
BY DEF Seeding, SeedAt

\* Every step keeps the invariant.
LEMMA SkillsInvStep == SkillsInv /\ [SkillsNext]_skillVars => SkillsInv'
<1> SUFFICES ASSUME SkillsInv, [SkillsNext]_skillVars PROVE SkillsInv'
  OBVIOUS
<1> USE SkillAssumption DEF SkillNames
<1>0. /\ RowsInv /\ ToolListInv
      /\ seeding \in [Seeders -> SeedStates] /\ \A s \in Seeders : Seeding(s)
  BY DEF SkillsInv
<1>1. ASSUME NEW n \in SkillNames, WriteSkill(n) PROVE SkillsInv'
  <2>1. RowsInv' /\ \A m \in SkillNames : Exists(m) => Exists(m)'
    BY <1>0, <1>1, StoringKeepsRows DEF WriteSkill
  <2>2. ToolListInv' /\ seeding' = seeding
    BY <1>0, <1>1 DEF WriteSkill, ToolListInv
  <2>3. QED
    BY <1>0, <2>1, <2>2, SeedingStays DEF SkillsInv
<1>2. ASSUME NEW n \in SkillNames, ReadSkill(n) PROVE SkillsInv'
  <2>1. ToolListInv'
    BY <1>0, <1>2 DEF ReadSkill, MergeTools, ToolListInv
  <2>2. RowsInv' /\ seeding' = seeding /\ \A m \in SkillNames : Exists(m)' <=> Exists(m)
    BY <1>0, <1>2 DEF ReadSkill, RowsInv, Exists
  <2>3. QED
    BY <1>0, <2>1, <2>2, SeedingStays DEF SkillsInv
<1>3. ASSUME NEW s \in Seeders, NEW to \in SeedStates, ToolListInv',
             seeding' = [seeding EXCEPT ![s] = to], Seeding(s)',
             RowsInv', \A m \in SkillNames : Exists(m) => Exists(m)'
      PROVE  SkillsInv'
  <2>1. seeding' \in [Seeders -> SeedStates]
    BY <1>0, <1>3
  <2>2. ASSUME NEW r \in Seeders \ {s} PROVE Seeding(r)'
    <3>1. seeding'[r] = seeding[r]
      BY <1>0, <1>3
    <3>2. QED
      BY <1>0, <1>3, <3>1, SeedingStays
  <2>3. QED
    BY <1>3, <2>1, <2>2 DEF SkillsInv
<1>4. ASSUME NEW s \in Seeders, StartSeed(s) PROVE SkillsInv'
  <2>1. RowsInv' /\ ToolListInv' /\ \A m \in SkillNames : Exists(m)' <=> Exists(m)
    BY <1>0, <1>4 DEF StartSeed, RowsInv, ToolListInv, Exists
  <2> DEFINE to == [seeding[s] EXCEPT !.at = IF BuiltInSkills = {} THEN "done" ELSE "look",
                                     !.todo = BuiltInSkills]
  <2>2. seeding' = [seeding EXCEPT ![s] = to] /\ to \in SeedStates
    BY <1>0, <1>4 DEF StartSeed, NextDefinition, SeedStates
  <2>3. Seeding(s)'
    BY <1>0, <2>2 DEF Seeding, SeedAt, SeedStates
  <2>4. QED
    BY <1>3, <2>1, <2>2, <2>3
<1>5. ASSUME NEW s \in Seeders, FindSkill(s) PROVE SkillsInv'
  <2>1. RowsInv' /\ ToolListInv' /\ \A m \in SkillNames : Exists(m)' <=> Exists(m)
    BY <1>0, <1>5 DEF FindSkill, RowsInv, ToolListInv, Exists
  <2>2. PICK n \in seeding[s].todo :
          IF skill[n].by = "seed" THEN NextDefinition(s, seeding[s].todo \ {n})
          ELSE seeding' = [seeding EXCEPT ![s].at = IF Exists(n) THEN "update" ELSE "create",
                                          ![s].todo = @ \ {n}, ![s].cur = n]
    BY <1>5 DEF FindSkill
  <2>3. seeding[s] \in SeedStates /\ n \in BuiltInSkills /\ seeding[s].at = "look"
    BY <1>0, <1>5, <2>2 DEF SeedStates, FindSkill, SeedAt
  <2> DEFINE left == seeding[s].todo \ {n}
  <2>4. CASE skill[n].by = "seed"
    <3> DEFINE to == [seeding[s] EXCEPT !.at = IF left = {} THEN "done" ELSE "look", !.todo = left]
    <3>1. seeding' = [seeding EXCEPT ![s] = to] /\ to \in SeedStates
      BY <1>0, <2>2, <2>3, <2>4 DEF NextDefinition, SeedStates
    <3>2. Exists(n)
      BY <2>4 DEF Exists, NoSkill
    <3>3. Seeding(s)'
      BY <1>0, <2>1, <2>3, <3>1, <3>2 DEF Seeding, SeedAt, SeedStates
    <3>4. QED
      BY <1>3, <2>1, <3>1, <3>3
  <2>5. CASE skill[n].by # "seed"
    <3> DEFINE to == [seeding[s] EXCEPT !.at = IF Exists(n) THEN "update" ELSE "create",
                                       !.todo = left, !.cur = n]
    <3>1. seeding' = [seeding EXCEPT ![s] = to] /\ to \in SeedStates
      BY <1>0, <2>2, <2>3, <2>5 DEF SeedStates
    <3>2. Seeding(s)'
      BY <1>0, <2>1, <2>3, <3>1 DEF Seeding, SeedAt, SeedStates
    <3>3. QED
      BY <1>3, <2>1, <3>1, <3>2
  <2>6. QED
    BY <2>4, <2>5
<1>6. ASSUME NEW s \in Seeders, UpdateSkill(s) \/ CreateSkill(s) PROVE SkillsInv'
  <2>1. /\ seeding[s] \in SeedStates /\ seeding[s].at \in {"update", "create"}
        /\ seeding[s].cur \in BuiltInSkills
        /\ StoreText(seeding[s].cur, Text("seed", FALSE))
        /\ NextDefinition(s, seeding[s].todo)
        /\ creators' = creators
    BY <1>0, <1>6 DEF UpdateSkill, CreateSkill, SeedAt, Seeding
  <2>2. RowsInv' /\ \A m \in SkillNames : Exists(m) => Exists(m)'
    BY <1>0, <2>1, StoringKeepsRows
  <2>3. skill'[seeding[s].cur] # NoSkill
    <3>1. ASSUME NEW n \in BuiltInSkills, StoreText(n, Text("seed", FALSE)) PROVE Exists(n)'
      BY <1>0, <3>1, TextIsStored
    <3>2. PICK n \in BuiltInSkills : n = seeding[s].cur
      BY <2>1
    <3>3. skill'[n] # NoSkill
      BY <2>1, <3>1, <3>2 DEF Exists
    <3>4. QED
      BY <3>2, <3>3
  <2>4. ToolListInv'
    BY <1>0, <1>6 DEF UpdateSkill, CreateSkill, ToolListInv
  <2> DEFINE to == [seeding[s] EXCEPT !.at = IF seeding[s].todo = {} THEN "done" ELSE "look",
                                     !.todo = seeding[s].todo]
  <2>5. seeding' = [seeding EXCEPT ![s] = to] /\ to \in SeedStates
    BY <1>0, <2>1 DEF NextDefinition, SeedStates
  <2>6. Seeding(s)'
    BY <1>0, <2>1, <2>2, <2>3, <2>5 DEF Seeding, SeedAt, SeedStates, Exists
  <2>7. QED
    BY <1>3, <2>2, <2>4, <2>5, <2>6
<1>7. ASSUME NEW s \in Seeders, RefuseSkill(s) PROVE SkillsInv'
  <2>1. RowsInv' /\ ToolListInv' /\ \A m \in SkillNames : Exists(m)' <=> Exists(m)
    BY <1>0, <1>7 DEF RefuseSkill, RowsInv, ToolListInv, Exists
  <2> DEFINE to == [seeding[s] EXCEPT !.at = "done", !.refused = TRUE]
  <2>2. seeding' = [seeding EXCEPT ![s] = to] /\ to \in SeedStates
    BY <1>0, <1>7 DEF RefuseSkill, SeedStates
  <2>3. Seeding(s)'
    BY <1>0, <2>2 DEF Seeding, SeedAt, SeedStates
  <2>4. QED
    BY <1>3, <2>1, <2>2, <2>3
<1>8. ASSUME NEW s \in Seeders, EndSeed(s) PROVE SkillsInv'
  <2>1. RowsInv' /\ ToolListInv' /\ \A m \in SkillNames : Exists(m)' <=> Exists(m)
    BY <1>0, <1>8 DEF EndSeed, RowsInv, ToolListInv, Exists
  <2>2. seeding' = [seeding EXCEPT ![s] = AtRest] /\ AtRest \in SeedStates
    BY <1>8 DEF EndSeed, AtRest, SeedStates
  <2>3. Seeding(s)'
    BY <1>0, <2>2 DEF Seeding, SeedAt, AtRest
  <2>4. QED
    BY <1>3, <2>1, <2>2, <2>3
<1>9. CASE ConnectApp
  <2>1. RowsInv' /\ \A m \in SkillNames : Exists(m) => Exists(m)'
    BY <1>0, <1>9, StoringKeepsRows DEF ConnectApp
  <2>2. ToolListInv' /\ seeding' = seeding
    BY <1>0, <1>9 DEF ConnectApp, ToolListInv
  <2>3. QED
    BY <1>0, <2>1, <2>2, SeedingStays DEF SkillsInv
<1>10. CASE DisconnectApp
  <2>1. ToolListInv' /\ seeding' = seeding
    BY <1>0, <1>10 DEF DisconnectApp, ToolListInv
  <2>2. RowsInv' /\ \A m \in BuiltInSkills : Exists(m) => Exists(m)'
    BY <1>0, <1>10 DEF DisconnectApp, RowsInv, Exists, NoSkill
  <2>3. QED
    BY <1>0, <2>1, <2>2, SeedingStays DEF SkillsInv
<1>11. CASE StartRun \/ FinishRun
  <2>1. ToolListInv' /\ seeding' = seeding
    <3>1. /\ active' = [t \in AppTools |-> 0] /\ loaded' = {} /\ connected' = connected
          /\ seeding' = seeding
      BY <1>11 DEF StartRun, FinishRun
    <3>2. runAt' = "none" \/ (runAt' = "working" /\ forsaken' = ~connected)
      BY <1>11 DEF StartRun, FinishRun
    <3>3. runAt' = "working" => connected' \/ forsaken'
      BY <3>1, <3>2
    <3>4. {connected, forsaken}' \subseteq BOOLEAN
      BY <1>0, <1>11 DEF StartRun, FinishRun, ToolListInv
    <3>5. QED
      BY <3>1, <3>2, <3>3, <3>4 DEF ToolListInv
  <2>2. RowsInv' /\ \A m \in SkillNames : Exists(m)' <=> Exists(m)
    BY <1>0, <1>11 DEF StartRun, FinishRun, RowsInv, Exists
  <2>3. QED
    BY <1>0, <2>1, <2>2, SeedingStays DEF SkillsInv
<1>12. CASE UNCHANGED skillVars
  BY <1>0, <1>12 DEF skillVars, SkillsInv, RowsInv, ToolListInv, Seeding, Exists, SeedAt
<1>13. QED
  BY <1>1, <1>2, <1>4, <1>5, <1>6, <1>7, <1>8, <1>9, <1>10, <1>11, <1>12
     DEF SkillsNext

\* Every variable keeps its type, versions count writes, tools are offered once and as
\* long as they are there, and a seeding that was not refused is complete.
THEOREM SkillsKept == SkillsSpec => [](SkillsTypeOK /\ SkillsAreKept)
BY SkillsInvInit, SkillsInvStep, SkillsInvSuffices, PTL DEF SkillsSpec

HIDE DEF rowVars, runVars
=============================================================================
