-------------------------- MODULE SlackConnections --------------------------
(***************************************************************************)
(* Which Slack client the bot uses for a workspace: ConnectionManager of   *)
(* apps/bot/src/slack/connection-manager.ts, the OAuth callback that       *)
(* installs a workspace (slack/oauth.ts), and the start and shutdown of    *)
(* the bot (apps/bot/src/index.ts), self-hosted and managed.               *)
(*                                                                         *)
(* Each installation brings a bot token of its own, known by the           *)
(* installation's name.  A managed bot serves HTTP, the callback and the   *)
(* events, before it has connected the workspaces it knows.                *)
(***************************************************************************)
EXTENDS Naturals, FiniteSets

CONSTANTS
  Teams,
  Installs,      \* passes through the OAuth callback
  TeamOf,        \* the team of each installation
  Hostings,      \* the deployment modes explored: "selfHosted", "managed"
  LinkEvents,    \* "callFails", "restart"
  RestartBound   \* bound on the restarts explored

ASSUME LinkAssumption ==
  /\ Teams # {} /\ TeamOf \in [Installs -> Teams]
  /\ IsFiniteSet(Installs) /\ {"none", "SLACK_BOT_TOKEN"} \cap Installs = {}
  /\ Hostings \subseteq {"selfHosted", "managed"}
  /\ LinkEvents \subseteq {"callFails", "restart"}
  /\ RestartBound \in Nat

NoToken  == "none"
EnvToken == "SLACK_BOT_TOKEN"
Tokens   == Installs \cup {EnvToken}

VARIABLES
  hosting,    \* DEPLOYMENT_MODE
  phase,      \* how far main() has come
  teamRows,   \* the token of each workspace row
  connections,\* the token of each team's connection
  snapshot,   \* the rows connectAll has read and not connected yet
  callback,   \* the await each installation is suspended at
  guests,     \* self-hosted: handlers of first events, "find", "create"
  interlaced, \* teams two of whose writers met: installations, or one and connectAll
  unheard,    \* teams one of whose events, or presses of a button, was dropped
  restarts

linkVars == <<hosting, phase, teamRows, connections, snapshot, callback, guests,
              interlaced, unheard, restarts>>
world == <<hosting, unheard, restarts>>
-----------------------------------------------------------------------------
EmptyMap == [t \in Teams |-> NoToken]
HomeTeam == CHOOSE t \in Teams : TRUE

LinkInit ==
  /\ hosting \in Hostings
  /\ phase       = "down"
  /\ teamRows    = EmptyMap
  /\ connections = EmptyMap
  /\ snapshot    = EmptyMap
  /\ callback    = [i \in Installs |-> "idle"]
  /\ guests      = "idle"
  /\ interlaced  = {}
  /\ unheard     = {}
  /\ restarts    = 0

Phase(from, to) == phase = from /\ phase' = to

Serving == phase \in {"serving", "listing", "connecting", "up"}

\* Installations of a team that have the row's token or are about to write it.
AtWork(t)  == {i \in Installs : TeamOf[i] = t /\ callback[i] \in {"upsert", "connect"}}
Meeting(t) == Cardinality(AtWork(t)) > 1 \/ (AtWork(t) # {} /\ phase \in {"listing", "connecting"})
NoteMeetings == interlaced' = interlaced \cup {t \in Teams : Meeting(t)'}
-----------------------------------------------------------------------------
(* main: the server, then connectAll or the one Bolt app.                  *)

Serve ==
  /\ Phase("down", "serving")
  /\ UNCHANGED <<world, teamRows, connections, snapshot, callback, guests, interlaced>>

ListWorkspaces ==
  /\ hosting = "managed"
  /\ Phase("serving", "listing")
  /\ UNCHANGED <<world, teamRows, connections, snapshot, callback, guests>>
  /\ NoteMeetings

\* Its rows, in the database's order; nothing is awaited but the clients' start.
ReadWorkspaces ==
  /\ Phase("listing", "connecting")
  /\ snapshot' = teamRows
  /\ UNCHANGED <<world, teamRows, connections, callback, guests>>
  /\ NoteMeetings

\* connect: an earlier connection is stopped first.
ConnectAll ==
  /\ Phase("connecting", "up")
  /\ connections' = [t \in Teams |-> IF snapshot[t] = NoToken THEN connections[t] ELSE snapshot[t]]
  /\ snapshot' = EmptyMap
  /\ UNCHANGED <<world, teamRows, callback, guests, interlaced>>

\* Self-hosted: the Bolt app hears events; then resolveWorkspace finds the row
\* or creates it, and registerExisting.
StartApp ==
  /\ hosting = "selfHosted"
  /\ Phase("serving", "resolving")
  /\ UNCHANGED <<world, teamRows, connections, snapshot, callback, guests, interlaced>>

FindOwnWorkspace ==
  /\ Phase("resolving", IF teamRows[HomeTeam] = NoToken THEN "creating" ELSE "registering")
  /\ UNCHANGED <<world, teamRows, connections, snapshot, callback, guests, interlaced>>

\* The second creation is refused, and main() exits.
CreateOwnWorkspace ==
  /\ IF teamRows[HomeTeam] = NoToken
       THEN /\ Phase("creating", "registering")
            /\ teamRows' = [teamRows EXCEPT ![HomeTeam] = EnvToken]
       ELSE /\ Phase("creating", "fatal")
            /\ teamRows' = teamRows
  /\ UNCHANGED <<world, connections, snapshot, callback, guests, interlaced>>

RegisterExisting ==
  /\ Phase("registering", "up")
  /\ connections' = [connections EXCEPT ![HomeTeam] = EnvToken]
  /\ UNCHANGED <<world, teamRows, snapshot, callback, guests, interlaced>>

\* The first event's handler does the same.
FirstEvent ==
  /\ hosting = "selfHosted" /\ phase \notin {"down", "serving", "fatal"}
  /\ guests = "idle"
  /\ guests' = IF teamRows[HomeTeam] = NoToken THEN "create" ELSE "done"
  /\ UNCHANGED <<world, phase, teamRows, connections, snapshot, callback, interlaced>>

CreateForEvent ==
  /\ guests = "create"
  /\ guests' = IF teamRows[HomeTeam] = NoToken THEN "done" ELSE "refused"
  /\ teamRows' = [teamRows EXCEPT ![HomeTeam] = IF @ = NoToken THEN EnvToken ELSE @]
  /\ UNCHANGED <<world, phase, connections, snapshot, callback, interlaced>>

\* SIGTERM, which disconnects everything, or a crash; then main() again.
RestartBot ==
  /\ "restart" \in LinkEvents /\ restarts < RestartBound
  /\ phase # "down"
  /\ phase' = "down"
  /\ restarts' = restarts + 1
  /\ connections' = EmptyMap /\ snapshot' = EmptyMap
  /\ callback' = [i \in Installs |-> IF callback[i] = "idle" THEN "idle" ELSE
                                     IF callback[i] = "done" THEN "done" ELSE "failed"]
  /\ guests' = "idle"
  /\ UNCHANGED <<hosting, teamRows, interlaced, unheard>>
-----------------------------------------------------------------------------
(* handleCallback: exchange, upsert, connect, then member and onInstall.    *)

Callback(i, from, to) == callback[i] = from /\ callback' = [callback EXCEPT ![i] = to]

ExchangeCode(i) ==
  /\ hosting = "managed" /\ Serving
  /\ Callback(i, "idle", "upsert")
  /\ UNCHANGED <<world, phase, teamRows, connections, snapshot, guests>>
  /\ NoteMeetings

UpsertWorkspace(i) ==
  /\ Callback(i, "upsert", "connect")
  /\ teamRows' = [teamRows EXCEPT ![TeamOf[i]] = i]
  /\ UNCHANGED <<world, phase, connections, snapshot, guests, interlaced>>

\* Mutant: a connection the team has is kept.
ConnectUnlessConnected(i) ==
  /\ Callback(i, "connect", "member")
  /\ connections' = [connections EXCEPT ![TeamOf[i]] = IF @ = NoToken THEN i ELSE @]
  /\ UNCHANGED <<world, phase, teamRows, snapshot, guests, interlaced>>

\* With the row as its own upsert has returned it.
ConnectInstalled(i) ==
  /\ Callback(i, "connect", "member")
  /\ connections' = [connections EXCEPT ![TeamOf[i]] = i]
  /\ UNCHANGED <<world, phase, teamRows, snapshot, guests, interlaced>>

FinishInstall(i) ==
  /\ Callback(i, "member", "done")
  /\ UNCHANGED <<world, phase, teamRows, connections, snapshot, guests, interlaced>>

\* The one catch block: "Installation failed", whatever was done.
InstallationFails(i) ==
  /\ "callFails" \in LinkEvents
  /\ callback[i] \in {"upsert", "member"}
  /\ callback' = [callback EXCEPT ![i] = "failed"]
  /\ UNCHANGED <<world, phase, teamRows, connections, snapshot, guests, interlaced>>
-----------------------------------------------------------------------------
(* A request of Slack for a team without a connection is answered OK all the same,
   and not made again.                                                        *)

Unanswered(t, what) ==
  /\ hosting = "managed" /\ Serving
  /\ connections[t] = NoToken
  /\ unheard' = unheard \cup {<<t, what>>}
  /\ UNCHANGED <<hosting, phase, teamRows, connections, snapshot, callback, guests,
                 interlaced, restarts>>

\* handleEventsRequest.
DropEvent(t) == Unanswered(t, "event")

\* handleInteractionsRequest: a run that waits for the press waits in vain.
DropPress(t) == Unanswered(t, "press")
-----------------------------------------------------------------------------
InstallStepOf(i) ==
  ExchangeCode(i) \/ UpsertWorkspace(i) \/ ConnectInstalled(i) \/ FinishInstall(i)

StartupStep ==
  \/ Serve \/ ListWorkspaces \/ ReadWorkspaces \/ ConnectAll
  \/ StartApp \/ FindOwnWorkspace \/ CreateOwnWorkspace \/ RegisterExisting

LinkNext ==
  \/ StartupStep
  \/ FirstEvent \/ CreateForEvent
  \/ \E i \in Installs : InstallStepOf(i) \/ InstallationFails(i)
  \/ \E t \in Teams : DropEvent(t) \/ DropPress(t)
  \/ RestartBot

LinkSpec == LinkInit /\ [][LinkNext]_linkVars
-----------------------------------------------------------------------------
(* Properties.                                                             *)

LinkTypeOK ==
  /\ hosting \in Hostings
  /\ phase \in {"down", "serving", "listing", "connecting", "resolving", "creating",
                "registering", "up", "fatal"}
  /\ {teamRows, connections, snapshot} \subseteq [Teams -> Tokens \cup {NoToken}]
  /\ callback \in [Installs -> {"idle", "upsert", "connect", "member", "done", "failed"}]
  /\ guests \in {"idle", "create", "done", "refused"}
  /\ interlaced \subseteq Teams /\ unheard \subseteq Teams \X {"event", "press"}
  /\ restarts \in 0..RestartBound

\* The bot speaks with the token of the latest installation, unless two
\* installations of the team met, or one and the start of the bot: the row and
\* the connection are not written in one step (oauth.ts:150-175).
StaleTokenExplained ==
  \A t \in Teams :
    (phase = "up" /\ AtWork(t) = {} /\ connections[t] # teamRows[t]) => t \in interlaced

\* A workspace that has a row is connected once the bot is up, also after an
\* installation that failed, or was cut off by a restart, halfway.
KnownTeamsAreConnected ==
  \A t \in Teams :
    (phase = "up" /\ AtWork(t) = {} /\ teamRows[t] # NoToken) => connections[t] # NoToken

\* An event or a press from a workspace that is stored is dropped only while the bot
\* starts or while the installation has not connected it yet (events-api.ts:71, 119).
DroppedEventExplained ==
  [][\A t \in Teams, what \in {"event", "press"} :
       <<t, what>> \in unheard' \ unheard /\ teamRows[t] # NoToken =>
         phase # "up" \/ AtWork(t) # {}]_linkVars

\* The bot refuses to start only when the handler of a first event has created
\* the workspace between its own two queries (resolve.ts:27, index.ts:1112), and
\* starts with the same row the next time.
FatalStartExplained ==
  phase = "fatal" => guests = "done" /\ teamRows[HomeTeam] # NoToken

\* The connections are those of the stored workspaces, through installations that
\* fail, meet and are cut off; every exception is one of those above.
ConnectionsFollowRows ==
  StaleTokenExplained /\ KnownTeamsAreConnected /\ FatalStartExplained
=============================================================================
