--------------------------- MODULE ConfigPatcher ---------------------------
(***************************************************************************)
(* The daemon's changes to the agents' config files                         *)
(* (proxy/internal/config/patcher.go and its calls in cmd/spektr/main.go).  *)
(*                                                                         *)
(* Every run of the daemon is a session with a backup directory of its own. *)
(* It copies each config there, wraps the servers of the config in its      *)
(* spektr-proxy, and puts the copy back when it is told to stop.  It may    *)
(* also fail while starting, after the configs are patched, or be killed,   *)
(* at any step.  The agent, or its user, edits the same files meanwhile.    *)
(*                                                                         *)
(* One daemon at a time: the desktop waits for the daemon it started        *)
(* (desktop/src-tauri/src/lib.rs) before it ends.  A config is the command   *)
(* of each of its servers, the number of the last edit in it, and whether   *)
(* it parses.  A command is the server itself or the path of a proxy, which *)
(* comes with the session and need not be that of the session before; what  *)
(* is inside a wrapper is in its arguments and is left out.  The temporary  *)
(* file of atomicWriteFile is never read, so only its open and its rename   *)
(* are told apart.                                                          *)
(***************************************************************************)
EXTENDS Integers, FiniteSets

CONSTANTS
  Agents,       \* the supported agents
  Names,        \* names of MCP servers
  Paths,        \* where a spektr-proxy may be
  NoPath,       \* no proxy, or nowhere to back up to
  Direct,       \* the command of a server that is not wrapped
  Gone,         \* no such file
  Torn,         \* a file that was not written to its end
  MaxSessions,  \* bound: runs of the daemon
  MaxEdits      \* bound: edits by the agents

ASSUME PatcherAssumption ==
  /\ MaxSessions \in Nat
  /\ MaxEdits \in Nat

VARIABLES
  file,         \* the config file of each agent
  backup,       \* for every session, its copy of each config
  session,      \* number of the current or last session
  proxyBinPath, \* its spektr-proxy
  phase,        \* what the daemon does: "off" when there is none
  step,         \* where it is in PatchAgent or RestoreAgent
  todo,         \* agents that the loop over DetectAgents has not reached
  agent,        \* the one it has reached
  held,         \* the contents in memory
  edits,        \* edits made so far
  atStart,      \* history: each file's last edit when the session started
  orderly       \* history: no crash, failed start or failed write so far

daemonVars == <<session, proxyBinPath, phase, step, todo, agent, held>>
vars == <<file, backup, daemonVars, edits, atStart, orderly>>

Sessions == 1 .. MaxSessions
Commands == Paths \cup {Direct}
Configs  == [servers : UNION {[S -> Commands] : S \in SUBSET Names},
             edit : 0 .. MaxEdits, valid : BOOLEAN]
Files    == Configs \cup {Gone, Torn}

ASSUME FilesAssumption ==
  /\ Gone # Torn
  /\ NoPath \notin Paths /\ Direct \notin Paths
  /\ Gone \notin Configs /\ Torn \notin Configs

Wrapped(f) ==
  IF f \in {Gone, Torn} THEN {} ELSE {n \in DOMAIN f.servers : f.servers[n] # Direct}

DirectIn(n, f) == f \notin {Gone, Torn} /\ n \in DOMAIN f.servers /\ f.servers[n] = Direct

LastEdit(f) == IF f \in {Gone, Torn} THEN 0 ELSE f.edit

TypeOK ==
  /\ file \in [Agents -> Files]
  /\ backup \in [Sessions -> [Agents -> Files]]
  /\ session \in 0 .. MaxSessions
  /\ proxyBinPath \in Paths \cup {NoPath}
  /\ phase \in {"off", "patch", "starting", "ready", "restore"}
  /\ step \in {"next", "backup", "saving", "wrap", "open", "rename"}
  /\ todo \subseteq Agents
  /\ step # "next" => agent \in Agents /\ held \in Files \ {Gone}
  /\ edits \in 0 .. MaxEdits
  /\ atStart \in [Agents -> 0 .. MaxEdits]
  /\ orderly \in BOOLEAN

Init ==
  /\ file \in [Agents -> {Gone} \cup
       {[servers |-> [n \in S |-> Direct], edit |-> 0, valid |-> TRUE] : S \in SUBSET Names}]
  /\ backup = [s \in Sessions |-> [a \in Agents |-> Gone]]
  /\ session = 0 /\ proxyBinPath = NoPath /\ phase = "off" /\ step = "next"
  /\ todo = {} /\ agent = Gone /\ held = Gone
  /\ edits = 0 /\ atStart = [a \in Agents |-> 0]
  /\ orderly = TRUE

DetectAgents == {a \in Agents : file[a] # Gone}

(* Mutant: one backup directory for all sessions.                           *)
BackupDirShared(s) == 1

(* backupDirForSession.                                                     *)
BackupDir(s) == s

Saved(a) == backup[BackupDir(session)][a]
Save(a, f) == backup' = [backup EXCEPT ![BackupDir(session)][a] = f]

(* Back to the loop over the agents, with nothing in hand.                  *)
NextAgent == step' = "next" /\ agent' = Gone /\ held' = Gone

-----------------------------------------------------------------------------
(* Starting: main up to the call of PatchAgent for each detected agent.     *)

(* Without a proxy path, a home or a backup directory nothing is patched.   *)
Start ==
  /\ phase = "off"
  /\ session < MaxSessions
  /\ session' = session + 1
  /\ \/ phase' = "patch" /\ todo' = DetectAgents /\ proxyBinPath' \in Paths
     \/ phase' = "starting" /\ todo' = {} /\ proxyBinPath' = NoPath
  /\ atStart' = [a \in Agents |-> LastEdit(file[a])]
  /\ UNCHANGED <<file, backup, step, agent, held, edits, orderly>>

(* The original is read; a config that cannot be read is passed over.       *)
ReadConfig(a) ==
  /\ phase = "patch" /\ step = "next"
  /\ a \in todo
  /\ todo' = todo \ {a}
  /\ \/ /\ file[a] # Gone
        /\ step' = "backup" /\ agent' = a /\ held' = file[a]
     \/ UNCHANGED <<step, agent, held>>
  /\ UNCHANGED <<file, backup, session, proxyBinPath, phase, edits, atStart, orderly>>

(* os.WriteFile of the backup: it creates or truncates, then writes.        *)
OpenBackup ==
  /\ step = "backup"
  /\ Save(agent, Torn)
  /\ step' = "saving"
  /\ UNCHANGED <<file, session, proxyBinPath, phase, todo, agent, held, edits, atStart,
                 orderly>>

WriteBackup ==
  /\ step = "saving"
  /\ Save(agent, held)
  /\ step' = "wrap"
  /\ UNCHANGED <<file, session, proxyBinPath, phase, todo, agent, held, edits, atStart,
                 orderly>>

(* Mutant: the config is patched although its backup failed.                *)
BackupFailsIgnored ==
  /\ step \in {"backup", "saving"}
  /\ step' = "wrap"
  /\ orderly' = FALSE
  /\ UNCHANGED <<file, backup, session, proxyBinPath, phase, todo, agent, held, edits,
                 atStart>>

(* The backup cannot be written, or not to its end: the agent is passed     *)
(* over, what was written of the backup stays.                              *)
BackupFails ==
  /\ step \in {"backup", "saving"}
  /\ NextAgent
  /\ orderly' = FALSE
  /\ UNCHANGED <<file, backup, session, proxyBinPath, phase, todo, edits, atStart>>

(* wrapJSONServers, patchTOMLConfig: every server gets this session's proxy   *)
(* for its command; one that has it already stays as it is, one that has    *)
(* another session's is wrapped again.                                      *)
Wrap(c) == [c EXCEPT !.servers = [n \in DOMAIN c.servers |-> proxyBinPath]]

(* The number of servers that were patched is not 0.                        *)
Patchable(f) ==
  f # Torn /\ f.valid /\ \E n \in DOMAIN f.servers : f.servers[n] # proxyBinPath

(* patchConfig; without a server to wrap, or with a config that does not    *)
(* parse, the file is left alone.                                           *)
PatchConfig ==
  /\ step = "wrap"
  /\ \/ /\ Patchable(held)
        /\ held' = Wrap(held)
        /\ step' = "open"
        /\ UNCHANGED agent
     \/ /\ ~Patchable(held)
        /\ NextAgent
  /\ UNCHANGED <<file, backup, session, proxyBinPath, phase, todo, edits, atStart, orderly>>

-----------------------------------------------------------------------------
(* atomicWriteFile, for PatchAgent and RestoreAgent.                        *)

(* Mutant: the file itself is truncated and written.                        *)
OpenTempInPlace ==
  /\ step = "open"
  /\ step' = "rename"
  /\ file' = [file EXCEPT ![agent] = Torn]
  /\ UNCHANGED <<backup, session, proxyBinPath, phase, todo, agent, held, edits, atStart,
                 orderly>>

(* The temporary file is created or truncated, and written.                 *)
OpenTemp ==
  /\ step = "open"
  /\ step' = "rename"
  /\ UNCHANGED <<file, backup, session, proxyBinPath, phase, todo, agent, held, edits,
                 atStart, orderly>>

Rename ==
  /\ step = "rename"
  /\ file' = [file EXCEPT ![agent] = held]
  /\ NextAgent
  /\ UNCHANGED <<backup, session, proxyBinPath, phase, todo, edits, atStart, orderly>>

WriteFails ==
  /\ step \in {"open", "rename"}
  /\ NextAgent
  /\ orderly' = FALSE
  /\ UNCHANGED <<file, backup, session, proxyBinPath, phase, todo, edits, atStart>>

-----------------------------------------------------------------------------
(* From the last agent to the ready signal, and the orderly stop.           *)

AllPatched ==
  /\ phase = "patch" /\ step = "next" /\ todo = {}
  /\ phase' = "starting"
  /\ UNCHANGED <<file, backup, session, proxyBinPath, step, todo, agent, held, edits,
                 atStart, orderly>>

Ready ==
  /\ phase = "starting"
  /\ phase' = "ready"
  /\ UNCHANGED <<file, backup, session, proxyBinPath, step, todo, agent, held, edits,
                 atStart, orderly>>

(* os.Exit(1): the socket cannot be removed or listened on, or stdout is    *)
(* closed.  The configs stay as they are.                                   *)
StartupFails ==
  /\ phase = "starting"
  /\ phase' = "off"
  /\ orderly' = FALSE
  /\ UNCHANGED <<file, backup, session, proxyBinPath, step, todo, agent, held, edits,
                 atStart>>

Stop ==
  /\ phase = "ready"
  /\ phase' = "restore"
  /\ todo' = DetectAgents
  /\ UNCHANGED <<file, backup, session, proxyBinPath, step, agent, held, edits, atStart,
                 orderly>>

(* Mutant: a config that was edited since is not put back.                  *)
RestoreUnlessEdited(a) ==
  /\ phase = "restore" /\ step = "next"
  /\ a \in todo
  /\ todo' = todo \ {a}
  /\ IF LastEdit(file[a]) <= atStart[a] /\ Saved(a) # Gone
     THEN step' = "open" /\ agent' = a /\ held' = Saved(a)
     ELSE UNCHANGED <<step, agent, held>>
  /\ UNCHANGED <<file, backup, session, proxyBinPath, phase, edits, atStart, orderly>>

(* An agent without a backup is passed over.                                *)
RestoreAgent(a) ==
  /\ phase = "restore" /\ step = "next"
  /\ a \in todo
  /\ todo' = todo \ {a}
  /\ \/ /\ Saved(a) # Gone
        /\ step' = "open" /\ agent' = a /\ held' = Saved(a)
        /\ UNCHANGED orderly
     \/ /\ Saved(a) = Gone
        /\ UNCHANGED <<step, agent, held, orderly>>
     \/ /\ Saved(a) # Gone   \* it cannot be read
        /\ orderly' = FALSE
        /\ UNCHANGED <<step, agent, held>>
  /\ UNCHANGED <<file, backup, session, proxyBinPath, phase, edits, atStart>>

(* What main does after the loop leaves the configs alone.                  *)
AllRestored ==
  /\ phase = "restore" /\ step = "next" /\ todo = {}
  /\ phase' = "off"
  /\ UNCHANGED <<file, backup, session, proxyBinPath, step, todo, agent, held, edits,
                 atStart, orderly>>

-----------------------------------------------------------------------------

(* SIGKILL or a panic, between any two steps.  What was written before stays: *)
(* nothing is synced, so this is not the machine going down.                *)
Crash ==
  /\ phase # "off"
  /\ phase' = "off" /\ todo' = {}
  /\ NextAgent
  /\ orderly' = FALSE
  /\ UNCHANGED <<file, backup, session, proxyBinPath, edits, atStart>>

(* The agent or its user writes a server entry that runs the server itself, *)
(* into a config that may parse or not.                                     *)
Edit(a) ==
  /\ file[a] \notin {Gone, Torn}
  /\ edits < MaxEdits
  /\ edits' = edits + 1
  /\ \E n \in Names, v \in BOOLEAN :
       file' = [file EXCEPT ![a] =
         [servers |-> [m \in DOMAIN @.servers \cup {n} |-> IF m = n THEN Direct ELSE @.servers[m]],
          edit |-> edits + 1, valid |-> v]]
  /\ UNCHANGED <<backup, daemonVars, atStart, orderly>>

Remove(a) ==
  /\ file[a] # Gone
  /\ file' = [file EXCEPT ![a] = Gone]
  /\ UNCHANGED <<backup, daemonVars, edits, atStart, orderly>>

PatchNext   == (\E a \in Agents : ReadConfig(a)) \/ OpenBackup \/ WriteBackup \/ BackupFails
                 \/ PatchConfig \/ AllPatched
WriteNext   == OpenTemp \/ Rename \/ WriteFails
RestoreNext == (\E a \in Agents : RestoreAgent(a)) \/ AllRestored
AgentNext   == \E a \in Agents : Edit(a) \/ Remove(a)

Next ==
  \/ Start \/ PatchNext \/ WriteNext
  \/ Ready \/ StartupFails \/ Stop \/ RestoreNext
  \/ Crash
  \/ AgentNext

Spec == Init /\ [][Next]_vars

-----------------------------------------------------------------------------

(* While a server is wrapped, some session's backup still holds, complete,  *)
(* a config in which it runs itself: no crash and no later session destroys *)
(* the last copy.                                                           *)
PatchedIsRecoverable ==
  \A a \in Agents : \A n \in Wrapped(file[a]) :
    \E s \in Sessions : DirectIn(n, backup[s][a])

(* A config is damaged only by the restoration of a damaged backup: no      *)
(* crash, no failed write and no concurrent edit leaves half a config.      *)
TornOnlyByBackup ==
  \A a \in Agents : file[a] = Torn => \E s \in Sessions : backup[s][a] = Torn

(* A session never takes a config back to before its own start: the edits   *)
(* it may lose are those made while it runs.                                *)
NoStaleRestore ==
  phase # "off" => \A a \in Agents :
    file[a] \notin {Gone, Torn} => file[a].edit >= atStart[a]

(* As long as every session stopped in order and every write succeeded, no  *)
(* server is left wrapped when the daemon is gone, whatever was edited.     *)
OrderlyStopUnwraps ==
  orderly /\ phase = "off" => \A a \in Agents : Wrapped(file[a]) = {}

(* What makes the first three inductive: whatever the daemon holds or has backed *)
(* up is as sound as the files are, a config is wrapped only when its       *)
(* backup is complete, and a backup is begun where there was none.          *)
Recoverable(f, a) == \A n \in Wrapped(f) : \E s \in Sessions : DirectIn(n, backup[s][a])

Sound(f, a) == Recoverable(f, a) /\ LastEdit(f) <= edits

Fresh(f, a) == f \notin {Gone, Torn} => f.edit >= atStart[a]

(* A damaged backup of the agent that is not one just being written.        *)
DamagedBackup(a) ==
  \E s \in Sessions :
    /\ backup[s][a] = Torn
    /\ ~(step = "saving" /\ a = agent /\ s = session)

FilesInv ==
  \A a \in Agents :
    /\ Sound(file[a], a)
    /\ file[a] = Torn => DamagedBackup(a)
    /\ phase # "off" => Fresh(file[a], a)
    /\ atStart[a] <= edits

BackupsInv ==
  \A s \in Sessions, a \in Agents :
    /\ Sound(backup[s][a], a)
    /\ s > session => backup[s][a] = Gone
    /\ s = session /\ phase # "off" => Fresh(backup[s][a], a)

HeldInv ==
  step # "next" =>
    /\ Sound(held, agent)
    /\ Fresh(held, agent)
    /\ held = Torn => DamagedBackup(agent)

ControlInv ==
  /\ phase # "off" => session \in Sessions
  /\ step \in {"backup", "saving", "wrap"} => phase = "patch"
  /\ phase = "patch" => proxyBinPath \in Paths
  /\ step # "next" => phase \in {"patch", "restore"} /\ agent \notin todo
  /\ phase = "patch" => \A a \in todo : backup[session][a] = Gone
  /\ step = "backup" => backup[session][agent] = Gone
  /\ step = "saving" => backup[session][agent] = Torn
  /\ step = "wrap" => backup[session][agent] = held

IndInv == TypeOK /\ FilesInv /\ BackupsInv /\ HeldInv /\ ControlInv
=============================================================================
