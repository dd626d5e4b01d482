----------------------- MODULE ConfigPatcherProofs -----------------------
(* Theorems about ConfigPatcher, for any agents, servers and bounds.        *)
EXTENDS ConfigPatcher, TLAPS

-----------------------------------------------------------------------------
(* Contents of files.                                                       *)

LEMMA FileCases ==
  ASSUME NEW f \in Files
  PROVE  /\ f \in {Gone, Torn} <=> f \notin Configs
         /\ Gone # Torn
         /\ f \in Configs =>
              /\ DOMAIN f.servers \in SUBSET Names
              /\ f.servers \in [DOMAIN f.servers -> Commands]
              /\ f.edit \in 0 .. MaxEdits /\ f.valid \in BOOLEAN
  BY FilesAssumption DEF Files, Configs

LEMMA MakeConfig ==
  ASSUME NEW S \in SUBSET Names, NEW g \in [S -> Commands],
         NEW e \in 0 .. MaxEdits, NEW v \in BOOLEAN
  PROVE  [servers |-> g, edit |-> e, valid |-> v] \in Configs
  BY DEF Configs

LEMMA LastEditType ==
  ASSUME NEW f \in Files
  PROVE  LastEdit(f) \in 0 .. MaxEdits
  BY FileCases, PatcherAssumption DEF LastEdit

(* Nothing is wrapped, direct or edited in a missing or a damaged file.     *)
LEMMA Empty ==
  ASSUME NEW f \in {Gone, Torn}, NEW a, TypeOK
  PROVE  Sound(f, a) /\ Fresh(f, a)
  BY DEF TypeOK, Sound, Recoverable, Wrapped, LastEdit, Fresh

(* Wrapping: the same servers, each with a wrapper.                         *)
LEMMA WrapFacts ==
  ASSUME NEW c \in Configs, proxyBinPath \in Paths
  PROVE  /\ Wrap(c) \in Configs
         /\ Wrap(c).edit = c.edit
         /\ \A n \in Wrapped(Wrap(c)) : n \in Wrapped(c) \/ DirectIn(n, c)
<1> DEFINE g == [n \in DOMAIN c.servers |-> proxyBinPath]
<1>1. /\ DOMAIN c.servers \in SUBSET Names
      /\ c.edit \in 0 .. MaxEdits /\ c.valid \in BOOLEAN
      /\ c \notin {Gone, Torn}
  BY FileCases DEF Files
<1>2. Wrap(c) = [servers |-> g, edit |-> c.edit, valid |-> c.valid]
  BY DEF Wrap, Configs
<1>3. g \in [DOMAIN c.servers -> Commands] BY DEF Commands
<1>4. Wrap(c) \in Configs BY <1>1, <1>2, <1>3, MakeConfig
<1>5. Wrap(c).servers = g /\ Wrap(c).edit = c.edit BY <1>2
<1>6. Wrap(c) \notin {Gone, Torn} BY <1>4, FileCases DEF Files
<1>7. \A n \in Wrapped(Wrap(c)) : n \in Wrapped(c) \/ DirectIn(n, c)
  BY <1>1, <1>5, <1>6 DEF Wrapped, DirectIn
<1>8. QED BY <1>4, <1>5, <1>7

-----------------------------------------------------------------------------
(* What a step keeps.                                                       *)

(* No complete backup is changed.                                           *)
BackupsGrow == \A s \in Sessions, a \in Agents :
  backup[s][a] \in Configs => backup'[s][a] = backup[s][a]

(* Sound contents stay sound while backups and edits only grow.             *)
SoundNext(f, a) ==
  /\ \A n \in Wrapped(f) : \E s \in Sessions : DirectIn(n, backup'[s][a])
  /\ LastEdit(f) <= edits'

LEMMA SoundKept ==
  ASSUME NEW f \in Files, NEW a \in Agents, Sound(f, a), TypeOK,
         BackupsGrow, edits' \in Nat, edits <= edits'
  PROVE  SoundNext(f, a)
<1>1. LastEdit(f) <= edits'
  BY LastEditType, PatcherAssumption DEF TypeOK, Sound
<1>2. ASSUME NEW n \in Wrapped(f) PROVE \E s \in Sessions : DirectIn(n, backup'[s][a])
  <2>1. PICK s \in Sessions : DirectIn(n, backup[s][a])
    BY <1>2 DEF Sound, Recoverable
  <2>2. backup[s][a] \in Configs
    BY <2>1, FileCases DEF TypeOK, DirectIn, Files
  <2>3. backup'[s][a] = backup[s][a] BY <2>2 DEF BackupsGrow
  <2>4. QED BY <2>1, <2>3
<1>3. QED BY <1>1, <1>2 DEF Sound, SoundNext

(* Steps that change only what the daemon is doing.                         *)
LEMMA DaemonStep ==
  ASSUME IndInv, UNCHANGED <<file, backup, session, proxyBinPath, edits, atStart>>,
         phase' # "off" => phase # "off",
         step' # "saving"
  PROVE  /\ FilesInv' /\ BackupsInv'
         /\ \A a \in Agents : DamagedBackup(a) => DamagedBackup(a)'
         /\ \A f, a : (Sound(f, a) => SoundNext(f, a))
<1>1. \A a \in Agents : DamagedBackup(a) => DamagedBackup(a)'
  BY DEF DamagedBackup
<1>2. FilesInv'
  BY <1>1 DEF IndInv, FilesInv, Sound, Recoverable, Fresh
<1>3. BackupsInv'
  BY DEF IndInv, BackupsInv, Sound, Recoverable, Fresh
<1>4. \A f, a : Sound(f, a) => SoundNext(f, a)
  BY DEF Sound, SoundNext, Recoverable
<1>5. QED BY <1>1, <1>2, <1>3, <1>4

LEMMA NextAgentFacts ==
  ASSUME NextAgent PROVE HeldInv'
  BY DEF NextAgent, HeldInv

-----------------------------------------------------------------------------
(* Before any daemon has run every file is one of its user.                 *)
THEOREM InitInd == Init => IndInv
<1> SUFFICES ASSUME Init PROVE IndInv OBVIOUS
<1>1. ASSUME NEW a \in Agents
      PROVE  /\ file[a] \in Files /\ file[a] # Torn
             /\ Wrapped(file[a]) = {} /\ LastEdit(file[a]) = 0
             /\ Fresh(file[a], a)
  <2>1. CASE file[a] = Gone
    BY <2>1, FilesAssumption DEF Files, Wrapped, LastEdit, Fresh
  <2>2. CASE file[a] # Gone
    <3>1. PICK S \in SUBSET Names :
            file[a] = [servers |-> [n \in S |-> Direct], edit |-> 0, valid |-> TRUE]
      BY <2>2, <1>1 DEF Init
    <3>2. [n \in S |-> Direct] \in [S -> Commands] /\ 0 \in 0 .. MaxEdits
      BY PatcherAssumption DEF Commands
    <3>3. file[a] \in Configs BY <3>1, <3>2, MakeConfig
    <3>4. file[a] \notin {Gone, Torn} BY <3>3, FilesAssumption
    <3>5. /\ file[a].servers = [n \in S |-> Direct] /\ file[a].edit = 0
      BY <3>1
    <3>6. atStart[a] = 0 BY <1>1 DEF Init
    <3>7. QED BY <3>3, <3>4, <3>5, <3>6 DEF Files, Wrapped, LastEdit, Fresh
  <2>3. QED BY <2>1, <2>2
<1>2. TypeOK
  <2>1. file \in [Agents -> Files] BY <1>1 DEF Init
  <2>2. backup \in [Sessions -> [Agents -> Files]] BY DEF Init, Files
  <2>3. QED BY <2>1, <2>2, PatcherAssumption DEF Init, TypeOK
<1>3. FilesInv
  BY <1>1, PatcherAssumption DEF FilesInv, Sound, Recoverable, Init
<1>4. BackupsInv
  BY <1>2, Empty DEF BackupsInv, Init
<1>5. HeldInv /\ ControlInv BY DEF HeldInv, ControlInv, Init
<1>6. QED BY <1>2, <1>3, <1>4, <1>5 DEF IndInv

-----------------------------------------------------------------------------
(* The steps that leave the files and the backups alone.                    *)

LEMMA StepStart ==
  ASSUME IndInv, Start PROVE IndInv'
<1>1. /\ TypeOK /\ phase = "off" /\ session < MaxSessions /\ session' = session + 1
      /\ phase' \in {"patch", "starting"} /\ todo' \in SUBSET Agents
      /\ proxyBinPath' \in Paths \cup {NoPath}
      /\ phase' = "patch" => proxyBinPath' \in Paths
      /\ atStart' = [a \in Agents |-> LastEdit(file[a])]
      /\ UNCHANGED <<file, backup, step, agent, held, edits, orderly>>
  BY DEF Start, IndInv, DetectAgents
<1>2. step = "next" BY <1>1 DEF IndInv, ControlInv, TypeOK
<1>3. session' \in Sessions BY <1>1, PatcherAssumption DEF TypeOK, Sessions
<1>4. \A a \in Agents : file[a] \in Files /\ LastEdit(file[a]) \in 0 .. MaxEdits
  BY <1>1, LastEditType DEF TypeOK
<1>5. TypeOK' BY <1>1, <1>2, <1>3, <1>4, PatcherAssumption DEF TypeOK, Sessions
<1>6. \A a \in Agents : backup[session'][a] = Gone
  BY <1>1, <1>3 DEF IndInv, BackupsInv, TypeOK
<1>7. FilesInv'
  <2>1. ASSUME NEW a \in Agents
        PROVE  /\ Sound(file[a], a)' /\ atStart'[a] = LastEdit(file[a])
               /\ LastEdit(file[a]) <= edits
    BY <1>1 DEF IndInv, FilesInv, Sound, Recoverable
  <2>2. ASSUME NEW a \in Agents PROVE file[a] = Torn => DamagedBackup(a)'
    BY <1>1, <1>2 DEF IndInv, FilesInv, DamagedBackup
  <2>3. ASSUME NEW a \in Agents PROVE Fresh(file[a], a)'
    BY <1>1, <1>4, <2>1 DEF Fresh, LastEdit
  <2>4. QED BY <1>1, <2>1, <2>2, <2>3 DEF FilesInv
<1>8. BackupsInv'
  <2>1. \A s \in Sessions : s > session' => s > session
    BY <1>1, PatcherAssumption DEF TypeOK, Sessions
  <2>2. QED BY <1>1, <1>6, <2>1 DEF IndInv, BackupsInv, Sound, Recoverable, Fresh
<1>9. HeldInv' /\ ControlInv'
  BY <1>1, <1>2, <1>3, <1>6 DEF HeldInv, ControlInv
<1>10. QED BY <1>5, <1>7, <1>8, <1>9 DEF IndInv

LEMMA StepReadConfig ==
  ASSUME IndInv, NEW a \in Agents, ReadConfig(a) PROVE IndInv'
<1>1. /\ TypeOK /\ phase = "patch" /\ step = "next" /\ a \in todo /\ todo' = todo \ {a}
      /\ UNCHANGED <<file, backup, session, proxyBinPath, phase, edits, atStart, orderly>>
  BY DEF ReadConfig, IndInv
<1>2. CASE UNCHANGED <<step, agent, held>>
  BY <1>1, <1>2, DaemonStep DEF IndInv, TypeOK, HeldInv, ControlInv
<1>3. CASE file[a] # Gone /\ step' = "backup" /\ agent' = a /\ held' = file[a]
  <2>1. TypeOK' BY <1>1, <1>3 DEF TypeOK
  <2>2. FilesInv' /\ BackupsInv' BY <1>1, <1>3, DaemonStep
  <2>3. HeldInv'
    BY <1>1, <1>3, DaemonStep DEF IndInv, FilesInv, HeldInv, Sound, Recoverable, Fresh
  <2>4. ControlInv' BY <1>1, <1>3 DEF IndInv, ControlInv
  <2>5. QED BY <2>1, <2>2, <2>3, <2>4 DEF IndInv
<1>4. QED BY <1>2, <1>3 DEF ReadConfig

LEMMA StepPatchConfig ==
  ASSUME IndInv, PatchConfig PROVE IndInv'
<1>1. /\ TypeOK /\ step = "wrap" /\ phase = "patch" /\ agent \in Agents
      /\ session \in Sessions /\ held \in Files \ {Gone}
      /\ UNCHANGED <<file, backup, session, proxyBinPath, phase, todo, edits, atStart,
                     orderly>>
  BY DEF PatchConfig, IndInv, ControlInv, TypeOK
<1>2. CASE NextAgent
  <2>1. step' = "next" BY <1>2 DEF NextAgent
  <2>2. TypeOK' BY <1>1, <2>1 DEF TypeOK
  <2>3. ControlInv' BY <1>1, <2>1 DEF IndInv, ControlInv
  <2>4. QED BY <1>1, <1>2, <2>1, <2>2, <2>3, DaemonStep, NextAgentFacts DEF IndInv
<1>3. CASE Patchable(held) /\ held' = Wrap(held) /\ step' = "open" /\ UNCHANGED agent
  <2>1. held \in Configs BY <1>1, <1>3, FileCases DEF Patchable, Files
  <2>2. proxyBinPath \in Paths BY <1>1 DEF IndInv, ControlInv
  <2>3. held' \in Configs /\ held' \notin {Gone, Torn} /\ held \notin {Gone, Torn}
    BY <1>3, <2>1, <2>2, WrapFacts, FilesAssumption
  <2>4. TypeOK' BY <1>1, <1>3, <2>3 DEF TypeOK, Files
  <2>5. FilesInv' /\ BackupsInv' BY <1>1, <1>3, DaemonStep
  <2>6. /\ Sound(held, agent) /\ Fresh(held, agent)
        /\ backup[session][agent] = held
    BY <1>1 DEF IndInv, HeldInv, ControlInv
  <2>7. Recoverable(held', agent)
    BY <1>1, <1>3, <2>1, <2>2, <2>6, WrapFacts DEF Sound, Recoverable
  <2>8. held'.edit = held.edit BY <1>3, <2>1, <2>2, WrapFacts
  <2>9. HeldInv'
    BY <1>1, <1>3, <2>3, <2>6, <2>7, <2>8
    DEF HeldInv, Sound, Recoverable, Fresh, LastEdit
  <2>10. ControlInv' BY <1>1, <1>3 DEF IndInv, ControlInv
  <2>11. QED BY <2>4, <2>5, <2>9, <2>10 DEF IndInv
<1>4. QED BY <1>2, <1>3 DEF PatchConfig

LEMMA StepOpenTemp ==
  ASSUME IndInv, OpenTemp PROVE IndInv'
<1>1. /\ TypeOK /\ step = "open" /\ step' = "rename"
      /\ UNCHANGED <<file, backup, session, proxyBinPath, phase, todo, agent, held,
                     edits, atStart, orderly>>
  BY DEF OpenTemp, IndInv
<1>2. TypeOK' BY <1>1 DEF TypeOK
<1>3. FilesInv' /\ BackupsInv' BY <1>1, DaemonStep
<1>4. HeldInv'
  BY <1>1 DEF IndInv, HeldInv, Sound, Recoverable, Fresh, DamagedBackup
<1>5. ControlInv' BY <1>1 DEF IndInv, ControlInv
<1>6. QED BY <1>2, <1>3, <1>4, <1>5 DEF IndInv

(* Steps that end in the loop over the agents or with no daemon.            *)
LEMMA StepNext ==
  ASSUME IndInv, step' = "next", phase' \in {phase, "off"}, todo' \in SUBSET todo,
         orderly' \in BOOLEAN, UNCHANGED <<file, backup, session, proxyBinPath, edits,
                                           atStart>>
  PROVE  IndInv'
<1>1. TypeOK' BY DEF IndInv, TypeOK
<1>2. FilesInv' /\ BackupsInv' BY DaemonStep
<1>3. HeldInv' /\ ControlInv' BY DEF IndInv, HeldInv, ControlInv
<1>4. QED BY <1>1, <1>2, <1>3 DEF IndInv

LEMMA StepFails ==
  ASSUME IndInv, BackupFails \/ WriteFails \/ Crash PROVE IndInv'
  BY StepNext DEF BackupFails, WriteFails, Crash, NextAgent

(* Steps between the loops.                                                 *)
LEMMA StepPhase ==
  ASSUME IndInv, AllPatched \/ Ready \/ StartupFails \/ Stop \/ AllRestored
  PROVE  IndInv'
<1>1. /\ step = "next" /\ phase # "off"
      /\ phase' \in {"starting", "ready", "off", "restore"}
      /\ todo' \in SUBSET Agents /\ orderly' \in BOOLEAN
      /\ UNCHANGED <<file, backup, session, proxyBinPath, step, agent, held, edits,
                     atStart>>
  BY DEF AllPatched, Ready, StartupFails, Stop, AllRestored, IndInv, TypeOK, ControlInv,
         DetectAgents
<1>2. TypeOK' BY <1>1 DEF IndInv, TypeOK
<1>3. FilesInv' /\ BackupsInv' BY <1>1, DaemonStep
<1>4. HeldInv' /\ ControlInv' BY <1>1 DEF IndInv, HeldInv, ControlInv
<1>5. QED BY <1>2, <1>3, <1>4 DEF IndInv

LEMMA StepRestoreAgent ==
  ASSUME IndInv, NEW a \in Agents, RestoreAgent(a) PROVE IndInv'
<1>1. /\ TypeOK /\ phase = "restore" /\ step = "next" /\ a \in todo /\ todo' = todo \ {a}
      /\ orderly' \in BOOLEAN /\ session \in Sessions
      /\ UNCHANGED <<file, backup, session, proxyBinPath, phase, edits, atStart>>
  BY DEF RestoreAgent, IndInv, TypeOK, ControlInv
<1>2. CASE UNCHANGED <<step, agent, held>>
  BY <1>1, <1>2, StepNext
<1>3. CASE Saved(a) # Gone /\ step' = "open" /\ agent' = a /\ held' = Saved(a)
  <2>1. Saved(a) = backup[session][a] BY DEF Saved, BackupDir
  <2>2. TypeOK' BY <1>1, <1>3, <2>1 DEF TypeOK
  <2>3. FilesInv' /\ BackupsInv' BY <1>1, <1>3, DaemonStep
  <2>4. Sound(held', a) /\ Fresh(held', a)
    BY <1>1, <1>3, <2>1 DEF IndInv, BackupsInv
  <2>5. held' = Torn => DamagedBackup(a)'
    BY <1>1, <1>3, <2>1 DEF DamagedBackup
  <2>6. HeldInv'
    BY <1>1, <1>3, <2>4, <2>5 DEF HeldInv, Sound, Recoverable, Fresh
  <2>7. ControlInv' BY <1>1, <1>3 DEF IndInv, ControlInv
  <2>8. QED BY <2>2, <2>3, <2>6, <2>7 DEF IndInv
<1>4. QED BY <1>2, <1>3 DEF RestoreAgent

-----------------------------------------------------------------------------
(* The backup: nothing, then damaged, then complete.                        *)

LEMMA BackupFacts ==
  ASSUME IndInv, NEW f \in Files, agent \in Agents, session \in Sessions,
         Save(agent, f), backup[session][agent] \in {Gone, Torn},
         UNCHANGED <<edits, atStart>>
  PROVE  /\ backup' \in [Sessions -> [Agents -> Files]]
         /\ backup'[session][agent] = f
         /\ \A s \in Sessions, a \in Agents :
              ~(s = session /\ a = agent) => backup'[s][a] = backup[s][a]
         /\ \A g \in Files, a \in Agents : Sound(g, a) => SoundNext(g, a)
<1>1. backup' = [backup EXCEPT ![session][agent] = f] BY DEF Save, BackupDir
<1>2. backup \in [Sessions -> [Agents -> Files]] BY DEF IndInv, TypeOK
<1>3. backup' \in [Sessions -> [Agents -> Files]] BY <1>1, <1>2
<1>4. backup'[session][agent] = f BY <1>1, <1>2
<1>5. \A s \in Sessions, a \in Agents :
        ~(s = session /\ a = agent) => backup'[s][a] = backup[s][a]
  BY <1>1, <1>2
<1>6. BackupsGrow BY <1>5, FilesAssumption DEF BackupsGrow
<1>7. edits' \in Nat /\ edits <= edits' BY PatcherAssumption DEF IndInv, TypeOK
<1>8. \A g \in Files, a \in Agents : Sound(g, a) => SoundNext(g, a)
  BY <1>6, <1>7, SoundKept DEF IndInv
<1>9. QED BY <1>3, <1>4, <1>5, <1>8

LEMMA StepOpenBackup ==
  ASSUME IndInv, OpenBackup PROVE IndInv'
<1>1. /\ TypeOK /\ step = "backup" /\ phase = "patch" /\ step' = "saving"
      /\ agent \in Agents /\ session \in Sessions /\ held \in Files \ {Gone}
      /\ Save(agent, Torn) /\ backup[session][agent] = Gone /\ agent \notin todo
      /\ UNCHANGED <<file, session, proxyBinPath, phase, todo, agent, held, edits,
                     atStart, orderly>>
  BY DEF OpenBackup, IndInv, TypeOK, ControlInv
<1>2. Torn \in Files /\ Gone # Torn BY FilesAssumption DEF Files
<1>3. /\ backup' \in [Sessions -> [Agents -> Files]]
      /\ backup'[session][agent] = Torn
      /\ \A s \in Sessions, a \in Agents :
           ~(s = session /\ a = agent) => backup'[s][a] = backup[s][a]
      /\ \A g \in Files, a \in Agents : Sound(g, a) => SoundNext(g, a)
  BY <1>1, <1>2, BackupFacts
<1>4. TypeOK' BY <1>1, <1>3 DEF TypeOK
<1>5. ASSUME NEW a \in Agents, DamagedBackup(a) PROVE DamagedBackup(a)'
  <2>1. PICK s \in Sessions : backup[s][a] = Torn BY <1>5 DEF DamagedBackup
  <2>2. ~(s = session /\ a = agent) BY <1>1, <1>2, <2>1
  <2>3. QED BY <1>1, <1>3, <2>1, <2>2 DEF DamagedBackup
<1>6. FilesInv'
  BY <1>1, <1>3, <1>5
  DEF IndInv, TypeOK, FilesInv, Sound, SoundNext, Recoverable, Fresh
<1>7. BackupsInv'
  <2>1. ASSUME NEW s \in Sessions, NEW a \in Agents, ~(s = session /\ a = agent)
        PROVE  /\ Sound(backup[s][a], a)' /\ (s > session => backup'[s][a] = Gone)
               /\ (s = session => Fresh(backup[s][a], a)')
    <3>1. backup'[s][a] = backup[s][a] /\ backup[s][a] \in Files
      BY <1>1, <1>3, <2>1 DEF TypeOK
    <3>2. SoundNext(backup[s][a], a) BY <1>3, <3>1 DEF IndInv, BackupsInv
    <3>3. QED BY <1>1, <3>1, <3>2 DEF IndInv, BackupsInv, Sound, SoundNext, Recoverable, Fresh
  <2>2. /\ Sound(backup[session][agent], agent)' /\ Fresh(backup[session][agent], agent)'
    BY <1>1, <1>3 DEF Sound, Recoverable, Wrapped, LastEdit, Fresh, TypeOK
  <2>3. ~(session > session) BY <1>1 DEF Sessions
  <2>4. QED BY <1>1, <2>1, <2>2, <2>3 DEF BackupsInv
<1>8. HeldInv'
  BY <1>1, <1>3, <1>5 DEF IndInv, HeldInv, Sound, SoundNext, Recoverable, Fresh
<1>9. ControlInv'
  <2>1. \A a \in todo : a \in Agents /\ a # agent BY <1>1 DEF TypeOK
  <2>2. \A a \in todo : backup'[session][a] = Gone
    BY <1>1, <1>3, <2>1 DEF IndInv, ControlInv
  <2>3. QED BY <1>1, <1>3, <2>2 DEF IndInv, ControlInv
<1>10. QED BY <1>4, <1>6, <1>7, <1>8, <1>9 DEF IndInv

LEMMA StepWriteBackup ==
  ASSUME IndInv, WriteBackup PROVE IndInv'
<1>1. /\ TypeOK /\ step = "saving" /\ phase = "patch" /\ step' = "wrap"
      /\ agent \in Agents /\ session \in Sessions /\ held \in Files \ {Gone}
      /\ Save(agent, held) /\ backup[session][agent] = Torn /\ agent \notin todo
      /\ UNCHANGED <<file, session, proxyBinPath, phase, todo, agent, held, edits,
                     atStart, orderly>>
  BY DEF WriteBackup, IndInv, TypeOK, ControlInv
<1>2. /\ backup' \in [Sessions -> [Agents -> Files]]
      /\ backup'[session][agent] = held
      /\ \A s \in Sessions, a \in Agents :
           ~(s = session /\ a = agent) => backup'[s][a] = backup[s][a]
      /\ \A g \in Files, a \in Agents : Sound(g, a) => SoundNext(g, a)
  BY <1>1, BackupFacts
<1>3. TypeOK' BY <1>1, <1>2 DEF TypeOK
<1>4. ASSUME NEW a \in Agents, DamagedBackup(a) PROVE DamagedBackup(a)'
  <2>1. PICK s \in Sessions : backup[s][a] = Torn /\ ~(s = session /\ a = agent)
    BY <1>1, <1>4 DEF DamagedBackup
  <2>2. QED BY <1>1, <1>2, <2>1 DEF DamagedBackup
<1>5. FilesInv'
  BY <1>1, <1>2, <1>4
  DEF IndInv, TypeOK, FilesInv, Sound, SoundNext, Recoverable, Fresh
<1>6. Sound(held, agent) /\ Fresh(held, agent) /\ SoundNext(held, agent)
  BY <1>1, <1>2 DEF IndInv, HeldInv
<1>7. BackupsInv'
  <2>1. ASSUME NEW s \in Sessions, NEW a \in Agents, ~(s = session /\ a = agent)
        PROVE  /\ Sound(backup[s][a], a)' /\ (s > session => backup'[s][a] = Gone)
               /\ (s = session => Fresh(backup[s][a], a)')
    <3>1. backup'[s][a] = backup[s][a] /\ backup[s][a] \in Files
      BY <1>1, <1>2, <2>1 DEF TypeOK
    <3>2. SoundNext(backup[s][a], a) BY <1>2, <3>1 DEF IndInv, BackupsInv
    <3>3. QED BY <1>1, <3>1, <3>2 DEF IndInv, BackupsInv, Sound, SoundNext, Recoverable, Fresh
  <2>2. /\ Sound(backup[session][agent], agent)' /\ Fresh(backup[session][agent], agent)'
    BY <1>1, <1>2, <1>6 DEF Sound, SoundNext, Recoverable, Fresh
  <2>3. ~(session > session) BY <1>1 DEF Sessions
  <2>4. QED BY <1>1, <2>1, <2>2, <2>3 DEF BackupsInv
<1>8. HeldInv'
  BY <1>1, <1>2, <1>4, <1>6 DEF IndInv, HeldInv, Sound, SoundNext, Recoverable, Fresh
<1>9. ControlInv'
  <2>1. \A a \in todo : a \in Agents /\ a # agent BY <1>1 DEF TypeOK
  <2>2. \A a \in todo : backup'[session][a] = Gone
    BY <1>1, <1>2, <2>1 DEF IndInv, ControlInv
  <2>3. QED BY <1>1, <1>2, <2>2 DEF IndInv, ControlInv
<1>10. QED BY <1>3, <1>5, <1>7, <1>8, <1>9 DEF IndInv

-----------------------------------------------------------------------------
(* Steps that change a config.                                              *)

(* One config is replaced by contents that are as sound.                    *)
LEMMA Replaced ==
  ASSUME IndInv, NEW a \in Agents, NEW f \in Files,
         file' = [file EXCEPT ![a] = f],
         Recoverable(f, a), LastEdit(f) <= edits',
         f = Torn => DamagedBackup(a), phase # "off" => Fresh(f, a),
         edits' \in 0 .. MaxEdits, edits <= edits',
         UNCHANGED <<backup, session, proxyBinPath, phase, todo, atStart, orderly>>,
         \/ step' = "next"
         \/ UNCHANGED <<step, agent, held>>
  PROVE  IndInv'
<1>1. TypeOK BY DEF IndInv
<1>2. file' \in [Agents -> Files] BY <1>1 DEF TypeOK
<1>3. TypeOK' BY <1>1, <1>2 DEF TypeOK
<1>4. edits' \in Nat /\ edits \in Nat BY <1>1, PatcherAssumption DEF TypeOK
<1>5. \A g \in Files : LastEdit(g) \in Nat BY LastEditType, PatcherAssumption
<1>6. \A b \in Agents : DamagedBackup(b) => DamagedBackup(b)'
  BY DEF DamagedBackup
<1>7. ASSUME NEW b \in Agents
      PROVE  /\ Sound(file[b], b)' /\ (file'[b] = Torn => DamagedBackup(b)')
             /\ (phase' # "off" => Fresh(file[b], b)') /\ atStart'[b] <= edits'
  <2>1. atStart'[b] <= edits'
    BY <1>1, <1>4, PatcherAssumption DEF IndInv, FilesInv, TypeOK
  <2>2. CASE b = a
    <3>1. file'[b] = f BY <1>1, <2>2 DEF TypeOK
    <3>2. QED BY <1>6, <2>1, <2>2, <3>1 DEF Sound, Recoverable, Fresh
  <2>3. CASE b # a
    <3>1. file'[b] = file[b] /\ file[b] \in Files BY <1>1, <2>3 DEF TypeOK
    <3>2. LastEdit(file[b]) <= edits' BY <1>4, <1>5, <3>1 DEF IndInv, FilesInv, Sound
    <3>3. QED BY <1>6, <2>1, <3>1, <3>2 DEF IndInv, FilesInv, Sound, Recoverable, Fresh
  <2>4. QED BY <2>2, <2>3
<1>8. FilesInv' BY <1>7 DEF FilesInv
<1>9. BackupsInv'
  <2>1. \A s \in Sessions, b \in Agents : LastEdit(backup[s][b]) <= edits'
    BY <1>1, <1>4, <1>5 DEF IndInv, BackupsInv, Sound, TypeOK
  <2>2. QED BY <2>1 DEF IndInv, BackupsInv, Sound, Recoverable, Fresh
<1>10. HeldInv'
  <2>1. CASE step' = "next" BY <2>1 DEF HeldInv
  <2>2. CASE step # "next" /\ UNCHANGED <<step, agent, held>>
    <3>1. LastEdit(held) <= edits'
      BY <1>1, <1>4, <1>5, <2>2 DEF IndInv, HeldInv, Sound, TypeOK
    <3>2. agent \in Agents BY <1>1, <2>2 DEF TypeOK
    <3>3. QED BY <1>6, <2>2, <3>1, <3>2 DEF IndInv, HeldInv, Sound, Recoverable, Fresh
  <2>3. QED BY <2>1, <2>2
<1>11. ControlInv' BY DEF IndInv, ControlInv
<1>12. QED BY <1>3, <1>8, <1>9, <1>10, <1>11 DEF IndInv

LEMMA StepRename ==
  ASSUME IndInv, Rename PROVE IndInv'
<1>1. /\ TypeOK /\ step = "rename" /\ step' = "next"
      /\ agent \in Agents /\ held \in Files
      /\ file' = [file EXCEPT ![agent] = held]
      /\ UNCHANGED <<backup, session, proxyBinPath, phase, todo, edits, atStart, orderly>>
  BY DEF Rename, NextAgent, IndInv, TypeOK
<1>2. /\ Sound(held, agent) /\ Fresh(held, agent)
      /\ held = Torn => DamagedBackup(agent)
  BY <1>1 DEF IndInv, HeldInv
<1>3. edits' \in 0 .. MaxEdits /\ edits <= edits'
  BY <1>1, PatcherAssumption DEF TypeOK
<1>4. QED BY <1>1, <1>2, <1>3, Replaced DEF Sound

LEMMA StepRemove ==
  ASSUME IndInv, NEW a \in Agents, Remove(a) PROVE IndInv'
<1>1. /\ file' = [file EXCEPT ![a] = Gone] /\ Gone # Torn /\ Gone \in Files
      /\ UNCHANGED <<backup, daemonVars, edits, atStart, orderly>>
  BY FilesAssumption DEF Remove, Files
<1>2. Sound(Gone, a) /\ Fresh(Gone, a) BY Empty DEF IndInv
<1>3. edits' \in 0 .. MaxEdits /\ edits <= edits'
  BY <1>1, PatcherAssumption DEF IndInv, TypeOK
<1>4. QED BY <1>1, <1>2, <1>3, Replaced DEF Sound, daemonVars

LEMMA StepEdit ==
  ASSUME IndInv, NEW a \in Agents, Edit(a) PROVE IndInv'
<1>1. /\ TypeOK /\ file[a] \in Configs /\ edits' = edits + 1 /\ edits < MaxEdits
      /\ UNCHANGED <<backup, daemonVars, atStart, orderly>>
  BY FileCases DEF Edit, IndInv, TypeOK
<1>2. PICK n \in Names, v \in BOOLEAN :
        file' = [file EXCEPT ![a] =
          [servers |-> [m \in DOMAIN @.servers \cup {n} |->
                          IF m = n THEN Direct ELSE @.servers[m]],
           edit |-> edits + 1, valid |-> v]]
  BY DEF Edit
<1> DEFINE old == file[a].servers
           S   == DOMAIN old \cup {n}
           new == [m \in S |-> IF m = n THEN Direct ELSE old[m]]
           f   == [servers |-> new, edit |-> edits + 1, valid |-> v]
<1>3. DOMAIN old \in SUBSET Names /\ old \in [DOMAIN old -> Commands]
  BY <1>1, FileCases DEF Files
<1>4. edits + 1 \in 0 .. MaxEdits /\ edits \in Nat BY <1>1, PatcherAssumption DEF TypeOK
<1>5. S \in SUBSET Names /\ new \in [S -> Commands]
  BY <1>3 DEF Commands
<1>6. f \in Configs BY <1>4, <1>5, MakeConfig
<1>7. f \notin {Gone, Torn} /\ file[a] \notin {Gone, Torn} /\ f \in Files
  BY <1>1, <1>6, FilesAssumption DEF Files
<1>8. f.servers = new /\ f.edit = edits + 1 OBVIOUS
<1>9. file' = [file EXCEPT ![a] = f] BY <1>1, <1>2 DEF TypeOK
<1>10. Sound(file[a], a) BY DEF IndInv, FilesInv
<1>11. Recoverable(f, a)
  <2>1. \A m \in Wrapped(f) : m \in Wrapped(file[a])
    BY <1>3, <1>7, <1>8 DEF Wrapped
  <2>2. QED BY <1>10, <2>1 DEF Sound, Recoverable
<1>12. LastEdit(f) <= edits' BY <1>1, <1>4, <1>7, <1>8 DEF LastEdit
<1>13. Fresh(f, a)
  <2>1. atStart[a] <= edits /\ atStart[a] \in Nat
    BY <1>1, PatcherAssumption DEF IndInv, FilesInv, TypeOK
  <2>2. QED BY <1>4, <1>8, <2>1 DEF Fresh
<1>14. edits' \in 0 .. MaxEdits /\ edits <= edits' BY <1>1, <1>4
<1> HIDE DEF f
<1>15. QED BY <1>1, <1>7, <1>9, <1>11, <1>12, <1>13, <1>14, Replaced DEF daemonVars

-----------------------------------------------------------------------------

(* No step of a daemon, an agent or a user breaks the invariant.            *)
THEOREM NextInd == IndInv /\ [Next]_vars => IndInv'
<1> SUFFICES ASSUME IndInv, [Next]_vars PROVE IndInv' OBVIOUS
<1>1. ASSUME Start \/ Ready \/ StartupFails \/ Stop \/ Crash PROVE IndInv'
  BY <1>1, StepStart, StepPhase, StepFails
<1>2. ASSUME PatchNext PROVE IndInv'
  BY <1>2, StepReadConfig, StepOpenBackup, StepWriteBackup, StepFails, StepPatchConfig,
     StepPhase DEF PatchNext
<1>3. ASSUME WriteNext PROVE IndInv'
  BY <1>3, StepOpenTemp, StepRename, StepFails DEF WriteNext
<1>4. ASSUME RestoreNext PROVE IndInv'
  BY <1>4, StepRestoreAgent, StepPhase DEF RestoreNext
<1>5. ASSUME AgentNext PROVE IndInv'
  BY <1>5, StepEdit, StepRemove DEF AgentNext
<1>6. CASE UNCHANGED vars
  BY <1>6 DEF vars, daemonVars, IndInv, TypeOK, FilesInv, BackupsInv, HeldInv, ControlInv,
     Sound, Recoverable, Fresh, DamagedBackup
<1>7. QED BY <1>1, <1>2, <1>3, <1>4, <1>5, <1>6 DEF Next

(* So it holds over any number of sessions, crashes included.               *)
THEOREM Inductive == Spec => []IndInv
<1>1. QED BY InitInd, NextInd, PTL DEF Spec

(* The variables keep their types.                                          *)
THEOREM TypeCorrect == Spec => []TypeOK
<1>1. IndInv => TypeOK BY DEF IndInv
<1>2. QED BY Inductive, <1>1, PTL

(* Of every wrapped server some backup holds the unwrapped form.            *)
THEOREM PatchesRecoverable == Spec => []PatchedIsRecoverable
<1>1. IndInv => PatchedIsRecoverable
  BY DEF IndInv, FilesInv, Sound, Recoverable, PatchedIsRecoverable
<1>2. QED BY Inductive, <1>1, PTL

(* A damaged config has a damaged backup.                                   *)
THEOREM DamageHasBackup == Spec => []TornOnlyByBackup
<1>1. IndInv => TornOnlyByBackup
  BY DEF IndInv, FilesInv, DamagedBackup, TornOnlyByBackup
<1>2. QED BY Inductive, <1>1, PTL

(* A session only takes back edits of its own time.                         *)
THEOREM RestoresAreFresh == Spec => []NoStaleRestore
<1>1. IndInv => NoStaleRestore BY DEF IndInv, FilesInv, Fresh, NoStaleRestore
<1>2. QED BY Inductive, <1>1, PTL

-----------------------------------------------------------------------------
(* Orderly sessions.                                                        *)

Clean(f) == Wrapped(f) = {}

(* In an orderly session a config that is wrapped has a backup that is not,  *)
(* and the loop that restores it has yet to finish with it.                 *)
Unwraps ==
  orderly =>
    /\ phase = "off" => \A a \in Agents : Clean(file[a])
    /\ phase # "off" => \A a \in Agents :
         /\ Clean(backup[session][a])
         /\ Clean(file[a]) \/ backup[session][a] # Gone
    /\ step \in {"backup", "saving"} => Clean(held)
    /\ phase = "patch" /\ step \in {"open", "rename"} => backup[session][agent] # Gone
    /\ phase = "restore" => \A a \in Agents :
         Clean(file[a]) \/ a \in todo \/ (step \in {"open", "rename"} /\ agent = a)
    /\ phase = "restore" /\ step # "next" => Clean(held)

(* Nothing is wrapped in a file that is not there or damaged.                *)
LEMMA CleanMarks == Clean(Gone) /\ Clean(Torn)
BY DEF Clean, Wrapped

(* A new session has no backups, and an orderly one found nothing wrapped.   *)
LEMMA UnwrapsStart ==
  ASSUME IndInv, Unwraps, Start PROVE Unwraps'
<1>1. /\ phase = "off" /\ session < MaxSessions /\ session' = session + 1
      /\ phase' \in {"patch", "starting"}
      /\ UNCHANGED <<file, backup, step, agent, held, orderly>>
  BY DEF Start
<1>2. step = "next" BY <1>1 DEF IndInv, ControlInv
<1>3. session' \in Sessions /\ session' > session
  BY <1>1, PatcherAssumption DEF IndInv, TypeOK, Sessions
<1>4. \A a \in Agents : backup[session'][a] = Gone
  BY <1>3 DEF IndInv, BackupsInv
<1>5. QED BY <1>1, <1>2, <1>4, CleanMarks DEF Unwraps

(* What PatchAgent reads is not wrapped, since it has no backup yet.         *)
LEMMA UnwrapsPatch ==
  ASSUME IndInv, Unwraps, PatchNext PROVE Unwraps'
<1>1. ASSUME NEW a \in Agents, ReadConfig(a) PROVE Unwraps'
  <2>1. /\ phase = "patch" /\ a \in todo /\ step = "next"
        /\ UNCHANGED <<file, backup, session, proxyBinPath, phase, orderly>>
        /\ \/ step' = "backup" /\ held' = file[a]
           \/ step' = "next"
    BY <1>1 DEF ReadConfig
  <2>2. backup[session][a] = Gone BY <2>1 DEF IndInv, ControlInv
  <2>3. orderly => Clean(file[a]) BY <2>1, <2>2 DEF Unwraps
  <2>4. QED BY <2>1, <2>3 DEF Unwraps
<1>2. ASSUME OpenBackup \/ WriteBackup PROVE Unwraps'
  <2>1. PICK f \in {Torn, held} :
          /\ backup' = [backup EXCEPT ![session][agent] = f]
          /\ step = "backup" => f = Torn
    BY <1>2 DEF OpenBackup, WriteBackup, Save, BackupDir
  <2>2. /\ step \in {"backup", "saving"} /\ step' \in {"saving", "wrap"}
        /\ UNCHANGED <<file, session, proxyBinPath, phase, agent, held, orderly>>
    BY <1>2 DEF OpenBackup, WriteBackup
  <2>3. /\ phase = "patch" /\ session \in Sessions /\ agent \in Agents
        /\ held \in Files \ {Gone} /\ backup \in [Sessions -> [Agents -> Files]]
    BY <2>2 DEF IndInv, ControlInv, TypeOK
  <2>4. f # Gone /\ (orderly => Clean(f))
    BY <2>1, <2>2, <2>3, CleanMarks, FilesAssumption DEF Unwraps
  <2>5. \A a \in Agents :
          backup'[session][a] = IF a = agent THEN f ELSE backup[session][a]
    BY <2>1, <2>3
  <2>6. QED BY <2>2, <2>3, <2>4, <2>5 DEF Unwraps
<1>3. ASSUME BackupFails PROVE Unwraps'
  BY <1>3 DEF BackupFails, Unwraps
<1>4. ASSUME PatchConfig PROVE Unwraps'
  <2>1. /\ step = "wrap" /\ phase = "patch"
        /\ UNCHANGED <<file, backup, session, proxyBinPath, phase, orderly>>
        /\ (step' = "open" /\ agent' = agent) \/ step' = "next"
    BY <1>4 DEF PatchConfig, NextAgent, IndInv, ControlInv
  <2>2. backup[session][agent] # Gone BY <2>1 DEF IndInv, ControlInv, TypeOK
  <2>3. QED BY <2>1, <2>2 DEF Unwraps
<1>5. ASSUME AllPatched PROVE Unwraps'
  BY <1>5 DEF AllPatched, Unwraps
<1>6. QED BY <1>1, <1>2, <1>3, <1>4, <1>5 DEF PatchNext

(* A config is replaced by its wrapped form, which has a backup, or by its    *)
(* backup.                                                                  *)
LEMMA UnwrapsWrite ==
  ASSUME IndInv, Unwraps, WriteNext PROVE Unwraps'
<1>1. ASSUME OpenTemp PROVE Unwraps'
  BY <1>1 DEF OpenTemp, Unwraps
<1>2. ASSUME Rename PROVE Unwraps'
  <2>1. /\ step = "rename" /\ step' = "next"
        /\ file' = [file EXCEPT ![agent] = held]
        /\ UNCHANGED <<backup, session, proxyBinPath, phase, todo, orderly>>
    BY <1>2 DEF Rename, NextAgent
  <2>2. /\ phase \in {"patch", "restore"} /\ agent \in Agents
        /\ file \in [Agents -> Files]
    BY <2>1 DEF IndInv, ControlInv, TypeOK
  <2>3. \A a \in Agents : file'[a] = IF a = agent THEN held ELSE file[a]
    BY <2>1, <2>2
  <2>4. CASE phase = "patch" BY <2>1, <2>2, <2>3, <2>4 DEF Unwraps
  <2>5. CASE phase = "restore" BY <2>1, <2>2, <2>3, <2>5 DEF Unwraps
  <2>6. QED BY <2>2, <2>4, <2>5
<1>3. ASSUME WriteFails PROVE Unwraps'
  BY <1>3 DEF WriteFails, Unwraps
<1>4. QED BY <1>1, <1>2, <1>3 DEF WriteNext

(* A wrapped config exists, so the loop that restores begins with it.        *)
LEMMA UnwrapsStop ==
  ASSUME IndInv, Unwraps, Stop PROVE Unwraps'
<1>1. /\ phase = "ready" /\ phase' = "restore" /\ todo' = DetectAgents
      /\ UNCHANGED <<file, backup, session, proxyBinPath, step, agent, held, orderly>>
  BY DEF Stop
<1>2. step = "next" BY <1>1 DEF IndInv, ControlInv
<1>3. \A a \in Agents : Clean(file[a]) \/ a \in todo'
  BY <1>1, CleanMarks DEF DetectAgents
<1>4. QED BY <1>1, <1>2, <1>3 DEF Unwraps

(* The loop passes over an agent without a backup only, in an orderly stop.  *)
LEMMA UnwrapsRestore ==
  ASSUME IndInv, Unwraps, RestoreNext PROVE Unwraps'
<1>1. ASSUME NEW a \in Agents, RestoreAgent(a) PROVE Unwraps'
  <2>1. /\ phase = "restore" /\ step = "next" /\ todo' = todo \ {a}
        /\ UNCHANGED <<file, backup, session, proxyBinPath, phase>>
        /\ \/ /\ step' = "open" /\ agent' = a /\ held' = backup[session][a]
              /\ UNCHANGED orderly
           \/ backup[session][a] = Gone /\ UNCHANGED <<step, agent, held, orderly>>
           \/ ~orderly'
    BY <1>1 DEF RestoreAgent, Saved, BackupDir
  <2>2. QED BY <2>1 DEF Unwraps
<1>2. ASSUME AllRestored PROVE Unwraps'
  BY <1>2 DEF AllRestored, Unwraps
<1>3. QED BY <1>1, <1>2 DEF RestoreNext

(* No agent wraps a server.                                                  *)
LEMMA UnwrapsAgent ==
  ASSUME IndInv, Unwraps, AgentNext PROVE Unwraps'
<1>1. PICK a \in Agents : Edit(a) \/ Remove(a) BY DEF AgentNext
<1>2. file \in [Agents -> Files] BY DEF IndInv, TypeOK
<1>3. UNCHANGED <<backup, session, proxyBinPath, phase, step, todo, agent, held, orderly>>
  BY <1>1 DEF Edit, Remove, daemonVars
<1>4. PICK f : file' = [file EXCEPT ![a] = f] /\ (Clean(file[a]) => Clean(f))
  <2>1. CASE Remove(a) BY <2>1, CleanMarks DEF Remove
  <2>2. CASE Edit(a)
    <3>1. file[a] \notin {Gone, Torn} BY <2>2 DEF Edit
    <3>2. PICK n \in Names, v \in BOOLEAN :
            file' = [file EXCEPT ![a] =
              [servers |-> [m \in DOMAIN @.servers \cup {n} |-> IF m = n THEN Direct ELSE @.servers[m]],
               edit |-> edits + 1, valid |-> v]]
      BY <2>2 DEF Edit
    <3> DEFINE c == [servers |-> [m \in DOMAIN file[a].servers \cup {n} |->
                                    IF m = n THEN Direct ELSE file[a].servers[m]],
                     edit |-> edits + 1, valid |-> v]
    <3>3. file' = [file EXCEPT ![a] = c] BY <3>2
    <3>4. Clean(file[a]) => Clean(c)
      <4>1. Wrapped(c) \subseteq {m \in DOMAIN c.servers : c.servers[m] # Direct}
        BY DEF Wrapped
      <4>2. \A m \in DOMAIN c.servers :
              c.servers[m] # Direct => m \in Wrapped(file[a])
        BY <3>1 DEF Wrapped
      <4>3. QED BY <4>1, <4>2 DEF Clean
    <3> HIDE DEF c
    <3>5. QED BY <3>3, <3>4
  <2>3. QED BY <1>1, <2>1, <2>2
<1>5. \A b \in Agents : Clean(file[b]) => Clean(file'[b])
  BY <1>2, <1>4
<1>6. QED BY <1>3, <1>5 DEF Unwraps

(* As long as sessions are orderly, whatever agents edit and remove, what    *)
(* main wraps at start it unwraps at the stop (patcher.go, RestoreAgent).   *)
THEOREM OrderlyStopsUnwrap == Spec => []OrderlyStopUnwraps
<1>1. Init => Unwraps
  <2>1. SUFFICES ASSUME Init PROVE Unwraps OBVIOUS
  <2>2. \A a \in Agents : Clean(file[a]) BY <2>1, InitInd DEF Init, Clean, Wrapped
  <2>3. QED BY <2>1, <2>2 DEF Init, Unwraps
<1>2. IndInv /\ Unwraps /\ [Next]_vars => Unwraps'
  <2>1. SUFFICES ASSUME IndInv, Unwraps, [Next]_vars PROVE Unwraps' OBVIOUS
  <2>2. CASE Ready \/ StartupFails \/ Crash
    BY <2>1, <2>2 DEF Ready, StartupFails, Crash, Unwraps
  <2>3. CASE UNCHANGED vars BY <2>1, <2>3 DEF vars, daemonVars, Unwraps
  <2>4. QED
    BY <2>1, <2>2, <2>3, UnwrapsStart, UnwrapsPatch, UnwrapsWrite, UnwrapsStop,
       UnwrapsRestore, UnwrapsAgent DEF Next
<1>3. Unwraps => OrderlyStopUnwraps BY DEF Unwraps, OrderlyStopUnwraps, Clean
<1>4. QED BY <1>1, <1>2, <1>3, Inductive, PTL DEF Spec
=============================================================================
