------------------------------ MODULE ConfigFile ------------------------------
(***************************************************************************)
(* The configuration file: config.Load with the migration of older files,  *)
(* config.SaveSettings and config.Init, called by goroutines that share no *)
(* lock around the file.  os.WriteFile truncates the file and then writes  *)
(* it: two steps, between which others read and write.  A read or a write  *)
(* of the content is one step.                                             *)
(***************************************************************************)
EXTENDS LegacySchedule

CONSTANTS
    Proc,        \* goroutines that call into the package
    Legacy,      \* the stop windows and weekdays an older file may have
    Starts,      \* the schedules the owner saves
    SavedModes,  \* the power modes the owner saves
    EnvMode, EnvStarts, EnvLegacy, \* values the environment gives, if it does
    Crashes,     \* whether the process may crash
    Environments \* the sets of settings the environment overrides

Mode == {"on", "auto", "off"}
Setting == {"keys", "mode", "starts", "stops", "weekdays"}

ASSUME ConfigAssumption ==
    /\ \A l \in Legacy \cup {EnvLegacy} :
          l.windows \subseteq StopWindow /\ l.weekdays \subseteq 1..7
    /\ \A s \in Starts \cup {EnvStarts} : s \subseteq Rule
    /\ SavedModes \subseteq Mode /\ EnvMode \in Mode
    /\ Environments \subseteq SUBSET Setting /\ Crashes \in BOOLEAN

VARIABLES
    file,  \* the file: absent, garbled by two writers, or whole
    env,   \* which settings the environment overrides
    pc,    \* where every goroutine is
    op,    \* what it is doing
    cfg,   \* its configuration to migrate
    data,  \* what it is about to write
    \* history
    saved,     \* the settings of the last Init or SaveSettings that ended
    overlapped \* two calls overlapped, or the process crashed inside one

vars == <<file, env, pc, op, cfg, data, saved, overlapped>>

-----------------------------------------------------------------------------
(* Contents.  A key that is missing is the same as its default, except     *)
(* daily_start_schedules, without which a file counts as an older one.     *)

Content == [keys : {"none", "file", "env"}, mode : Mode,
            windows : SUBSET StopWindow, weekdays : SUBSET (1..7),
            hasStarts : BOOLEAN, starts : SUBSET Rule]

defaults == [keys |-> "none", mode |-> "auto", windows |-> {}, weekdays |-> 1..7,
             hasStarts |-> FALSE, starts |-> {}]

File(content) == [is |-> "whole", content |-> content]
Empty == File(defaults)

WithStarts(c, starts) == [c EXCEPT !.hasStarts = TRUE, !.starts = starts]

\* The environment variables of Load.
applyEnv(c) ==
    [keys      |-> IF "keys" \in env THEN "env" ELSE c.keys,
     mode      |-> IF "mode" \in env THEN EnvMode ELSE c.mode,
     windows   |-> IF "stops" \in env THEN EnvLegacy.windows ELSE c.windows,
     weekdays  |-> IF "weekdays" \in env THEN EnvLegacy.weekdays ELSE c.weekdays,
     hasStarts |-> "starts" \in env \/ c.hasStarts,
     starts    |-> IF "starts" \in env THEN EnvStarts ELSE c.starts]

\* A mutated form: every file counts as an older one.
MustPersist_Always(c) == {"stops", "starts"} \cap env = {}

\* Load migrates the file, not only its own copy.
MustPersist(c) == {"stops", "starts"} \cap env = {} /\ ~c.hasStarts

Migrated(c) == WithStarts(c, migrateStopSchedules(c.windows, c.weekdays))

\* A mutated form: settings are saved over what Load returns.
loadFileOnly_Load(c) == LET e == applyEnv(c) IN IF e.hasStarts THEN e ELSE Migrated(e)

loadFileOnly(c) == IF c.hasStarts THEN c ELSE Migrated(c)

-----------------------------------------------------------------------------
Idle(p) == pc[p] = "idle"
Goto(p, to) == pc' = [pc EXCEPT ![p] = to]

\* A call begins while no other is under way, or it overlaps.
BeginCall(p, call) ==
    /\ Idle(p)
    /\ op' = [op EXCEPT ![p] = call]
    /\ overlapped' = (overlapped \/ \E q \in Proc \ {p} : ~Idle(q))

\* Load: the file, the environment, and whether it must be migrated.  A load
\* without a migration changes nothing.
Load(p) ==
    /\ BeginCall(p, "load")
    /\ file.is = "whole"
    /\ MustPersist(applyEnv(file.content))
    /\ cfg' = [cfg EXCEPT ![p] = Migrated(applyEnv(file.content))]
    /\ Goto(p, "migrate")
    /\ UNCHANGED <<file, env, data, saved>>

\* persistMigratedStartSchedules reads the file again; it fails on a broken one.
ReadRaw(p) ==
    /\ pc[p] = "migrate"
    /\ IF file.is = "whole"
       THEN /\ data' = [data EXCEPT ![p] = WithStarts(file.content, cfg[p].starts)]
            /\ Goto(p, "truncate")
       ELSE Goto(p, "idle") /\ UNCHANGED data
    /\ cfg' = [cfg EXCEPT ![p] = defaults]
    /\ UNCHANGED <<file, env, op, saved, overlapped>>

\* SaveSettings up to write.
SaveSettings(p) ==
    /\ BeginCall(p, "save")
    /\ file.is = "whole"
    /\ \E starts \in Starts, mode \in SavedModes :
          data' = [data EXCEPT ![p] =
             [WithStarts(loadFileOnly(file.content), ValidateStartSchedules(starts))
                  EXCEPT !.mode = mode]]
    /\ Goto(p, "truncate")
    /\ UNCHANGED <<file, env, cfg, saved>>

\* Init up to write.
InitConfig(p) ==
    /\ BeginCall(p, "init")
    /\ file.is = "absent"
    /\ \E content \in {Migrated(defaults)} \cup
              {WithStarts(defaults, ValidateStartSchedules(starts)) : starts \in Starts} :
          data' = [data EXCEPT ![p] = [content EXCEPT !.keys = "file"]]
    /\ Goto(p, "truncate")
    /\ UNCHANGED <<file, env, cfg, saved>>

\* os.WriteFile opens the file with O_TRUNC.
Truncate(p) ==
    /\ pc[p] = "truncate"
    /\ file' = Empty
    /\ Goto(p, "put")
    /\ UNCHANGED <<env, op, cfg, data, saved, overlapped>>

\* os.WriteFile writes.  Over what another writer has put meanwhile, the longer
\* content keeps its tail.
Put(p) ==
    /\ pc[p] = "put"
    /\ \/ file' = File(data[p])
       \/ /\ file \notin {Empty, File(data[p])}
          /\ file' = [is |-> "garbled", content |-> defaults]
    /\ saved' = IF op[p] = "load" THEN saved
                ELSE [known |-> TRUE, mode |-> data[p].mode, starts |-> data[p].starts]
    /\ Goto(p, "idle")
    /\ op' = [op EXCEPT ![p] = "load"] /\ data' = [data EXCEPT ![p] = defaults]
    /\ UNCHANGED <<env, cfg, overlapped>>

Crash ==
    /\ Crashes
    /\ overlapped' = (overlapped \/ \E p \in Proc : ~Idle(p))
    /\ pc' = [p \in Proc |-> "idle"] /\ op' = [p \in Proc |-> "load"]
    /\ cfg' = [p \in Proc |-> defaults] /\ data' = [p \in Proc |-> defaults]
    /\ UNCHANGED <<file, env, saved>>

Init ==
    /\ \/ file = [is |-> "absent", content |-> defaults]
       \/ \E l \in Legacy :
            file = File([defaults EXCEPT !.keys = "file", !.windows = l.windows,
                                         !.weekdays = l.weekdays])
    /\ env \in Environments
    /\ pc = [p \in Proc |-> "idle"] /\ op = [p \in Proc |-> "load"]
    /\ cfg = [p \in Proc |-> defaults] /\ data = [p \in Proc |-> defaults]
    /\ saved = [known |-> FALSE, mode |-> "auto", starts |-> {}]
    /\ overlapped = FALSE

Next ==
    \/ \E p \in Proc : \/ Load(p) \/ ReadRaw(p) \/ SaveSettings(p) \/ InitConfig(p)
                       \/ Truncate(p) \/ Put(p)
    \/ Crash

Spec == Init /\ [][Next]_vars

-----------------------------------------------------------------------------
\* Every variable keeps its type.
TypeOK ==
    /\ file.is \in {"absent", "garbled", "whole"} /\ file.content \in Content
    /\ env \subseteq Setting
    /\ pc \in [Proc -> {"idle", "migrate", "truncate", "put"}]
    /\ op \in [Proc -> {"load", "save", "init"}]
    /\ cfg \in [Proc -> Content] /\ data \in [Proc -> Content]
    /\ saved \in [known : BOOLEAN, mode : Mode, starts : SUBSET Rule]
    /\ overlapped \in BOOLEAN

Settled == \A p \in Proc : Idle(p)

FileIsSaved ==
    /\ file.is = "whole"
    /\ file.content.keys = "file" /\ file.content.mode = saved.mode
    /\ file.content.hasStarts /\ file.content.starts = saved.starts

\* As long as calls do not overlap, the file holds the settings that were
\* saved last, and the keys: no Load migrates them away, no save loses the
\* rest of the file (Load, SaveSettings, Init).
SavedIsKept == ~overlapped /\ Settled /\ saved.known => FileIsSaved

\* README.md:35: the configuration is kept in the data directory.  So the
\* account keys stay in the file, whichever calls run at the same time (Load,
\* SaveSettings, Init), two writers that garble each other's text aside.
KeysSurvive ==
    Settled /\ saved.known => file.is = "garbled" \/ file.content.keys = "file"

\* The keys and the power mode of the environment are never written into the
\* file, whichever calls overlap: SaveSettings starts from the file alone, and
\* the migration adds one key to it (loadFileOnly, persistMigratedStartSchedules).
EnvironmentNotPersisted ==
    /\ file.content.keys # "env"
    /\ \A p \in Proc : data[p].keys # "env"
    /\ EnvMode \notin SavedModes => file.content.mode # EnvMode

\* What Load is about to migrate covers exactly the instants the old stop
\* windows left (README.md:216, migrateStopSchedules).
MigrationIsComplement ==
    \A p \in Proc : pc[p] = "migrate" =>
        IsComplement(cfg[p].windows, cfg[p].weekdays, cfg[p].starts)
=============================================================================
