------------------------------ MODULE Settings ------------------------------
(***************************************************************************)
(* The settings methods of NodeImpl (src/node/interfaces.cpp 124-163) and  *)
(* of ChainImpl (624-662), called from several threads.                    *)
(*                                                                         *)
(* A method changes the settings in memory inside LockSettings and writes  *)
(* the settings file after the lock is released, so the changes and the    *)
(* writes of two callers interleave, and a write can fail.  A map of       *)
(* settings is a function on the names: Null for a name the map has not.   *)
(***************************************************************************)
EXTENDS Naturals, Sequences, FiniteSets

CONSTANTS
    Callers,               \* threads calling the interfaces
    Names,                 \* setting names
    Values,                \* non-null setting values
    Null,                  \* the null SettingsValue; std::nullopt
    command_line_options   \* Settings::command_line_options: name to values

VARIABLES
    rw_settings,      \* Settings::rw_settings
    forced_settings,  \* Settings::forced_settings
    file,             \* what settings.json holds
    backup,           \* what settings.json.bak holds, Null without the file
    call,             \* per caller: the method it is in
    unsaved           \* history: the callers whose change no write has saved

vars == <<rw_settings, forced_settings, file, backup, call, unsaved>>

SettingsMap == [Names -> Values \cup {Null}]
Empty == [name \in Names |-> Null]
SettingsAction == {"WRITE", "SKIP_WRITE"}
\* What a SettingsUpdate function does: the value it leaves, what it returns.
SettingsUpdate == [value : Values \cup {Null},
                   action : SettingsAction \cup {Null}]

Idle == [pc |-> "idle"]
Returned(c) == call[c].pc = "done"

-----------------------------------------------------------------------------
(* ArgsManager *)

\* WriteSettingsFile: under cs_args, rw_settings to a temporary file that is
\* renamed over the old one; ok is whether both steps worked.
WriteSettingsFile(ok) ==
    /\ file' = IF ok THEN rw_settings ELSE file
    /\ unsaved' = IF ok THEN {} ELSE unsaved

WriteBackup(ok) == backup' = IF ok THEN rw_settings ELSE backup

\* A change of rw_settings by caller c inside LockSettings.
Change(c, settings) ==
    /\ rw_settings' = settings
    /\ unsaved' = unsaved \cup {c}

-----------------------------------------------------------------------------
(* NodeImpl *)

isSettingIgnored(name) ==
    name \in DOMAIN command_line_options /\ command_line_options[name] # {}

\* erase for a null value, assignment for another
Assign(settings, name, value) == [settings EXCEPT ![name] = value]

NodeImpl_updateRwSetting(c, name, value) ==
    /\ call[c] = Idle
    /\ Change(c, Assign(rw_settings, name, value))
    /\ call' = [call EXCEPT ![c] = [pc |-> "node_write"]]
    /\ UNCHANGED <<forced_settings, file, backup>>

\* The write of NodeImpl::updateRwSetting; nobody looks at its result.
NodeImpl_write(c) ==
    /\ call[c].pc = "node_write"
    /\ \E ok \in BOOLEAN :
         /\ WriteSettingsFile(ok)
         /\ call' = [call EXCEPT ![c] = [pc |-> "done", wrote |-> ok]]
    /\ UNCHANGED <<rw_settings, forced_settings, backup>>

forceSetting(c, name, value) ==
    /\ call[c] = Idle
    /\ forced_settings' = Assign(forced_settings, name, value)
    /\ UNCHANGED <<rw_settings, file, backup, call, unsaved>>

\* Mutation: the file is written before the settings are cleared.
resetSettings_WritesFirst == <<"backup", "write", "clear">>

\* The three statements of resetSettings.
resetSettings == <<"backup", "clear", "write">>

resetSettingsCall(c) ==
    /\ call[c] = Idle
    /\ call' = [call EXCEPT ![c] = [pc |-> "reset", todo |-> resetSettings,
                                    wrote |-> FALSE]]
    /\ UNCHANGED <<rw_settings, forced_settings, file, backup, unsaved>>

Doing(c, step) ==
    call[c].pc = "reset" /\ call[c].todo # <<>> /\ Head(call[c].todo) = step

resetSettingsBackup(c) ==
    /\ Doing(c, "backup")
    /\ \E ok \in BOOLEAN : WriteBackup(ok)
    /\ call' = [call EXCEPT ![c].todo = Tail(@)]
    /\ UNCHANGED <<rw_settings, forced_settings, file, unsaved>>

resetSettingsClear(c) ==
    /\ Doing(c, "clear")
    /\ Change(c, Empty)
    /\ call' = [call EXCEPT ![c].todo = Tail(@)]
    /\ UNCHANGED <<forced_settings, file, backup>>

resetSettingsWrite(c) ==
    /\ Doing(c, "write")
    /\ \E ok \in BOOLEAN :
         /\ WriteSettingsFile(ok)
         /\ call' = [call EXCEPT ![c].todo = Tail(@), ![c].wrote = ok]
    /\ UNCHANGED <<rw_settings, forced_settings, backup>>

resetSettingsReturn(c) ==
    /\ call[c].pc = "reset"
    /\ call[c].todo = <<>>
    /\ call' = [call EXCEPT ![c] = [pc |-> "done", wrote |-> call[c].wrote]]
    /\ UNCHANGED <<rw_settings, forced_settings, file, backup, unsaved>>

-----------------------------------------------------------------------------
(* ChainImpl *)

getRwSetting(name) == rw_settings[name]

\* Mutation: the result of the write is dropped, as NodeImpl does.
WriteResult_Dropped(ok) == TRUE

\* *action != WRITE || WriteSettingsFile()
WriteResult(ok) == ok

\* What the caller is left with once update_settings_func has answered.
AfterUpdate(action) ==
    CASE action = Null -> [pc |-> "done", wrote |-> FALSE, ret |-> FALSE]
      [] action = "SKIP_WRITE" -> [pc |-> "done", wrote |-> FALSE, ret |-> TRUE]
      [] OTHER -> [pc |-> "chain_write", action |-> action]

\* The update under the lock, and the returns that need no write.
ChainImpl_updateRwSetting(c, name, update_settings_func) ==
    /\ call[c] = Idle
    /\ Change(c, Assign(rw_settings, name, update_settings_func.value))
    /\ call' = [call EXCEPT ![c] = AfterUpdate(update_settings_func.action)]
    /\ UNCHANGED <<forced_settings, file, backup>>

ChainImpl_write(c) ==
    /\ call[c].pc = "chain_write"
    /\ \E ok \in BOOLEAN :
         /\ WriteSettingsFile(ok)
         /\ call' = [call EXCEPT ![c] = [pc |-> "done", wrote |-> ok,
                                         ret |-> WriteResult(ok),
                                         action |-> call[c].action]]
    /\ UNCHANGED <<rw_settings, forced_settings, backup>>

overwriteRwSetting(c, name, value, action) ==
    ChainImpl_updateRwSetting(c, name, [value |-> value, action |-> action])

deleteRwSettings(c, name, action) == overwriteRwSetting(c, name, Null, action)

-----------------------------------------------------------------------------

Return(c) ==
    /\ Returned(c)
    /\ call' = [call EXCEPT ![c] = Idle]
    /\ UNCHANGED <<rw_settings, forced_settings, file, backup, unsaved>>

Init ==
    /\ rw_settings = Empty
    /\ forced_settings = Empty
    /\ file = Empty
    /\ backup = Null
    /\ call = [c \in Callers |-> Idle]
    /\ unsaved = {}

Next ==
    \E c \in Callers :
        \/ \E name \in Names, value \in Values \cup {Null} :
              \/ NodeImpl_updateRwSetting(c, name, value)
              \/ forceSetting(c, name, value)
              \/ \E action \in SettingsAction :
                    \/ overwriteRwSetting(c, name, value, action)
                    \/ deleteRwSettings(c, name, action)
        \/ \E name \in Names, func \in SettingsUpdate :
              ChainImpl_updateRwSetting(c, name, func)
        \/ NodeImpl_write(c)
        \/ ChainImpl_write(c)
        \/ resetSettingsCall(c)
        \/ resetSettingsBackup(c)
        \/ resetSettingsClear(c)
        \/ resetSettingsWrite(c)
        \/ resetSettingsReturn(c)
        \/ Return(c)

Spec == Init /\ [][Next]_vars

-----------------------------------------------------------------------------

\* The type of the state: the settings in memory, the file and its backup,
\* and per caller the step of the method it is in.
TypeOK ==
    /\ rw_settings \in SettingsMap
    /\ forced_settings \in SettingsMap
    /\ file \in SettingsMap
    /\ backup \in SettingsMap \cup {Null}
    /\ unsaved \subseteq Callers
    /\ \A c \in Callers :
         /\ call[c].pc \in {"idle", "node_write", "chain_write", "reset", "done"}
         /\ call[c].pc = "reset" =>
                call[c].todo \in Seq({"backup", "clear", "write"})
         /\ call[c].pc \in {"reset", "done"} => call[c].wrote \in BOOLEAN
         /\ call[c].pc = "chain_write" => call[c].action = "WRITE"

\* A method that changes rw_settings and then writes the settings file has
\* its own change on disk when its write succeeded, whatever other callers
\* changed and wrote in between (NodeImpl::updateRwSetting, resetSettings,
\* ChainImpl::updateRwSetting: change inside LockSettings, WriteSettingsFile
\* after it); and when every change is saved the file is the memory.
SavedWhenWritten ==
    /\ \A c \in Callers : (Returned(c) /\ call[c].wrote) => c \notin unsaved
    /\ unsaved = {} => file = rw_settings

\* ChainImpl::updateRwSetting, overwriteRwSetting and deleteRwSettings with
\* SettingsAction::WRITE return true only when the caller's change is in the
\* settings file: a failed write is reported although the change stays in
\* memory.
TrueMeansSaved ==
    \A c \in Callers :
        (Returned(c) /\ "action" \in DOMAIN call[c] /\ call[c].ret)
            => c \notin unsaved

=============================================================================
