---------------------------- MODULE ConfigWatcher ----------------------------
(***************************************************************************)
(* The watcher of the configuration file (src/src/watcher) and the hub's   *)
(* reload it triggers.  The library that watches the file gives no event   *)
(* once close() was called; close() itself takes time.                     *)
(***************************************************************************)
EXTENDS Naturals

CONSTANT MaxReloads    \* reloads that run at the same time (bounds the model)

ASSUME ConfigWatcherAssumption == MaxReloads \in Nat

VARIABLES
    watching,      \* "off", "on" or "closing" (stop() waits for close())
    isRunning,
    debounceTimer, \* armed
    reloads,       \* the reloads that have not ended
    exclusive,     \* the conductor's own configuration is exclusive and has servers
    fileSeen,      \* history: "changed" when no reload began since the file did,
                   \* "read", or "passedOver" by one that had no use for it
    promised       \* history: the last start() answered true, no stop() was
                   \* called after it, and none was under way

cwVars == <<watching, isRunning, debounceTimer, reloads, exclusive, fileSeen, promised>>

CWInit ==
    /\ watching = "off" /\ isRunning = FALSE /\ debounceTimer = FALSE
    /\ reloads = 0 /\ exclusive \in BOOLEAN /\ fileSeen = "read" /\ promised = FALSE

\* start: true when it runs already, even if it is being stopped; false when
\* there is no file.
startWatching ==
    \/ /\ isRunning
       /\ promised' = (watching = "on")
       /\ UNCHANGED <<watching, isRunning, debounceTimer, reloads, exclusive, fileSeen>>
    \/ /\ ~isRunning
       /\ watching' = "on" /\ isRunning' = TRUE
       /\ promised' = TRUE /\ fileSeen' = "read"
       /\ UNCHANGED <<debounceTimer, reloads, exclusive>>
    \/ /\ ~isRunning
       /\ promised' = FALSE
       /\ UNCHANGED <<watching, isRunning, debounceTimer, reloads, exclusive, fileSeen>>

\* stop: the timer goes at once, the rest when the watcher is closed, by this
\* call or by one that was there before.
stopWatching ==
    /\ debounceTimer' = FALSE
    /\ promised' = FALSE
    /\ watching' = IF watching = "on" THEN "closing" ELSE watching
    /\ isRunning' = (isRunning /\ watching # "off")
    /\ UNCHANGED <<reloads, exclusive, fileSeen>>
watcherClosed ==
    /\ watching = "closing"
    /\ watching' = "off" /\ isRunning' = FALSE
    /\ UNCHANGED <<debounceTimer, reloads, exclusive, fileSeen, promised>>

\* Mutant: a change while a reload runs is taken for its own.
handleChange_Ignored ==
    /\ watching = "on"
    /\ debounceTimer' = (debounceTimer \/ reloads = 0)
    /\ fileSeen' = "changed"
    /\ UNCHANGED <<watching, isRunning, reloads, exclusive, promised>>

\* handleChange: the timer is armed, or armed again.
handleChange ==
    /\ watching = "on"
    /\ debounceTimer' = TRUE
    /\ fileSeen' = "changed"
    /\ UNCHANGED <<watching, isRunning, reloads, exclusive, promised>>

\* Somebody edits the conductor's own configuration, which nobody watches.
conductorEdited ==
    /\ exclusive' = ~exclusive
    /\ UNCHANGED <<watching, isRunning, debounceTimer, reloads, fileSeen, promised>>

\* hub.reload() up to its first await: discoverServers() reads the conductor's
\* configuration, and the watched file unless that one is exclusive.
reload ==
    /\ reloads < MaxReloads
    /\ reloads' = reloads + 1
    /\ fileSeen' = IF ~exclusive THEN "read" ELSE IF fileSeen = "changed" THEN "passedOver" ELSE fileSeen
    /\ UNCHANGED exclusive

\* configChanged: a reload that runs is not waited for.
configChanged ==
    /\ debounceTimer
    /\ debounceTimer' = FALSE
    /\ reload
    /\ UNCHANGED <<watching, isRunning, promised>>

\* triggerReload, with a path to watch.
triggerReload ==
    /\ isRunning
    /\ reload
    /\ UNCHANGED <<watching, isRunning, debounceTimer, promised>>

reloadEnds ==
    /\ reloads > 0
    /\ reloads' = reloads - 1
    /\ UNCHANGED <<watching, isRunning, debounceTimer, exclusive, fileSeen, promised>>

CWNext == \/ startWatching \/ stopWatching \/ watcherClosed \/ handleChange \/ configChanged
          \/ triggerReload \/ reloadEnds \/ conductorEdited

CWSpec == CWInit /\ [][CWNext]_cwVars

-----------------------------------------------------------------------------
(***************************************************************************)
(* A change of the watched file is followed by a reload that began after   *)
(* it, or is waiting for its timer, whatever reloads run (handleChange);   *)
(* only a reload that finds the conductor's configuration exclusive passes *)
(* the file over, and then the change stays unread until the next one.  A  *)
(* closed watcher triggers nothing, and one that promised to watch does;   *)
(* only a promise made while it was being closed does not count (start).   *)
(***************************************************************************)
ChangesRead ==
    /\ fileSeen = "changed" /\ watching = "on" => debounceTimer
    /\ debounceTimer => watching = "on"
    /\ watching = "on" => isRunning
    /\ promised => watching = "on"

CWTypeOK ==
    /\ watching \in {"off", "on", "closing"}
    /\ {isRunning, debounceTimer, exclusive, promised} \subseteq BOOLEAN
    /\ fileSeen \in {"changed", "read", "passedOver"}
    /\ reloads \in 0 .. MaxReloads

CWInv == CWTypeOK /\ ChangesRead
=============================================================================
