---------------------------- MODULE ServerConfig ----------------------------
(***************************************************************************)
(* The files that say which servers the conductor runs, and the operations *)
(* that rewrite them: the server's tools (mcp-server.ts), the commands of  *)
(* the CLI (bin/cli.ts, cli/commands, cli/wizard) and config/loader.ts.    *)
(*                                                                         *)
(* An operation reads a file, changes what it has read and writes all of   *)
(* it, without a lock: within a process nothing comes between, but the     *)
(* server and a CLI command are two processes.  Writing truncates first.   *)
(*                                                                         *)
(* One Claude file stands for all of them.  A server definition is "own"   *)
(* (given to add or update) or "claude" (found in the Claude file); the    *)
(* flag "exclusive" and the routing hints only travel along.               *)
(***************************************************************************)
EXTENDS FiniteSets

CONSTANTS
    ServerNames,
    AlternativeNames    \* what the alternative file has, if it is there

ASSUME ServerConfigAssumption == AlternativeNames \subseteq ServerNames

VARIABLES
    primary,      \* ~/.mcp-conductor.json, where everything is saved
    alternative,  \* the other place it is read from
    envPath,      \* CONDUCTOR_CONFIG names the alternative, which is then
                  \* read first (a name that leads nowhere is as good as none)
    claude,       \* the Claude file
    backups,      \* the names that are in a backup of it
    defaults,     \* DEFAULT_CONDUCTOR_CONFIG.servers of the server process,
                  \* and of the command that runs
    pending,      \* the operation of each process that has read
    expected,     \* history: the definitions the answers speak of, kept until
    atFault       \* history: one of the four ways they may go wrong

scVars == <<primary, alternative, envPath, claude, backups, defaults, pending, expected, atFault>>

Processes == {"server", "cli"}
NoServers == [n \in ServerNames |-> "none"]
Missing == [is |-> "missing"]
Corrupt == [is |-> "corrupt"]
File(servers) == [is |-> "ok", servers |-> servers]
NoOperation == [op |-> "none"]
Idle(p) == pending[p] = NoOperation
Named(servers) == {n \in ServerNames : servers[n] # "none"}

\* findConductorConfig.
found == IF envPath /\ alternative # Missing THEN alternative
         ELSE IF primary # Missing THEN primary ELSE alternative

\* loadConductorConfig: a file that cannot be parsed is the default object,
\* the very one, which its reader then changes.
Parses == found.is = "ok"
loaded(p) == IF Parses THEN found.servers
             ELSE IF found = Corrupt THEN defaults[p] ELSE NoServers
InClaude == IF claude.is = "ok" THEN Named(claude.servers) ELSE {}

SCInit ==
    /\ primary = Missing
    /\ alternative \in {Missing, File([n \in ServerNames |-> IF n \in AlternativeNames THEN "own" ELSE "none"])}
    /\ envPath \in {FALSE, alternative # Missing}
    /\ claude = File([n \in ServerNames |-> "claude"])
    /\ backups = {}
    /\ defaults = [p \in Processes |-> NoServers]
    /\ pending = [p \in Processes |-> NoOperation]
    /\ expected = IF Parses THEN found.servers ELSE NoServers
    /\ atFault = FALSE

-----------------------------------------------------------------------------
\* Process p has read and changed the servers; taken are the names its answer
\* will be about, seen those it found in the Claude file.  Two processes that
\* have both read, and a file that is read here and saved there, are at fault.
Begins(p, op, servers, taken, stage) ==
    /\ Idle(p)
    /\ pending' = [pending EXCEPT ![p] =
           [op |-> op, stage |-> stage, servers |-> servers, taken |-> taken,
            seen |-> IF op = "wizard" THEN InClaude ELSE {}]]
    /\ defaults' = IF found = Corrupt THEN [defaults EXCEPT ![p] = servers] ELSE defaults
    /\ atFault' = (atFault \/ (\E q \in Processes : ~Idle(q)) \/ (envPath /\ alternative # Missing))
    /\ expected' = IF atFault' THEN NoServers ELSE expected
    /\ UNCHANGED <<primary, alternative, envPath, claude>>

\* add_server, and the command add: refused when the name is taken.
adds(p, n) ==
    /\ loaded(p)[n] = "none"
    /\ Begins(p, "put", [loaded(p) EXCEPT ![n] = "own"], {n}, "save")
    /\ UNCHANGED backups
add_server(n) == adds("server", n)
cliAdd(n) == adds("cli", n)

remove_server(n) ==
    /\ found # Missing /\ loaded("server")[n] # "none"
    /\ Begins("server", "remove", [loaded("server") EXCEPT ![n] = "none"], {n}, "save")
    /\ UNCHANGED backups

update_server(n) ==
    /\ found # Missing /\ loaded("server")[n] # "none"
    /\ Begins("server", "put", [loaded("server") EXCEPT ![n] = "own"], {n}, "save")
    /\ UNCHANGED backups

\* getRoutingRecommendations with apply: every definition gets a hint.
getRoutingRecommendations(p) ==
    /\ found # Missing /\ loaded(p) # NoServers
    /\ Begins(p, "routing", loaded(p), {}, "save")
    /\ UNCHANGED backups

Imported(p) == {n \in InClaude : loaded(p)[n] = "none"}
WithImported(p) == [n \in ServerNames |-> IF n \in Imported(p) THEN "claude" ELSE loaded(p)[n]]

\* importServers as a dry run: nothing is written.
importDryRun(p) ==
    /\ Idle(p) /\ Imported(p) # {}
    /\ defaults' = IF p = "server" /\ found = Corrupt
                   THEN [defaults EXCEPT ![p] = WithImported(p)] ELSE defaults
    /\ UNCHANGED <<primary, alternative, envPath, claude, backups, pending, expected, atFault>>

\* Mutant: a backup only where the originals stay.
importServers_BackupForCopies(p, op) ==
    /\ Imported(p) # {}
    /\ Begins(p, op, WithImported(p), Imported(p), "save")
    /\ backups' = IF op = "import" THEN backups \cup InClaude ELSE backups

\* importServers up to the backup of the source, with or without
\* removeOriginals.
importServers(p, op) ==
    /\ Imported(p) # {}
    /\ Begins(p, op, WithImported(p), Imported(p), "save")
    /\ backups' = backups \cup InClaude

\* The tool, which imports only on confirmation, and the command import; the
\* legacy wizard does what the command does, when it is confirmed.
import_servers_from_claude == importDryRun("server") \/ \E op \in {"import", "strip"} : importServers("server", op)
runLegacySetupWizard == \E op \in {"import", "strip"} : importServers("cli", op)
cliImport == importDryRun("cli") \/ runLegacySetupWizard

\* The tool recommend_routing and the command routing.
recommend_routing == getRoutingRecommendations("server")
cliRouting == getRoutingRecommendations("cli")

\* The wizard for the Claude file, mergeIntoConductor: nothing is saved when
\* nothing is new.
mergeIntoConductor ==
    /\ InClaude # {}
    /\ IF Imported("cli") # {}
       THEN Begins("cli", "wizard", WithImported("cli"), Imported("cli"), "save")
       ELSE Begins("cli", "wizard", NoServers, {}, "rest")
    /\ UNCHANGED backups

-----------------------------------------------------------------------------
\* These take no notice of a save that failed.
Careless == {"import", "strip", "wizard", "routing"}
Said(p) ==
    expected' = [n \in ServerNames |->
        IF atFault' THEN "none"
        ELSE IF n \notin pending[p].taken THEN expected[n]
        ELSE CASE pending[p].op = "remove" -> "none"
               [] pending[p].op = "put" -> "own"
               [] OTHER -> "claude"]

\* A command ends, and with it its default object.
Ends(p) ==
    /\ pending' = [pending EXCEPT ![p] = NoOperation]
    /\ defaults' = IF p = "cli" THEN [defaults EXCEPT ![p] = NoServers] ELSE defaults
AfterSave(p) ==
    IF pending[p].op \in {"strip", "wizard"}
    THEN /\ pending' = [pending EXCEPT ![p].stage = "rest", ![p].servers = NoServers,
                           ![p].taken = IF pending[p].op = "strip" THEN @ ELSE {}]
         /\ UNCHANGED defaults
    ELSE Ends(p)
At(p, stage) == ~Idle(p) /\ pending[p].stage = stage

\* saveConductorConfig.
saveConductorConfig(p) ==
    /\ At(p, "save")
    /\ primary' = File(pending[p].servers)
    /\ UNCHANGED atFault
    /\ Said(p) /\ AfterSave(p)
    /\ UNCHANGED <<alternative, envPath, claude, backups>>

\* It could not open the file, or failed after it had truncated it.
saveFails(p) ==
    /\ At(p, "save")
    /\ primary' \in {primary, Corrupt}
    /\ atFault' = (atFault \/ primary' = Corrupt \/ pending[p].op \in Careless)
    /\ expected' = IF atFault' THEN NoServers ELSE expected
    /\ AfterSave(p)
    /\ UNCHANGED <<alternative, envPath, claude, backups>>

\* stripServersFromConfig reads the source again.
stripServersFromConfig(p) ==
    /\ At(p, "rest") /\ pending[p].op = "strip"
    /\ claude' = IF claude = Corrupt THEN claude
                 ELSE File([n \in ServerNames |-> IF n \in pending[p].taken THEN "none" ELSE claude.servers[n]])
    /\ Ends(p)
    /\ UNCHANGED <<primary, alternative, envPath, backups, expected, atFault>>

\* The adapter's serialize(): a backup, then what the wizard had read, with
\* the conductor's own entry.
installConductor ==
    /\ At("cli", "rest") /\ pending["cli"].op = "wizard"
    /\ backups' = backups \cup InClaude
    /\ claude' = File([n \in ServerNames |-> IF n \in pending["cli"].seen THEN "claude" ELSE "none"])
    /\ Ends("cli")
    /\ UNCHANGED <<primary, alternative, envPath, expected, atFault>>

\* A process ends in the middle of an operation, maybe while it writes; the
\* wizard has its backup by then.
processCrash(p) ==
    /\ ~Idle(p)
    /\ pending' = [pending EXCEPT ![p] = NoOperation]
    /\ defaults' = [defaults EXCEPT ![p] = NoServers]
    /\ IF At(p, "save")
       THEN /\ primary' \in {primary, Corrupt}
            /\ UNCHANGED <<claude, backups>>
       ELSE /\ claude' \in {claude, Corrupt}
            /\ backups' = IF pending[p].op = "wizard" THEN backups \cup InClaude ELSE backups
            /\ UNCHANGED primary
    /\ atFault' = (atFault \/ primary' # primary)
    /\ expected' = IF atFault' THEN NoServers ELSE expected
    /\ UNCHANGED <<alternative, envPath>>

SCNext ==
    \/ \E p \in Processes :
          \/ saveConductorConfig(p) \/ saveFails(p) \/ stripServersFromConfig(p) \/ processCrash(p)
    \/ \E n \in ServerNames : add_server(n) \/ cliAdd(n) \/ remove_server(n) \/ update_server(n)
    \/ import_servers_from_claude \/ cliImport \/ recommend_routing \/ cliRouting
    \/ mergeIntoConductor \/ installConductor

SCSpec == SCInit /\ [][SCNext]_scVars

-----------------------------------------------------------------------------
(***************************************************************************)
(* What loadConductorConfig() reads when no operation is under way is what *)
(* the answers since the beginning say, wherever the file was read from    *)
(* before its first save.  It may be wrong in four ways only: the          *)
(* environment names another file than the one that is saved; a save was   *)
(* cut off; two processes worked at the same time; or an import, the       *)
(* wizard or the routing hints did not notice that their save failed.      *)
(***************************************************************************)
AnswersHold ==
    ~atFault /\ (\A p \in Processes : Idle(p)) =>
        loaded("server") = expected /\ loaded("cli") = expected

(***************************************************************************)
(* A server definition of the Claude file is in that file or in a backup   *)
(* of it, whatever failed, crashed or ran at the same time: it is copied   *)
(* before anything is stripped or written anew (importServers,             *)
(* ClientAdapter.serialize).                                               *)
(***************************************************************************)
NoDefinitionLost == ServerNames \subseteq InClaude \cup backups

\* The default object is only ever changed by a reader of a cut-off file.
DefaultsClean == ~atFault => defaults = [p \in Processes |-> NoServers]

SCTypeOK ==
    /\ {primary, alternative, claude} \subseteq
           {Missing, Corrupt} \cup {File(f) : f \in [ServerNames -> {"none", "own", "claude"}]}
    /\ backups \subseteq ServerNames
    /\ defaults \in [Processes -> [ServerNames -> {"none", "own", "claude"}]]
    /\ {envPath, atFault} \subseteq BOOLEAN

SCInv == SCTypeOK /\ AnswersHold /\ NoDefinitionLost /\ DefaultsClean
=============================================================================
