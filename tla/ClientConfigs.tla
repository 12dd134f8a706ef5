--------------------------- MODULE ClientConfigs ---------------------------
(***************************************************************************)
(* The configuration files of other MCP clients: one adapter per client    *)
(* (cli/clients) that reads the file and writes it again, the setup wizard *)
(* that moves servers into the conductor (cli/wizard/setup.ts) and the     *)
(* export of a client file (cli/commands/export-servers.ts).               *)
(*                                                                         *)
(* The adapters differ in what they read, in when they say that there is   *)
(* nothing to read, in what survives a rewrite and in how they back up; a  *)
(* record per adapter says so.  The user or the client may write the file  *)
(* at any moment.  An unreadable file and all keys but the servers' are    *)
(* left out.                                                               *)
(***************************************************************************)
EXTENDS Integers, FiniteSets

CONSTANTS
    EntryNames,     \* names of servers other than the conductor
    MaxEdits        \* bounds how often somebody else writes the file

ASSUME ClientConfigsAssumption == MaxEdits \in Nat

VARIABLES
    client,         \* the client whose file this is
    file,
    copies,         \* the backups next to it
    wizard,         \* what the wizard, or the export, does
    parsed,         \* what the wizard has last parsed
    edits,
    precious,       \* history: entries somebody has put there and not removed
    forsaken        \* history: entries lost in a write whose backup had failed

cfVars == <<client, file, copies, wizard, parsed, edits, precious, forsaken>>

(***************************************************************************)
(* An entry is a plain stdio server, one with fields the common form does  *)
(* not have (a timeout, a remote variable), one whose only such field is   *)
(* enabled: false, one that is foreign (a URL, type remote, a source that  *)
(* is not custom), or one without a command.                               *)
(***************************************************************************)
EntryKinds == {"plain", "extra", "disabled", "foreign", "broken"}
NoConfig == [is |-> "missing"]
BadFile == [is |-> "corrupt"]
ConfigFile(entries, conductor, section) ==
    [is |-> "ok", entries |-> entries, conductor |-> conductor, section |-> section]
NoEntries == [n \in EntryNames |-> "none"]
NamesIn(entries) == {n \in EntryNames : entries[n] # "none"}
EntriesOf(f) == IF f.is = "ok" THEN {<<n, f.entries[n]>> : n \in NamesIn(f.entries)} ELSE {}

-----------------------------------------------------------------------------
\* parse(): the kinds it takes, and what has to be there lest it returns null
\* (an entry, the section, an entry it takes, or nothing but a file).
Reads(kinds, unless) == [kinds |-> kinds, unless |-> unless]
StdioKinds == {"plain", "extra", "disabled"}

claudeCodeParse == Reads(StdioKinds, "entry")
claudeDesktopParse == Reads(StdioKinds, "section")
clineParse == Reads(EntryKinds, "entry")
codexParse == Reads(StdioKinds, "entry")
continueParse == Reads(StdioKinds, "entry")
cursorParse == Reads(StdioKinds, "entry")
geminiParse == Reads(StdioKinds, "section")
kimiParse == Reads(StdioKinds, "entry")
opencodeParse == Reads(StdioKinds \cup {"broken"}, "taken")
zedParse == Reads(StdioKinds, "file")

\* serialize(): the kinds whose extra fields survive, whether the entries that
\* parse() did not take do, and the backup before it: "made" when there is a file,
\* "tried" and forgotten when it fails, or "needed", without a file it throws.
Writes(keeps, rest, backup) == [keeps |-> keeps, rest |-> rest, backup |-> backup]

claudeCodeSerialize == Writes({}, FALSE, "made")
claudeDesktopSerialize == Writes({}, FALSE, "made")
clineSerialize == Writes({}, FALSE, "made")
codexSerialize == Writes({}, FALSE, "made")
continueSerialize == Writes({}, FALSE, "made")
cursorSerialize == Writes({}, FALSE, "made")
geminiSerialize == Writes({"extra", "disabled"}, FALSE, "tried")
kimiSerialize == Writes({}, TRUE, "made")
opencodeSerialize == Writes({"disabled"}, FALSE, "made")
zedSerialize == Writes({}, FALSE, "needed")

ADAPTERS == {
    "claude-code", "claude-desktop", "cline", "codex", "continue",
    "cursor", "gemini-cli", "kimi-code", "opencode", "zed"}

ParseOf == [c \in ADAPTERS |->
    CASE c = "claude-code" -> claudeCodeParse [] c = "claude-desktop" -> claudeDesktopParse
      [] c = "cline" -> clineParse            [] c = "codex" -> codexParse
      [] c = "continue" -> continueParse      [] c = "cursor" -> cursorParse
      [] c = "gemini-cli" -> geminiParse      [] c = "kimi-code" -> kimiParse
      [] c = "opencode" -> opencodeParse      [] c = "zed" -> zedParse]

SerializeOf == [c \in ADAPTERS |->
    CASE c = "claude-code" -> claudeCodeSerialize [] c = "claude-desktop" -> claudeDesktopSerialize
      [] c = "cline" -> clineSerialize            [] c = "codex" -> codexSerialize
      [] c = "continue" -> continueSerialize      [] c = "cursor" -> cursorSerialize
      [] c = "gemini-cli" -> geminiSerialize      [] c = "kimi-code" -> kimiSerialize
      [] c = "opencode" -> opencodeSerialize      [] c = "zed" -> zedSerialize]

Null == [is |-> "null"]

\* What parse() returns for a file: the servers, whether the conductor is one
\* of them, and the raw entries, which serialize() may use.
Parsed(c, f) ==
    LET taken == [n \in EntryNames |-> IF f.entries[n] \in ParseOf[c].kinds THEN f.entries[n] ELSE "none"]
        there == CASE ParseOf[c].unless = "file" -> TRUE
                   [] ParseOf[c].unless = "section" -> f.section
                   [] ParseOf[c].unless = "entry" -> f.conductor \/ NamesIn(f.entries) # {}
                   [] ParseOf[c].unless = "taken" -> f.conductor \/ NamesIn(taken) # {}
    IN IF f.is # "ok" THEN Null
       ELSE IF there THEN [is |-> "config", servers |-> taken, raw |-> f.entries, conductor |-> f.conductor]
       ELSE Null

\* The file serialize() writes for it: an entry without a command has nothing
\* left in the common form, and one that is read with extra fields loses them.
Rewritten(c, config) ==
    LET Common(n) ==
            CASE config.servers[n] \in {"extra", "disabled"} ->
                    IF config.servers[n] \in SerializeOf[c].keeps THEN config.servers[n] ELSE "plain"
              [] config.servers[n] = "foreign" -> "broken"
              [] config.servers[n] = "none" -> IF SerializeOf[c].rest THEN config.raw[n] ELSE "none"
              [] OTHER -> config.servers[n]
    IN ConfigFile([n \in EntryNames |-> Common(n)], TRUE, TRUE)

-----------------------------------------------------------------------------
ClientFiles ==
    {NoConfig, BadFile, ConfigFile(NoEntries, FALSE, FALSE)}
    \cup UNION {{ConfigFile(e, c, TRUE) : e \in [EntryNames -> EntryKinds \cup {"none"}]} : c \in BOOLEAN}

CFInit ==
    /\ client \in ADAPTERS
    /\ file \in ClientFiles
    /\ copies = {} /\ wizard = "idle" /\ parsed = Null /\ edits = 0
    /\ precious = EntriesOf(file)
    /\ forsaken = {}

\* Somebody else puts an entry there, takes one away, or deletes the file.  In
\* the moment between the backup and the write nobody can save what he wrote.
edited(n) ==
    /\ edits < MaxEdits /\ edits' = edits + 1
    /\ wizard \notin {"copied", "uncopied"}
    /\ \/ /\ file.is = "ok"
          /\ \E kind \in EntryKinds \cup {"none"} :
                /\ file' = ConfigFile([file.entries EXCEPT ![n] = kind], file.conductor, TRUE)
                /\ precious' = (precious \ {<<n, file.entries[n]>>}) \cup ({<<n, kind>>} \ {<<n, "none">>})
                /\ forsaken' = forsaken \ {<<n, kind>>}
       \/ file' = NoConfig /\ precious' = precious \ EntriesOf(file) /\ UNCHANGED forsaken
    /\ UNCHANGED <<client, copies, wizard, parsed>>

\* runMultiClientSetupWizard, first pass: nothing to do for a file that has
\* the conductor and nothing else.
discover ==
    /\ wizard = "idle"
    /\ LET p == Parsed(client, file) IN
          /\ p # Null
          /\ NamesIn(p.servers) # {} \/ ~p.conductor
    /\ wizard' = "asking"
    /\ UNCHANGED <<client, file, copies, parsed, edits, precious, forsaken>>

\* Confirmed: the file is parsed again.  mergeIntoConductor() is ServerConfig's
\* part: whether it could save makes no difference to what follows here.
migrate ==
    /\ wizard = "asking"
    /\ parsed' = Parsed(client, file)
    /\ wizard' = IF parsed' = Null THEN "idle" ELSE "merged"
    /\ UNCHANGED <<client, file, copies, edits, precious, forsaken>>

\* exportForClient: an empty document where there is no file, and then
\* serialize() with the conductor only.
exportForClient ==
    /\ wizard = "idle"
    /\ file' = IF file = NoConfig THEN ConfigFile(NoEntries, FALSE, FALSE) ELSE file
    /\ parsed' = Null /\ wizard' = "merged"
    /\ UNCHANGED <<client, copies, edits, precious, forsaken>>

\* Mutant: a backup is made only for an export.
backUp_ForExport ==
    /\ wizard = "merged"
    /\ wizard' = "copied"
    /\ copies' = IF parsed = Null THEN copies \cup {file} ELSE copies
    /\ UNCHANGED <<client, file, parsed, edits, precious, forsaken>>

\* serialize() begins with its backup.  A copy that fails is an exception but
\* for the client that only tries; zed also needs the file to be there.
backUp ==
    /\ wizard = "merged"
    /\ \/ /\ file # NoConfig
          /\ copies' = copies \cup {file}
          /\ wizard' = "copied"
       \/ /\ SerializeOf[client].backup \in IF file = NoConfig THEN {"made", "tried"} ELSE {"tried"}
          /\ wizard' = IF file = NoConfig THEN "copied" ELSE "uncopied"
          /\ UNCHANGED copies
       \/ /\ SerializeOf[client].backup # "tried"
          /\ file # NoConfig \/ SerializeOf[client].backup = "needed"
          /\ wizard' = "idle"
          /\ UNCHANGED copies
    /\ UNCHANGED <<client, file, parsed, edits, precious, forsaken>>

Conductor == ConfigFile(NoEntries, TRUE, TRUE)
\* serialize() writes the file, which it has truncated before.  Without a
\* backup, what the file had and has no more is lost for good.
serialize ==
    /\ wizard \in {"copied", "uncopied"}
    /\ \/ file' = (IF parsed = Null THEN Conductor ELSE Rewritten(client, parsed)) /\ wizard' = "written"
       \/ file' = BadFile /\ wizard' = "idle"
    /\ forsaken' = IF wizard = "uncopied" THEN forsaken \cup (EntriesOf(file) \ EntriesOf(file')) ELSE forsaken
    /\ UNCHANGED <<client, copies, parsed, edits, precious>>

\* The wizard goes on to the next client; or it is declined, or interrupted.
wizardEnds ==
    /\ wizard # "idle" /\ wizard' = "idle"
    /\ UNCHANGED <<client, file, copies, parsed, edits, precious, forsaken>>

CFNext ==
    \/ \E n \in EntryNames : edited(n)
    \/ discover \/ migrate \/ exportForClient \/ backUp \/ serialize \/ wizardEnds

CFSpec == CFInit /\ [][CFNext]_cfVars

-----------------------------------------------------------------------------
(***************************************************************************)
(* What an adapter drops when it rewrites a file is in a backup: entries   *)
(* it did not understand, fields it does not know, and the whole file when *)
(* a write is cut off; whoever edits the file while the wizard waits for   *)
(* an answer is safe too ("backups before every write", cursor.ts).  The   *)
(* one exception is Gemini's adapter, which swallows the error of a backup *)
(* that fails and writes all the same (gemini-cli.ts:150-154): what the    *)
(* file loses then is forsaken.                                            *)
(***************************************************************************)
NothingDropped ==
    /\ precious \subseteq EntriesOf(file) \cup (UNION {EntriesOf(f) : f \in copies}) \cup forsaken
    /\ forsaken # {} => client = "gemini-cli"

(***************************************************************************)
(* A file the wizard has written parses again, to the servers it had       *)
(* parsed and the conductor, and a second run of the wizard would write    *)
(* the same file: for every adapter, each with its own idea of an empty    *)
(* file and of an entry.                                                   *)
(***************************************************************************)
RoundTrip ==
    wizard = "written" /\ parsed # Null /\ file = Rewritten(client, parsed) =>
        LET again == Parsed(client, file) IN
        /\ again # Null
        /\ again.conductor
        /\ NamesIn(again.servers) = NamesIn(parsed.servers)
        /\ Rewritten(client, again) = file

CFTypeOK ==
    /\ client \in ADAPTERS /\ file \in ClientFiles /\ copies \subseteq ClientFiles
    /\ wizard \in {"idle", "asking", "merged", "copied", "uncopied", "written"}
    /\ edits \in 0 .. MaxEdits /\ forsaken \subseteq EntryNames \X EntryKinds

CFInv == CFTypeOK /\ NothingDropped /\ RoundTrip
=============================================================================
