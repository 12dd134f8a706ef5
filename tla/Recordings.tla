----------------------------- MODULE Recordings -----------------------------
(***************************************************************************)
(* The replay recorder (src/src/observability/replay.ts): sessions, their  *)
(* journals on disk, the rotation of old files, and replay with            *)
(* modifications.  A journal is the sequence of its lines; a crash may     *)
(* leave the last one incomplete.  One line counts as one byte.            *)
(***************************************************************************)
EXTENDS Naturals, Sequences, FiniteSets, Queues

CONSTANTS
    Recordings,      \* session ids
    MaxTotalBytes,   \* maxTotalBytes
    MaxEvents        \* lines of one journal (bounds the model)

ASSUME RecordingsAssumption == MaxTotalBytes \in Nat /\ MaxEvents \in Nat

VARIABLES
    session,    \* activeSessions: seq, or inactive
    journal,    \* the files, or NoFile
    byAge,      \* the existing files, oldest modification first
    unsafe      \* history: the ids whose file was rotated away, or claimed
                \* again, while their session was active

recVars == <<session, journal, byAge, unsafe>>

NoFile == <<[seq |-> 0, type |-> "no file"]>>
Inactive == [active |-> FALSE, seq |-> 0]
EventTypes == {"tool_call", "tool_result", "code_result"}
Half == [seq |-> 0, type |-> "half a line"]

RecInit ==
    /\ session = [r \in Recordings |-> Inactive]
    /\ journal = [r \in Recordings |-> NoFile]
    /\ byAge = <<>>
    /\ unsafe = {}

Exists(r) == journal[r] # NoFile
dirTotalBytes(age) ==
    LET from[i \in 0 .. Len(age)] == IF i = 0 THEN 0 ELSE from[i - 1] + Len(journal[age[i]])
    IN  from[Len(age)]

\* r is the newest, and those in gone are no more.
Newer(r, gone) == Append(Filtered(byAge, {i \in DOMAIN byAge : byAge[i] # r /\ byAge[i] \notin gone}), r)
Touched(r) == Newer(r, {})

-----------------------------------------------------------------------------
\* rotate: the fewest oldest files whose removal is enough.
rotated == LET fits == {n \in 0 .. Len(byAge) : dirTotalBytes(SubSeq(byAge, n + 1, Len(byAge))) <= MaxTotalBytes}
               n == CHOOSE n \in fits : \A k \in fits : n <= k
           IN  SubSeq(byAge, 1, n)

\* startRecording: rotate, claim the file by emptying it, register.
startRecording(r) ==
    LET gone == {rotated[i] : i \in DOMAIN rotated}
    IN  /\ journal' = [x \in Recordings |-> IF x = r THEN <<>> ELSE IF x \in gone THEN NoFile ELSE journal[x]]
        /\ byAge' = Newer(r, gone)
        /\ session' = [session EXCEPT ![r] = [active |-> TRUE, seq |-> 0]]
        /\ unsafe' = (unsafe \cup {x \in gone : session[x].active}) \ {r}

stopRecording(r) ==
    /\ session[r].active
    /\ session' = [session EXCEPT ![r] = Inactive]
    /\ UNCHANGED <<journal, byAge, unsafe>>

\* Mutant: the number is taken from the file.
appendEvent_Renumbers(r, type) ==
    /\ session[r].active /\ session[r].seq < MaxEvents
    /\ session' = [session EXCEPT ![r].seq = @ + 1]
    /\ journal' = [journal EXCEPT ![r] =
                      Append(IF Exists(r) THEN @ ELSE <<>>, [seq |-> IF Exists(r) THEN Len(@) ELSE 0, type |-> type])]
    /\ byAge' = Touched(r)
    /\ UNCHANGED unsafe

\* appendEvent, of recordToolCall, recordToolResult and recordCodeResult: the
\* file is made again when it is gone.
appendEvent(r, type) ==
    /\ session[r].active /\ session[r].seq < MaxEvents
    /\ session' = [session EXCEPT ![r].seq = @ + 1]
    /\ journal' = [journal EXCEPT ![r] =
                      Append(IF Exists(r) THEN @ ELSE <<>>, [seq |-> session[r].seq, type |-> type])]
    /\ byAge' = Touched(r)
    /\ UNCHANGED unsafe

\* The process ends, maybe in the middle of a line.
recorderCrash ==
    /\ session' = [r \in Recordings |-> Inactive]
    /\ \/ UNCHANGED <<journal, byAge>>
       \/ \E r \in Recordings :
             /\ session[r].active /\ Exists(r)
             /\ journal' = [journal EXCEPT ![r] = Append(@, Half)]
             /\ byAge' = Touched(r)
    /\ UNCHANGED unsafe

RecNext ==
    \/ \E r \in Recordings :
          \/ startRecording(r) \/ stopRecording(r)
          \/ \E type \in EventTypes : appendEvent(r, type)
    \/ recorderCrash

RecSpec == RecInit /\ [][RecNext]_recVars

-----------------------------------------------------------------------------
\* loadRecording throws on a missing file and on a line that is no JSON.
Loads(r) == Exists(r) /\ \A i \in DOMAIN journal[r] : journal[r][i] # Half

\* replay: skipped events are left out, the others are numbered anew; a
\* replacement changes the result of a tool_result or of a code_result.
\* Results are "recorded" or "replaced".
Kept(events, mods) == Filtered(events, {i \in DOMAIN events : mods[events[i].seq] # "skip"})
replayed(events, mods) ==
    LET kept == Kept(events, mods)
    IN  [i \in DOMAIN kept |->
            [seq |-> i - 1, type |-> kept[i].type,
             result |-> IF mods[kept[i].seq] = "replace" /\ kept[i].type # "tool_call"
                        THEN "replaced" ELSE "recorded"]]
replayResult(events, mods) ==
    LET all == replayed(events, mods)
        codes == Filtered(all, {i \in DOMAIN all : all[i].type = "code_result"})
    IN  IF codes = <<>> THEN "undefined" ELSE codes[Len(codes)].result
diverges(events, mods) ==
    \E i \in DOMAIN Kept(events, mods) :
        Kept(events, mods)[i].type = "code_result" /\ mods[Kept(events, mods)[i].seq] = "replace"

Modifications == [0 .. MaxEvents -> {"none", "skip", "replace"}]
NoModification == [s \in 0 .. MaxEvents |-> "none"]

(***************************************************************************)
(* The journal of a session that was neither rotated away nor claimed      *)
(* again holds every event from 0 on; of one that was, it still holds the  *)
(* last events under the numbers they were given.  So it replays to what   *)
(* was recorded, and modifications that spare the code results do not make *)
(* it diverge.                                                             *)
(***************************************************************************)
JournalReplays ==
    \A r \in Recordings :
        session[r].active /\ Exists(r) =>
            LET events == journal[r]
            IN  /\ Loads(r)
                /\ \A i \in DOMAIN events : events[i].seq = session[r].seq - Len(events) + i - 1
                /\ r \notin unsafe =>
                      /\ Len(events) = session[r].seq
                      /\ LET again == replayed(events, NoModification)
                         IN  \A i \in DOMAIN events :
                                again[i].seq = events[i].seq /\ again[i].type = events[i].type
                /\ \A mods \in Modifications :
                      /\ diverges(events, mods) => \E s \in DOMAIN mods : mods[s] = "replace"
                      /\ replayResult(events, mods) = "replaced" => diverges(events, mods)
                      /\ Len(replayed(events, mods)) =
                            Cardinality({i \in DOMAIN events : mods[events[i].seq] # "skip"})

RecTypeOK ==
    /\ \A r \in Recordings : session[r].active \in BOOLEAN /\ session[r].seq \in 0 .. MaxEvents
    /\ {byAge[i] : i \in DOMAIN byAge} = {r \in Recordings : Exists(r)}
    /\ unsafe \subseteq Recordings

RecInv == RecTypeOK /\ JournalReplays
=============================================================================
