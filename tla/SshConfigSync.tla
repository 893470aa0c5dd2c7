---------------------------- MODULE SshConfigSync ----------------------------
(***************************************************************************)
(* sync-ssh-config --apply (cmd/sync_ssh_config/lightsail/main.go with     *)
(* sshconfig.ApplyAndWrite): the config is read, the instances are fetched,*)
(* the differences are written through a backup, a temp file and a rename. *)
(* Several runs and an editor of the same file go on side by side; a file  *)
(* operation may fail and a run may die at any step.  Backups are named to *)
(* the second, temp files by the process.                                  *)
(***************************************************************************)
EXTENDS SshConfig

CONSTANTS
  Runs,      \* launches of the program
  Contents,  \* what the config may hold at first
  Saves,     \* what an editor may write
  Answers,   \* what FetchInstances may answer: word -> address or NoIp
  MaxClock,  \* bound on the seconds that pass
  MaxEdits,  \* bound on the saves of the editor
  MaxFaults, \* bound on failed operations and deaths
  NoFile,    \* there is no such file
  Partial    \* a file that has been opened and not yet written to its end

ASSUME ContentsAssumption == Contents \subseteq Seq(Line) /\ Saves \subseteq Seq(Line)
ASSUME MarkersAssumption == {NoFile, Partial} \cap Seq(Line) = {} /\ NoFile # Partial
ASSUME AnswersAssumption == Answers \subseteq [Words -> Words \cup {NoIp}]
ASSUME SyncMaxAssumption == MaxClock \in Nat /\ MaxEdits \in Nat /\ MaxFaults \in Nat

VARIABLES
  file,    \* the config
  backups, \* "<config>.bak.<second>"
  tmp,     \* "<config>.tmp.<pid>"
  clock,   \* the second it is
  pc,      \* where each run is
  lines,   \* cfg.Lines
  inst,    \* the answer of FetchInstances
  stamp,   \* the second in the name of its backup
  source,  \* what copyFile reads: the config as it was opened
  stale,   \* runs that have parsed a config somebody has written since
  edits, faults

locals == <<lines, inst, stamp, source>>
vars == <<file, backups, tmp, clock, pc, locals, stale, edits, faults>>

Seconds == 0 .. MaxClock
Never == MaxClock + 1
EndedPcs == {"done", "nothing", "failed", "dead"}
Pcs == {"parse", "fetch", "diff", "backup", "copy", "openTmp", "writeTmp", "rename"} \cup EndedPcs

Init ==
  /\ file \in Contents
  /\ backups = [s \in Seconds |-> NoFile]
  /\ tmp = [p \in Runs |-> NoFile]
  /\ clock = 0
  /\ pc = [p \in Runs |-> "parse"]
  /\ lines = [p \in Runs |-> <<>>]
  /\ inst = [p \in Runs |-> [w \in Words |-> NoIp]]
  /\ stamp = [p \in Runs |-> Never]
  /\ source = [p \in Runs |-> NoFile]
  /\ stale = {}
  /\ edits = 0 /\ faults = 0

Goto(p, to) == pc' = [pc EXCEPT ![p] = to]
Fault == faults < MaxFaults /\ faults' = faults + 1
Fails(p) == Goto(p, "failed") /\ Fault
PutShared(p, content) ==
  tmp' = [r \in Runs |-> IF r = p \/ (content \notin {NoFile, Partial} /\ tmp[r] # NoFile)
                           THEN content ELSE tmp[r]]
Put(p, content) == tmp' = [tmp EXCEPT ![p] = content]
BackUpToOneName(p, content) == backups' = [backups EXCEPT ![0] = content]
BackUp(p, content) == backups' = [backups EXCEPT ![stamp[p]] = content]

-----------------------------------------------------------------------------
(* main.                                                                   *)

Parse(p) ==
  /\ pc[p] = "parse"
  /\ \/ /\ Goto(p, "fetch") /\ UNCHANGED faults
        /\ lines' = [lines EXCEPT ![p] = file]
        /\ stale' = stale \ {p}
     \/ Fails(p) /\ UNCHANGED <<lines, stale>>
  /\ UNCHANGED <<file, backups, tmp, clock, inst, stamp, source, edits>>

Fetch(p) ==
  /\ pc[p] = "fetch"
  /\ \/ /\ Goto(p, "diff") /\ UNCHANGED faults
        /\ \E answer \in Answers : inst' = [inst EXCEPT ![p] = answer]
     \/ Fails(p) /\ UNCHANGED inst
  /\ UNCHANGED <<file, backups, tmp, clock, lines, stamp, source, stale, edits>>

updates(p) == Diff(parseBlocks(lines[p]), inst[p])
newLinesOfFile(p) == Apply(file, updates(p))
newLines(p) == Apply(lines[p], updates(p))

\* Without --apply, or without updates, the run ends here; one line that cannot be
\* rewritten fails it before anything is written.
Compare(p) ==
  /\ pc[p] = "diff"
  /\ Goto(p, IF updates(p) = {} THEN "nothing"
             ELSE IF Applicable(lines[p], updates(p)) THEN "backup" ELSE "failed")
  /\ UNCHANGED <<file, backups, tmp, clock, locals, stale, edits, faults>>

-----------------------------------------------------------------------------
(* ApplyAndWrite.                                                          *)

\* The start of copyFile: the config is opened, the backup of this second created,
\* or emptied when there is one.
OpenBackup(p) ==
  /\ pc[p] = "backup"
  /\ \/ /\ Goto(p, "copy") /\ UNCHANGED faults
        /\ stamp' = [stamp EXCEPT ![p] = clock]
        /\ source' = [source EXCEPT ![p] = file]
        /\ backups' = [backups EXCEPT ![clock] = Partial]
     \/ Fails(p) /\ UNCHANGED <<stamp, source, backups>>
  /\ UNCHANGED <<file, tmp, clock, lines, inst, stale, edits>>

\* The rest of copyFile.  Over what another run has written into the same backup the
\* copy may leave a mixture, and a run of the same second that has failed may have removed
\* the file, which the copy then fills unseen; when copyFile fails the backup stays.
CopyBackup(p) ==
  /\ pc[p] = "copy"
  /\ LET here == backups[stamp[p]]
     IN \/ /\ Goto(p, "openTmp") /\ UNCHANGED faults
           /\ \/ here # NoFile /\ BackUp(p, source[p])
              \/ here \notin {Partial, NoFile} /\ BackUp(p, Partial)
              \/ /\ \E q \in Runs \ {p} : stamp[q] = stamp[p] /\ pc[q] = "failed"
                 /\ UNCHANGED backups
        \/ Fails(p) /\ (UNCHANGED backups \/ (here # NoFile /\ BackUp(p, Partial)))
  /\ UNCHANGED <<file, tmp, clock, locals, stale, edits>>

OpenTmp(p) ==
  /\ pc[p] = "openTmp"
  /\ \/ /\ Goto(p, "writeTmp") /\ Put(p, Partial)
        /\ UNCHANGED <<backups, faults>>
     \/ /\ Fails(p) /\ BackUp(p, NoFile)
        /\ UNCHANGED tmp
  /\ UNCHANGED <<file, clock, locals, stale, edits>>

WriteTmpUnchecked(p) ==
  /\ pc[p] = "writeTmp"
  /\ Goto(p, "rename")
  /\ \/ Put(p, newLines(p)) /\ UNCHANGED faults
     \/ UNCHANGED tmp /\ Fault
  /\ UNCHANGED <<file, backups, clock, locals, stale, edits>>

WriteTmp(p) ==
  /\ pc[p] = "writeTmp"
  /\ \/ /\ Goto(p, "rename") /\ Put(p, newLines(p))
        /\ UNCHANGED <<backups, faults>>
     \/ Fails(p) /\ Put(p, NoFile) /\ BackUp(p, NoFile)
  /\ UNCHANGED <<file, clock, locals, stale, edits>>

Rename(p) ==
  /\ pc[p] = "rename"
  /\ Put(p, NoFile)
  /\ \/ /\ Goto(p, "done") /\ UNCHANGED faults
        /\ file' = tmp[p]
        /\ stale' = stale \cup (Runs \ {p})
     \/ Fails(p) /\ UNCHANGED <<file, stale>>
  /\ UNCHANGED <<backups, clock, locals, edits>>

-----------------------------------------------------------------------------
(* Around the runs.                                                        *)

Die(p) ==
  /\ pc[p] \notin EndedPcs
  /\ Goto(p, "dead") /\ Fault
  /\ UNCHANGED <<file, backups, tmp, clock, locals, stale, edits>>

Edit ==
  /\ edits < MaxEdits
  /\ edits' = edits + 1
  /\ file' \in Saves
  /\ stale' = Runs
  /\ UNCHANGED <<backups, tmp, clock, pc, locals, faults>>

Tick ==
  /\ clock < MaxClock
  /\ clock' = clock + 1
  /\ UNCHANGED <<file, backups, tmp, pc, locals, stale, edits, faults>>

Ended == (\A p \in Runs : pc[p] \in EndedPcs) /\ UNCHANGED vars

run(p) ==
  \/ Parse(p) \/ Fetch(p) \/ Compare(p)
  \/ OpenBackup(p) \/ CopyBackup(p) \/ OpenTmp(p) \/ WriteTmp(p) \/ Rename(p)

Next == (\E p \in Runs : run(p) \/ Die(p)) \/ Edit \/ Tick \/ Ended

Spec == Init /\ [][Next]_vars

-----------------------------------------------------------------------------
Files == Seq(Line) \cup {NoFile, Partial}

\* The config is a whole file at all times, whatever fails and whoever dies: it is
\* written through a temp file and a rename (ApplyAndWrite).
SyncTypeOK ==
  /\ file \in Seq(Line)
  /\ backups \in [Seconds -> Files]
  /\ tmp \in [Runs -> Files]
  /\ clock \in Seconds
  /\ pc \in [Runs -> Pcs]
  /\ lines \in [Runs -> Seq(Line)]
  /\ inst \in [Runs -> [Words -> Words \cup {NoIp}]]
  /\ stamp \in [Runs -> Seconds \cup {Never}]
  /\ source \in [Runs -> Seq(Line) \cup {NoFile}]
  /\ stale \subseteq Runs
  /\ edits \in 0 .. MaxEdits /\ faults \in 0 .. MaxFaults

\* The loop over the lines finds the HostName each alias has in force, in blocks of one
\* alias that is no pattern, and no other line (parseBlocks and Diff).
FindsHostNames ==
  \A p \in Runs : pc[p] = "diff" => updates(p) = Due(lines[p], inst[p])

\* A run that writes a config nobody else has written since it was parsed changes nothing
\* but the HostName in force for an alias, to the address of that alias's instance, and
\* leaves no alias that still needs one (Diff and ApplyAndWrite as a whole).
WritesWhatIsDue ==
  [][\A p \in Runs :
       pc[p] = "rename" /\ pc'[p] = "done" /\ p \notin stale =>
         Updated(file, file', inst[p])]_vars

\* The config is what ConfigUpdate promises: a run replaces it at one stroke and once, by what
\* it has read with all that was due, though others write it, a file operation fails or
\* the run dies between any two steps (Parse to ApplyAndWrite).
Promise == INSTANCE ConfigUpdate WITH
  config <- file, view <- lines, answer <- inst,
  state <- [p \in Runs |->
              CASE pc[p] = "parse" -> "launched"
                [] pc[p] = "fetch" -> "read"
                [] pc[p] \in EndedPcs -> "over"
                [] OTHER -> "ready"]
KeepsConfigPromise == Promise!Spec

\* From the end of the copy on, a backup holds the config as the run found it: another
\* run does not take it away, unless it began in the same second (ApplyAndWrite, which
\* removes the backup on some errors).
BackupKept ==
  \A p \in Runs :
    /\ pc[p] \in {"openTmp", "writeTmp", "rename", "done"}
    /\ \A q \in Runs \ {p} : stamp[q] # stamp[p]
    => backups[stamp[p]] = source[p]

\* A line that is updated has its address replaced, and is otherwise the line it was:
\* "Update describes one HostName line that should be replaced" (diff.go).
AddressReplaced ==
  \A p \in Runs :
    pc[p] = "rename" =>
      \A u \in updates(p) :
        tmp[p][u[1]].args = [lines[p][u[1]].args EXCEPT ![1] = u[2]]
=============================================================================
