------------------------------ MODULE BackupFile ------------------------------
(***************************************************************************)
(* The tool that encrypts and decrypts a backup and makes its key.         *)
(*                                                                         *)
(* A run reads its input chunk by chunk, writes to a temporary file of its *)
(* own and renames it when everything is written and, decrypting, proved   *)
(* authentic.  A key is written to a temporary file and linked under its   *)
(* name.  Runs may meet on one output or one key, their input may be cut   *)
(* short, altered or fail, and they may be killed at any point.  Lengths   *)
(* are counted in units of which a header with its vector, a tag and a     *)
(* plaintext have a few each.                                              *)
(***************************************************************************)
EXTENDS Integers

CONSTANTS
    Processes,
    PrefixLength,       \* FORMAT.headerLength + FORMAT.ivLength
    TagLength,          \* FORMAT.tagLength
    PlainLength,        \* bound: of the plaintext
    NoFile

ASSUME LengthsAssumption == {PrefixLength, TagLength, PlainLength} \subseteq Nat \ {0}

Sources == {"genuine", "altered", "headerless"}
Commands == {"encrypt", "decrypt", "generate-key"}
OutputRow == [command : Commands, length : Nat, size : Nat, source : Sources]

ASSUME NoFileAssumption == NoFile \notin Nat /\ NoFile \notin Processes /\ NoFile \notin OutputRow

VARIABLES
    output,             \* the file with the name of the output
    part,               \* per process, its temporary file: units written, or NoFile
    keyFile,            \* the process whose key is in the key file, or NoFile
    tool                \* per process, its run

fileVars == <<output, part, keyFile, tool>>

FullLength == PrefixLength + PlainLength + TagLength

NoRun == [command |-> "none", step |-> "none", source |-> "genuine", length |-> 0,
          read |-> 0, tail |-> 0]

FilesInit ==
    /\ output = NoFile
    /\ part = [p \in Processes |-> NoFile]
    /\ keyFile = NoFile
    /\ tool = [p \in Processes |-> NoRun]

Runs(p, command, step) == tool[p].command = command /\ tool[p].step = step
Forget(p) == tool' = [tool EXCEPT ![p] = NoRun]

-----------------------------------------------------------------------------
\* A run that fails removes its temporary file.
abortOutput(p) == part' = [part EXCEPT ![p] = NoFile]

Abort(p) == abortOutput(p) /\ Forget(p) /\ UNCHANGED <<output, keyFile>>

\* The output must not exist.  An encryption writes its header at once.
outputTarget(p, command, source, length) ==
    /\ tool[p] = NoRun
    /\ output = NoFile
    /\ tool' = [tool EXCEPT ![p] = [NoRun EXCEPT !.command = command, !.step = "stream",
                                                 !.source = source, !.length = length]]
    /\ part' = [part EXCEPT ![p] = IF command = "encrypt" THEN PrefixLength ELSE 0]
    /\ UNCHANGED <<output, keyFile>>

StartEncrypt(p, length) == length <= PlainLength /\ outputTarget(p, "encrypt", "genuine", length)

StartDecrypt(p, source, length) == outputTarget(p, "decrypt", source, length)

EncryptChunk(p, n) ==
    /\ Runs(p, "encrypt", "stream")
    /\ tool[p].read + n <= tool[p].length
    /\ tool' = [tool EXCEPT ![p].read = @ + n]
    /\ part' = [part EXCEPT ![p] = @ + n]
    /\ UNCHANGED <<output, keyFile>>

\* variant: only the chunk at hand is looked at for the tag
HeldOfChunk(k, n) == n

\* What has been read after the header and is not written yet, with the next n units.
held(k, n) ==
    LET after == k.read + n - PrefixLength IN
    IF k.read < PrefixLength THEN after ELSE k.tail + n

\* The header is checked when it is there; then all but the last units, which may be the
\* tag, are decrypted and written.
DecryptChunk(p, n) ==
    LET k == tool[p] IN
    /\ Runs(p, "decrypt", "stream")
    /\ k.read + n <= k.length
    /\ \/ /\ k.read + n < PrefixLength
          /\ tool' = [tool EXCEPT ![p].read = @ + n]
          /\ UNCHANGED <<part, output, keyFile>>
       \/ /\ k.read < PrefixLength /\ k.read + n >= PrefixLength /\ k.source = "headerless"
          /\ Abort(p)
       \/ /\ k.read + n >= PrefixLength /\ k.source # "headerless"
          /\ LET h == held(k, n) IN
             /\ tool' = [tool EXCEPT ![p].read = @ + n,
                                     ![p].tail = IF h <= TagLength THEN h ELSE TagLength]
             /\ part' = [part EXCEPT ![p] = IF h <= TagLength THEN @ ELSE @ + h - TagLength]
          /\ UNCHANGED <<output, keyFile>>

EndEncrypt(p) ==
    /\ Runs(p, "encrypt", "stream")
    /\ tool[p].read = tool[p].length
    /\ tool' = [tool EXCEPT ![p].step = "close"]
    /\ part' = [part EXCEPT ![p] = @ + TagLength]
    /\ UNCHANGED <<output, keyFile>>

\* decipher.final() accepts what was sealed with the key, all of it and nothing else.
authentic(k) ==
    /\ k.read >= PrefixLength /\ k.tail = TagLength
    /\ k.source = "genuine" /\ k.length = FullLength

EndDecrypt(p) ==
    /\ Runs(p, "decrypt", "stream")
    /\ tool[p].read = tool[p].length
    /\ \/ /\ ~ authentic(tool[p])
          /\ Abort(p)
       \/ /\ authentic(tool[p])
          /\ tool' = [tool EXCEPT ![p].step = "close"]
          /\ UNCHANGED <<part, output, keyFile>>

InputFails(p) == tool[p].step = "stream" /\ Abort(p)

\* The stream is closed, and the name of the output looked up again.
FindOutput(p) ==
    /\ tool[p].step = "close"
    /\ \/ output # NoFile /\ Abort(p)
       \/ /\ output = NoFile
          /\ tool' = [tool EXCEPT ![p].step = "rename"]
          /\ UNCHANGED <<part, output, keyFile>>

RenameOutput(p) ==
    /\ tool[p].step = "rename"
    /\ output' = [command |-> tool[p].command, length |-> tool[p].length, size |-> part[p],
                  source |-> tool[p].source]
    /\ part' = [part EXCEPT ![p] = NoFile]
    /\ Forget(p)
    /\ UNCHANGED keyFile
-----------------------------------------------------------------------------
\* A key is made only where there is none, in a file of its own.
StartKey(p) ==
    /\ tool[p] = NoRun
    /\ keyFile = NoFile
    /\ tool' = [tool EXCEPT ![p] = [NoRun EXCEPT !.command = "generate-key", !.step = "link"]]
    /\ part' = [part EXCEPT ![p] = 0]
    /\ UNCHANGED <<output, keyFile>>

\* variant: the temporary file is renamed
RenameKey(p) ==
    /\ keyFile' = p
    /\ part' = [part EXCEPT ![p] = NoFile]

\* A link is refused when the name is taken; the temporary file goes either way.
linkSync(p) ==
    /\ keyFile' = IF keyFile = NoFile THEN p ELSE keyFile
    /\ part' = [part EXCEPT ![p] = NoFile]

LinkKey(p) ==
    /\ Runs(p, "generate-key", "link")
    /\ linkSync(p)
    /\ Forget(p)
    /\ UNCHANGED output

\* A killed process leaves a temporary file whose name nobody uses again.
KillTool(p) ==
    /\ tool[p] # NoRun
    /\ part' = [part EXCEPT ![p] = NoFile]
    /\ Forget(p)
    /\ UNCHANGED <<output, keyFile>>

\* The caller moves the output on.
TakeOutput == output # NoFile /\ output' = NoFile /\ UNCHANGED <<part, keyFile, tool>>

FilesNext ==
    \/ \E p \in Processes :
          \/ \E length \in 0 .. PlainLength : StartEncrypt(p, length)
          \/ \E source \in Sources, length \in 0 .. FullLength : StartDecrypt(p, source, length)
          \/ \E n \in 1 .. FullLength : EncryptChunk(p, n) \/ DecryptChunk(p, n)
          \/ EndEncrypt(p) \/ EndDecrypt(p) \/ InputFails(p)
          \/ FindOutput(p) \/ RenameOutput(p)
          \/ StartKey(p) \/ LinkKey(p) \/ KillTool(p)
    \/ TakeOutput
-----------------------------------------------------------------------------
\* The values of the variables; only a run that is not over has a temporary file, so a run
\* that failed has removed it.
FilesTypeOK ==
    /\ keyFile \in Processes \cup {NoFile}
    /\ \A p \in Processes :
          /\ tool[p].read \in 0 .. tool[p].length
          /\ tool[p].tail \in 0 .. TagLength
          /\ part[p] = NoFile <=> tool[p] = NoRun
          /\ part[p] # NoFile => part[p] \in 0 .. FullLength

\* What has the name of the output is whole: all of the input sealed between a header and
\* a tag, or the whole plaintext of a file that is complete and unaltered, however the
\* chunks fell, whoever else wrote to the same name and wherever a run was stopped.
OutputIsWhole ==
    output # NoFile =>
       IF output.command = "encrypt"
       THEN output.size = PrefixLength + output.length + TagLength
       ELSE output.source = "genuine" /\ output.length = FullLength /\ output.size = PlainLength

\* A key, with which backups may have been sealed, is never replaced.
KeyIsKept == [][keyFile # NoFile => keyFile' = keyFile]_fileVars

\* What the tool leaves, however many run at once and wherever they stop.
FilesInv == FilesTypeOK /\ OutputIsWhole
=============================================================================
