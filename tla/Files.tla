------------------------------- MODULE Files -------------------------------
(***************************************************************************)
(* The file helpers of src/files.  A file is its content; NoFile stands for *)
(* no file, Bad for a content no reader accepts: a file whose writing was   *)
(* cut short, or an error page saved in its place.  A helper that may end   *)
(* in several ways is the set of its outcomes, each with the content it     *)
(* leaves and whether it returned an error.                                 *)
(***************************************************************************)
EXTENDS Integers, Sequences, FiniteSets

CONSTANTS
    NoFile, Bad,
    MaxLoops       \* SafeRename tries the suffixes below it (100 in the code)

ASSUME FilesAssumption == NoFile # Bad /\ MaxLoops \in Nat \ {0}

PromptIfExisting  == "PromptIfExisting"
OverwriteSilently == "OverwriteSilently"

Outcome(file, err) == [file |-> file, err |-> err]

CheckIfExists(file) == file # NoFile

\* ioutil.WriteFile truncates the file before it writes.
WriteFile(old, new) ==
    {Outcome(new, FALSE), Outcome(old, TRUE), Outcome(Bad, TRUE)}

\* Whether the user is asked about an existing file, and may decline.
ProcessFileOptions(old, options) ==
    CheckIfExists(old) /\ OverwriteSilently \notin options /\ PromptIfExisting \in options

WriteToFile(old, new, options) ==
    WriteFile(old, new)
      \cup (IF ProcessFileOptions(old, options) THEN {Outcome(old, TRUE)} ELSE {})

\* Mutant: a destination that exists is kept.
CopyFileContents_Keeps(src, dst) ==
    {Outcome(dst, TRUE)}
      \cup (IF CheckIfExists(dst) THEN {Outcome(dst, FALSE)}
            ELSE IF CheckIfExists(src) THEN {Outcome(src, FALSE), Outcome(Bad, TRUE)} ELSE {})

\* The destination is truncated before the source is copied.
CopyFileContents(src, dst) ==
    {Outcome(dst, TRUE)}
      \cup (IF CheckIfExists(src) THEN {Outcome(src, FALSE), Outcome(Bad, TRUE)} ELSE {})

\* The status of the answer is not looked at: an error page is a body too.
getRequest(body) == {Outcome(body, FALSE), Outcome(Bad, FALSE), Outcome(NoFile, TRUE)}

\* Nothing is written when the request fails.
DownloadFile(body, old, interactive) ==
    UNION {IF b.err THEN {Outcome(old, TRUE)}
           ELSE WriteToFile(old, b.file, IF interactive THEN {PromptIfExisting} ELSE {}) :
              b \in getRequest(body)}

\* SafeRename: the suffixes that are free, of which it takes the lowest.  It
\* fails when there is none, and when the rename does.
FreeSuffixes(taken) == (1 .. MaxLoops - 1) \ taken
=============================================================================
