---------------------------- MODULE Directories ----------------------------
(***************************************************************************)
(* The directory functions of YR_File (util/YR_File.cpp) as setLogInfo()   *)
(* (YRLogger.cpp) uses them: several processes make the directory of their *)
(* logs, level by level, in one file system that others change meanwhile.  *)
(*                                                                         *)
(* A path is the sequence of what stands between its slashes: <<"", "a">>  *)
(* is /a and <<"a", "">> is a/.  A place in the file system is the         *)
(* sequence of the names that lead to it from the root.                    *)
(***************************************************************************)
EXTENDS Integers, Sequences, FiniteSets, SequencesExt

CONSTANTS
  Creators,    \* processes that call makeDirRecursive
  PathsOf,     \* the paths each of them may be asked for
  Cwd,         \* the working directory
  Names,       \* the names that stand in them, or that others use
  LogFile,     \* the name of the log file
  MaxDisturb   \* bound: directories removed and other files made by others

Empty == ""   \* what stands between two slashes in a row, and before or after one

ASSUME DirectoriesAssumption ==
  /\ Cwd \in Seq(Names) /\ Names \cap {Empty, ".", ".."} = {} /\ MaxDisturb \in Nat
  /\ \A c \in Creators : PathsOf[c] \subseteq Seq(Names \cup {Empty, ".", ".."}) \ {<<>>}

VARIABLES
  dirs,      \* the directories there are
  others,    \* what there is besides: "file" or "socket" at some places
  path,      \* sDirectoryPath of each call
  simple,    \* the local variable of that name
  pos,       \* how many parts of simple the call has come to
  phase,     \* "out", "mkdir", "stat", or what the call has returned
  removed,   \* history: places that somebody has removed
  refused    \* history: callers whose mkdir() has failed for a reason of its own

callVars == <<path, simple, pos, phase>>
vars == <<dirs, others, callVars, removed, refused>>

Root == <<>>
NoDir == <<Empty>>   \* no name is empty

Init ==
  /\ dirs = Prefixes(Cwd) /\ others = <<>>
  /\ path = [c \in Creators |-> <<Empty>>] /\ simple = [c \in Creators |-> <<Empty>>]
  /\ pos = [c \in Creators |-> 0] /\ phase = [c \in Creators |-> "out"]
  /\ removed = {} /\ refused = {}
-----------------------------------------------------------------------------
\* Where a path leads in a file system with these directories: every part but the last
\* must be one of them.
Absolute(p) == Head(p) = Empty /\ Len(p) > 1
Start(p) == IF Absolute(p) THEN Root ELSE Cwd
Step(there, place, part) ==
  IF place \notin there THEN NoDir
  ELSE IF part \in {Empty, "."} THEN place
  ELSE IF part = ".." THEN IF place = Root THEN Root ELSE Front(place)
  ELSE Append(place, part)
Way(there, from, p) ==
  LET way[n \in 0..Len(p)] ==
        IF n = 0 THEN from ELSE Step(there, way[n - 1], p[n])
  IN way
Walk(there, from, p) == Way(there, from, p)[Len(p)]
PlaceIn(there, p) == IF p = <<Empty>> THEN NoDir ELSE Walk(there, Start(p), p)
Place(p) == PlaceIn(dirs, p)

\* Mutated form: a ".." that takes the part before it away wherever it stands.
SimplifyDropping(p) ==
  LET keep == SelectSeq(p, LAMBDA part : part # "..") IN
    IF keep = <<>> THEN p ELSE keep

\* simplifyDirectory(): "//" and "/./" anywhere, "/../" at the front, ...
Drops(p, n, kept) ==
  /\ n \in 2..Len(p) - 1
  /\ p[n] \in {Empty, "."} \/ (p[n] = ".." /\ kept = <<Empty>>)
Shortened(p) ==
  LET kept[n \in 0..Len(p)] ==
        IF n = 0 THEN <<>>
        ELSE IF Drops(p, n, kept[n - 1]) THEN kept[n - 1]
        ELSE Append(kept[n - 1], p[n])
  IN kept
\* ... and "/." and "/" at the end.
NoEnd(p, part) == IF Len(p) > 1 /\ Last(p) = part THEN Front(p) ELSE p
SimplifyDirectory(p) ==
  LET q == Shortened(p)[Len(p)] IN
    IF q \in {<<Empty, ".">>, <<Empty, Empty>>, <<Empty, "..">>} THEN <<Empty, Empty>>
    ELSE NoEnd(NoEnd(q, "."), Empty)

\* extractFilePath(): up to the last slash, or "./".
ExtractFilePath(p) == IF Len(p) = 1 THEN <<".", Empty>> ELSE Append(Front(p), Empty)
-----------------------------------------------------------------------------
\* makeDirRecursive(): a makeDir() for what stands before each slash but one at the
\* front, and for the whole.
MakeDirRecursive(c, p) ==
  /\ phase[c] = "out"
  /\ path' = [path EXCEPT ![c] = p]
  /\ simple' = [simple EXCEPT ![c] = SimplifyDirectory(p)]
  /\ pos' = [pos EXCEPT ![c] = IF Absolute(simple'[c]) THEN 2 ELSE 1]
  /\ phase' = [phase EXCEPT ![c] = "mkdir"]
  /\ UNCHANGED <<dirs, others, removed, refused>>

Target(c) == Place(SubSeq(simple[c], 1, pos[c]))

\* makeDir() is true for this level: the next one, or the end.
NextLevel(c) ==
  /\ pos' = [pos EXCEPT ![c] = IF @ = Len(simple[c]) THEN @ ELSE @ + 1]
  /\ phase' = [phase EXCEPT ![c] = IF pos[c] = Len(simple[c]) THEN "true" ELSE "mkdir"]
GiveUp(c) == phase' = [phase EXCEPT ![c] = "false"] /\ UNCHANGED pos

\* makeDir(): mkdir() makes the directory, ...
Made(c) ==
  /\ phase[c] = "mkdir" /\ Target(c) \notin {NoDir} \cup dirs \cup DOMAIN others
  /\ dirs' = dirs \cup {Target(c)} /\ NextLevel(c)
  /\ UNCHANGED <<others, path, simple, removed, refused>>
\* ... fails because the place before is no directory, ...
NoPlace(c) ==
  /\ phase[c] = "mkdir" /\ Target(c) = NoDir
  /\ GiveUp(c)
  /\ UNCHANGED <<dirs, others, path, simple, removed, refused>>
\* ... for want of rights or space, ...
Refused(c) ==
  /\ phase[c] = "mkdir" /\ Target(c) \notin {NoDir} \cup dirs \cup DOMAIN others
  /\ GiveUp(c) /\ refused' = refused \cup {c}
  /\ UNCHANGED <<dirs, others, path, simple, removed>>

\* Mutated form: EEXIST taken for a failure like any other.
ExistsFails(c) ==
  /\ phase[c] = "mkdir" /\ Target(c) \in dirs \cup DOMAIN others
  /\ GiveUp(c)
  /\ UNCHANGED <<dirs, others, path, simple, removed, refused>>

\* ... or because there is something, ...
Exists(c) ==
  /\ phase[c] = "mkdir" /\ Target(c) \in dirs \cup DOMAIN others
  /\ phase' = [phase EXCEPT ![c] = "stat"]
  /\ UNCHANGED <<dirs, others, path, simple, pos, removed, refused>>

\* Mutated form: a makeDir() that does not look at what there is.
LookNot(c) ==
  /\ phase[c] = "stat" /\ NextLevel(c)
  /\ UNCHANGED <<dirs, others, path, simple, removed, refused>>

\* ... which isFileExistEx() looks at: its bit S_IFDIR is also in the type of a socket.
IsFileExistEx(place) ==
  place \in dirs \/ (place \in DOMAIN others /\ others[place] = "socket")
Look(c) ==
  /\ phase[c] = "stat"
  /\ IF IsFileExistEx(Target(c)) THEN NextLevel(c) ELSE GiveUp(c)
  /\ UNCHANGED <<dirs, others, path, simple, removed, refused>>

\* Others remove an empty directory, or put something else where one would be made.
Disturbed == Cardinality(removed) + Cardinality(DOMAIN others) < MaxDisturb
Rmdir(place) ==
  /\ Disturbed /\ place \notin Prefixes(Cwd)
  /\ \A d \in dirs \cup DOMAIN others : d # place => place \notin Prefixes(d)
  /\ dirs' = dirs \ {place} /\ removed' = removed \cup {place}
  /\ UNCHANGED <<others, callVars, refused>>
Intrude(place, kind) ==
  /\ Disturbed /\ place \notin dirs \cup DOMAIN others
  /\ others' = [d \in DOMAIN others \cup {place} |-> IF d = place THEN kind ELSE others[d]]
  /\ UNCHANGED <<dirs, callVars, removed, refused>>

Next ==
  \/ \E c \in Creators : \E p \in PathsOf[c] : MakeDirRecursive(c, p)
  \/ \E c \in Creators : Made(c) \/ NoPlace(c) \/ Refused(c) \/ Exists(c) \/ Look(c)
  \/ \E d \in dirs : Rmdir(d)
  \/ \E d \in dirs, n \in Names, kind \in {"file", "socket"} : Intrude(Append(d, n), kind)

Spec == Init /\ [][Next]_vars
-----------------------------------------------------------------------------
\* True means that the path that was asked for, as the system reads it and not as it was
\* simplified, is a directory, and so is the one in which roll() will open its file;
\* unless it was removed, or something else was there that passes for a directory.
TrueMeansThere ==
  \A c \in Creators :
    phase[c] = "true" /\ removed = {} /\ "socket" \notin {others[d] : d \in DOMAIN others} =>
      /\ Place(path[c]) \in dirs
      /\ Place(ExtractFilePath(Append(path[c], LogFile))) \in dirs

\* Processes that make the same directory do not make each other fail: false has one of
\* the reasons that are beyond their power.
FalseMeansFailure ==
  \A c \in Creators :
    phase[c] = "false" =>
      path[c] = <<Empty>> \/ c \in refused \/ removed # {} \/ DOMAIN others # {}

\* Nothing is made that the path as the system reads it does not go through.
MakesNoMore ==
  removed = {} =>
    dirs \subseteq Prefixes(Cwd) \cup
      UNION {{Place(q) : q \in Prefixes(path[c]) \ {<<>>}} : c \in Creators}
=============================================================================
