------------------------------- MODULE LogPaths -------------------------------
(***************************************************************************)
(* Names and directories of files (easylogging++.cc, File).                *)
(*                                                                         *)
(* A path is a sequence of tokens, of which one is the separator.  A file  *)
(* system is the places that exist and, of these, the ones in which        *)
(* nothing can be made; a place is the names from the root or from the     *)
(* working directory on.                                                   *)
(***************************************************************************)
EXTENDS LogFormats

CONSTANT kSourceFilenameMaxLength

kFilePathSeparator == "/"

Slashes(path) == {i \in DOMAIN path : path[i] = kFilePathSeparator}

Place(path) ==
  <<IF path # <<>> /\ path[1] = kFilePathSeparator THEN "root" ELSE "here">>
  \o replaceAll(path, kFilePathSeparator, <<>>)

(* stat *)
pathExists(path, fs) == Place(path) \in fs.there

(* A directory the program has made is its own. *)
mkdir(st, name) ==
  LET place == Append(st.built, name)
      made == place \notin st.fs.there /\ st.built \in st.fs.there \ st.fs.closed
  IN  [built |-> place, made |-> made,
       fs |-> IF made THEN [st.fs EXCEPT !.there = @ \cup {place}] ELSE st.fs]

(* Slip: the first directory that cannot be made ends it. *)
createPath_FirstOnly(path, fs) ==
  LET end == FoldLeft(LAMBDA st, name : IF st.made THEN mkdir(st, name) ELSE st,
                      [built |-> <<Place(path)[1]>>, made |-> TRUE, fs |-> fs], Tail(Place(path)))
  IN  IF path = <<>> THEN [ok |-> FALSE, fs |-> fs]
      ELSE IF pathExists(path, fs) THEN [ok |-> TRUE, fs |-> fs]
      ELSE [ok |-> end.made, fs |-> end.fs]

(* Every directory on the way is made, whether it exists or not, and what  *)
(* became of the last one counts.                                          *)
createPath(path, fs) ==
  LET end == FoldLeft(mkdir, [built |-> <<Place(path)[1]>>, made |-> FALSE, fs |-> fs],
                      Tail(Place(path)))
  IN  IF path = <<>> THEN [ok |-> FALSE, fs |-> fs]
      ELSE IF pathExists(path, fs) THEN [ok |-> TRUE, fs |-> fs]
      ELSE [ok |-> end.made, fs |-> end.fs]

extractPathFromFilename(fullPath) ==
  LET at == Slashes(fullPath) IN
  IF at = {} THEN fullPath ELSE SubSeq(fullPath, 1, Max(at))

(* TypedConfigurations::insertFile, before the file is opened. *)
PathFor(filename, fs) ==
  LET path == extractPathFromFilename(filename)
  IN  IF Len(path) < Len(filename) THEN createPath(path, fs) ELSE [ok |-> TRUE, fs |-> fs]

(* The end of a name that is too long, after two dots unless there is one  *)
(* where it was cut.                                                       *)
buildStrippedFilename(filename) ==
  LET limit == kSourceFilenameMaxLength
      end == SubSeq(filename, Len(filename) - limit + 1, Len(filename))
  IN  IF Len(filename) < limit THEN filename
      ELSE IF end[1] # "." /\ end[2] # "." THEN <<".", ".">> \o SubSeq(end, 4, limit)
      ELSE end

(* The slash that comes first of all is not looked for. *)
baseOf(path) ==
  IF Slashes(path) \subseteq {1} THEN path ELSE SubSeq(path, Max(Slashes(path)) + 1, Len(path))

buildBaseFilename(fullPath) == buildStrippedFilename(baseOf(fullPath))
=============================================================================
