------------------------------- MODULE UriPath -------------------------------
(***************************************************************************)
(* Paths and URIs: a Path that grows by join(), the Scanner that takes its *)
(* URI apart, and the directory, base, file and extension names of it.     *)
(*                                                                         *)
(* A text is a sequence of characters.  A StringView is the interval of    *)
(* the path it shows: <<first, last>>, empty if last = first - 1.          *)
(***************************************************************************)
EXTENDS Integers, Sequences, SequencesExt, FiniteSetsExt

CONSTANTS Pieces,     \* the texts that a path is made and joined of
          Alphas,     \* the characters that are letters
          Digits,     \* the characters that are digits
          MaxPieces   \* bound

VARIABLES
  upPath,    \* Path::path
  upPieces   \* the texts it was made of

upvars == <<upPath, upPieces>>

Size == Len(upPath)
View(v) == SubSeq(upPath, v[1], v[2])
-----------------------------------------------------------------------------
(* CharSpec: the set of the characters that it accepts. *)
Alnum == Alphas \cup Digits
AlphaSpec == Alphas
SchemeSpec == Alnum \cup {"."}
NotSlash == ToSet(upPath) \ {"/"}

(* Scanner: cur runs from position at to the end of the path. *)
Scan(from) == [at |-> from, start |-> from, stop |-> 0, error |-> FALSE]
OnError(s) == [s EXCEPT !.error = TRUE]
AtEnd(s) == s.at > Size

One(s, spec) == IF AtEnd(s) \/ upPath[s.at] \notin spec THEN OnError(s) ELSE [s EXCEPT !.at = @ + 1]

ScanAny(s, spec) ==
  [s EXCEPT !.at = Min({i \in s.at .. Size : upPath[i] \notin spec} \cup {Size + 1})]

Many(s, spec) == ScanAny(One(s, spec), spec)

Until(s, notspec) == LET t == ScanAny(s, notspec) IN IF AtEnd(t) THEN OnError(t) ELSE t

Starts(s, text) == /\ s.at + Len(text) - 1 <= Size
                   /\ SubSeq(upPath, s.at, s.at + Len(text) - 1) = text
Literal(s, text) == IF Starts(s, text) THEN [s EXCEPT !.at = @ + Len(text)] ELSE OnError(s)

StopCapture(s) == [s EXCEPT !.stop = s.at]
Remain(s) == <<s.at, Size>>
Capture(s) == <<s.start, (IF s.stop = 0 THEN s.at ELSE s.stop) - 1>>
-----------------------------------------------------------------------------
(* Uri *)
ParseScheme == Literal(StopCapture(Many(One(Scan(1), AlphaSpec), SchemeSpec)), <<":", "/", "/">>)
ParseHost(from) == Until(Scan(from), NotSlash)

ParsedUri ==
  LET scheme == ParseScheme
      host == ParseHost(scheme.at)
  IN CASE scheme.error -> [scheme |-> <<1, 0>>, host |-> <<1, 0>>, path |-> <<1, Size>>]
       [] ~scheme.error /\ host.error ->
            [scheme |-> Capture(scheme), host |-> Remain(scheme), path |-> <<Size + 1, Size>>]
       [] OTHER -> [scheme |-> Capture(scheme), host |-> Capture(host), path |-> Remain(host)]

UriText(u) ==
  IF View(u.scheme) = <<>> THEN View(u.path)
  ELSE View(u.scheme) \o <<":", "/", "/">> \o View(u.host) \o View(u.path)
-----------------------------------------------------------------------------
(* Path *)

\* StringView::rfind(); 0 for npos.
RFind(v, c) == Max({i \in v[1] .. v[2] : upPath[i] = c} \cup {0})

\* splitPath(): <<dirName, baseName>>
SplitPath ==
  LET u == ParsedUri
      pos == RFind(u.path, "/")
  IN CASE pos = 0 -> <<<<1, u.host[2]>>, u.path>>
       [] pos = u.path[1] -> <<<<1, pos>>, <<pos + 1, Size>>>>
       [] OTHER -> <<<<1, pos - 1>>, <<pos + 1, Size>>>>

DirName == SplitPath[1]
BaseName == SplitPath[2]

\* splitBasename(): <<fileName, extName>>
SplitBasename ==
  LET dot == RFind(BaseName, ".")
  IN IF dot = 0 THEN <<BaseName, <<Size + 1, Size>>>>
     ELSE <<<<BaseName[1], dot - 1>>, <<dot + 1, BaseName[2]>>>>

IsAbsolutePath(text) == text # <<>> /\ text[1] = "/"

\* normalize(): what join() adds to a path that is not empty.
Normalize(rhs) ==
  CASE rhs = <<>> -> <<>>
    [] rhs # <<>> /\ Last(upPath) = "/" /\ IsAbsolutePath(rhs) -> Tail(rhs)
    [] rhs # <<>> /\ ~IsAbsolutePath(rhs) -> <<"/">> \o rhs
    [] OTHER -> rhs

UpInit == upPath = <<>> /\ upPieces = <<>>

JoinPath(rhs) ==
  /\ Len(upPieces) < MaxPieces
  /\ upPath' = upPath \o (IF upPath = <<>> THEN rhs ELSE Normalize(rhs))
  /\ upPieces' = Append(upPieces, rhs)

UpNext == \E rhs \in Pieces : JoinPath(rhs)
UpSpec == UpInit /\ [][UpNext]_upvars
-----------------------------------------------------------------------------
\* The names between the slashes of a text.
NamesOf(text) ==
  SelectSeq(FoldLeft(LAMBDA names, c : IF c = "/" THEN Append(names, <<>>)
                                       ELSE Append(Front(names), Append(Last(names), c)),
                     <<<<>>>>, text),
            LAMBDA x : x # <<>>)

\* A scheme is a letter and at least one letter, digit or dot, before "://".
SchemeLengths ==
  {k \in 2 .. Size - 3 : /\ upPath[1] \in Alphas
                         /\ \A i \in 2 .. k : upPath[i] \in SchemeSpec
                         /\ SubSeq(upPath, k + 1, k + 3) = <<":", "/", "/">>}

\* A path has the names of the texts it was joined of, in their order and no
\* other ones, and is relative if the first text was.  Taking it apart loses
\* nothing: scheme, host and path give back the text, a scheme is found where
\* there is one, directory, a slash and base name give back the text, no name
\* has a slash in it, and a file name and its extension give the base name.
PathsKeepNames ==
  LET u == ParsedUri
      base == View(BaseName)
  IN /\ NamesOf(upPath) = FlattenSeq([n \in DOMAIN upPieces |-> NamesOf(upPieces[n])])
     /\ upPath # <<>> =>
          LET first == SelectSeq(upPieces, LAMBDA x : x # <<>>)[1]
          IN IsAbsolutePath(upPath) <=> IsAbsolutePath(first)
     /\ UriText(u) = upPath
     /\ View(u.scheme) # <<>> <=> SchemeLengths # {}
     /\ "/" \notin ToSet(base) \cup ToSet(View(u.host))
     /\ upPath \in {View(DirName) \o base, View(DirName) \o <<"/">> \o base}
     /\ base \in {View(SplitBasename[1]), View(SplitBasename[1]) \o <<".">> \o View(SplitBasename[2])}
=============================================================================
