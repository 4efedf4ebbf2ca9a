------------------------------- MODULE ApiFile -------------------------------
(***************************************************************************)
(* Reading a file through the RPC API.  Server: `ipfs cat` (core/commands/ *)
(* cat.go) joins its files and cuts the bytes from an offset on, at most a *)
(* maximum.  Client (client/rpc/apifile.go): a files.File whose position   *)
(* is kept here while the bytes come from a `cat` that is asked again when *)
(* the position jumps, and a directory whose listing is read at once.  The *)
(* name that is read may move, requests fail, and a stream may end early   *)
(* with an error in the trailer because a block is missing.                *)
(***************************************************************************)
EXTENDS Integers, Sequences, SequencesExt, FiniteSets

CONSTANTS
  CatSizes,          \* the sizes of the files of a `cat`: sequences
  CatOffsets, CatMaxes,
  VersionSize,       \* the size of the file at each version of the name: a sequence
  ForwardSeekLimit,  \* forwardSeekLimit
  SeekOffsets        \* the offsets a caller gives to Seek and ReadAt

ASSUME ApiFileConstants ==
  /\ \A s \in CatSizes : s \in Seq(Nat)
  /\ CatOffsets \subseteq Int /\ CatMaxes \subseteq Int
  /\ VersionSize \in Seq(Nat) /\ Len(VersionSize) > 0
  /\ ForwardSeekLimit \in Nat /\ SeekOffsets \subseteq Int

----------------------------------------------------------------------------
(* ipfs cat.                                                               *)
VARIABLE cats   \* the command: its arguments, the file at hand, what is left of the offset

\* Run: a negative offset or length is refused; without --length there is no maximum (-1).
CatInit ==
  \E s \in CatSizes, o \in CatOffsets, m \in CatMaxes, lengthGiven \in BOOLEAN :
    cats = [sizes |-> s, offset0 |-> o, max |-> IF lengthGiven THEN m ELSE -1,
            i |-> 1, offset |-> o, length |-> 0, readers |-> <<>>,
            out |-> IF o < 0 \/ (lengthGiven /\ m < 0) THEN "refused"
                    ELSE IF lengthGiven /\ m = 0 THEN "done" ELSE "busy"]

\* Mutant: what an earlier file gave is not counted.
OvershootOwn(size, length) == size - cats.max

\* How far the file at hand goes past the maximum.
Overshoot(size, length) == length - cats.max

CatPart(from, len) == [file |-> cats.i, from |-> from, len |-> len]

\* cat: one file.  It is skipped when the offset is beyond it; the rest of the
\* offset is passed over, and the file is cut where the maximum is reached.
CatFile ==
  LET size0 == cats.sizes[cats.i]
      size == size0 - cats.offset
      length == cats.length + size
  IN IF cats.offset > size0
     THEN [cats EXCEPT !.i = @ + 1, !.offset = @ - size0]
     ELSE IF cats.max > 0 /\ length >= cats.max
     THEN [cats EXCEPT !.i = Len(cats.sizes) + 1, !.offset = 0, !.length = cats.max,
                       !.readers = Append(@, CatPart(cats.offset, size - Overshoot(size, length)))]
     ELSE [cats EXCEPT !.i = @ + 1, !.offset = 0, !.length = length,
                       !.readers = Append(@, CatPart(cats.offset, size))]

CatNext ==
  /\ cats.out = "busy"
  /\ cats' = IF cats.i > Len(cats.sizes) THEN [cats EXCEPT !.out = "done"] ELSE CatFile

CatSpec == CatInit /\ [][CatNext]_cats

----------------------------------------------------------------------------
(* The client's file.                                                      *)
VARIABLES
  named,      \* the version the name stands for
  file,       \* apiFile: [pc, path, statted, at]; path 0 is the name itself
  catStream,     \* its `cat` response: [v, pos, end, cut], NoStream when f.r is nil
  answer,     \* what the last call returned
  errorTold   \* history: some call returned an error

afVars == <<named, file, catStream, answer, errorTold>>
NoStream == [v |-> 0, pos |-> 0, end |-> 0, cut |-> FALSE]
Answer(kind, n) == [kind |-> kind, n |-> n]
Ok(n) == Answer("ok", n)

AfInit ==
  /\ named = 1 /\ catStream = NoStream /\ answer = Ok(0) /\ errorTold = FALSE
  /\ file = [pc |-> "get", path |-> 0, statted |-> 0, at |-> 0]

\* The name is published anew while the file is read.
NameMoves ==
  /\ named < Len(VersionSize) /\ named' = named + 1
  /\ UNCHANGED <<file, catStream, answer, errorTold>>

PathVersion(path) == IF path = 0 THEN named ELSE path

\* Get: a mutable path is resolved first.
GetResolve ==
  /\ file.pc = "get"
  /\ \/ file' = [file EXCEPT !.pc = "stat", !.path = named] /\ UNCHANGED <<answer, errorTold>>
     \/ file' = [file EXCEPT !.pc = "failed"] /\ answer' = Answer("error", 0) /\ errorTold' = TRUE
  /\ UNCHANGED <<named, catStream>>

\* Get: files/stat.
GetStat ==
  /\ file.pc = "stat"
  /\ \/ /\ file' = [file EXCEPT !.pc = "open", !.statted = PathVersion(file.path)]
        /\ UNCHANGED <<answer, errorTold>>
     \/ file' = [file EXCEPT !.pc = "failed"] /\ answer' = Answer("error", 0) /\ errorTold' = TRUE
  /\ UNCHANGED <<named, catStream>>

\* The streams a `cat` from an offset gives: up to the end, or cut where a block is missing.
CatStreams(v, offset) ==
  LET from == IF offset > VersionSize[v] THEN VersionSize[v] ELSE offset IN
  {[v |-> v, pos |-> from, end |-> e, cut |-> e < VersionSize[v]] : e \in from .. VersionSize[v]}

\* reset: the old response is cancelled; the request may fail, and does for a negative offset.
Reset(at, told) ==
  \/ at >= 0 /\ catStream' \in CatStreams(PathVersion(file.path), at) /\ answer' = told /\ UNCHANGED errorTold
  \/ catStream' = NoStream /\ answer' = Answer("error", told.n) /\ errorTold' = TRUE

\* getFile: the file is given out with reset's error, if there is one.
GetFile ==
  /\ file.pc = "open" /\ file' = [file EXCEPT !.pc = "ready"]
  /\ Reset(0, Ok(0)) /\ UNCHANGED named

\* A nil response is dereferenced.
NilResponse ==
  file' = [file EXCEPT !.pc = "panic"] /\ UNCHANGED <<named, catStream, answer, errorTold>>

\* trailerReader: at the end of the body, the error in the trailer or io.EOF.
ReadEnd(s) == IF s.cut THEN Answer("error", 0) ELSE Answer("eof", 0)

\* Read: some bytes, or the end.
Read ==
  /\ file.pc = "ready"
  /\ \/ catStream = NoStream /\ NilResponse
     \/ /\ catStream # NoStream
        /\ \/ \E n \in 1 .. catStream.end - catStream.pos :
                /\ catStream' = [catStream EXCEPT !.pos = @ + n]
                /\ file' = [file EXCEPT !.at = @ + n] /\ answer' = Ok(n) /\ UNCHANGED errorTold
           \/ /\ catStream.pos = catStream.end /\ answer' = ReadEnd(catStream)
              /\ errorTold' = (errorTold \/ answer'.kind = "error") /\ UNCHANGED <<file, catStream>>
        /\ UNCHANGED named

\* ReadAt: a request of its own, at most n bytes from off.
ReadAt(off, n) ==
  /\ file.pc = "ready"
  /\ \/ /\ off >= 0
        /\ \E s \in CatStreams(PathVersion(file.path), off) :
             LET got == IF s.end - s.pos < n THEN s.end - s.pos ELSE n IN
             /\ answer' = [kind |-> IF got = n THEN "readat" ELSE IF s.cut THEN "error" ELSE "short",
                           n |-> got, off |-> off, len |-> n]
             /\ errorTold' = (errorTold \/ answer'.kind = "error")
     \/ answer' = Answer("error", 0) /\ errorTold' = TRUE
  /\ UNCHANGED <<named, file, catStream>>

SeekTarget(offset, whence) ==
  CASE whence = "start" -> offset
    [] whence = "end" -> VersionSize[file.statted] + offset
    [] whence = "current" -> file.at + offset

\* Seek, a short way forward: read and throw away; the position follows what was read.
SkipForward(target) ==
  LET left == catStream.end - catStream.pos
      r == IF left < target - file.at THEN left ELSE target - file.at
  IN /\ catStream' = [catStream EXCEPT !.pos = @ + r]
     /\ file' = [file EXCEPT !.at = @ + r]
     /\ answer' = Answer(IF r = target - file.at THEN "ok" ELSE ReadEnd(catStream).kind, file.at + r)
     /\ errorTold' = (errorTold \/ r < target - file.at)

Seek(offset, whence) ==
  LET target == SeekTarget(offset, whence) IN
  /\ file.pc = "ready"
  /\ \/ target = file.at /\ answer' = Ok(target) /\ UNCHANGED <<file, catStream, errorTold>>
     \/ /\ file.at < target /\ target - file.at < ForwardSeekLimit
        /\ IF catStream = NoStream THEN NilResponse ELSE SkipForward(target)
     \/ /\ target < file.at \/ target - file.at >= ForwardSeekLimit
        /\ file' = [file EXCEPT !.at = target] /\ Reset(target, Ok(target))
  /\ UNCHANGED named

\* Bound: positions from just before the file to just past its end.
SeekWithin(target) == target \in -1 .. VersionSize[1] + 1

AfNext ==
  \/ NameMoves \/ GetResolve \/ GetStat \/ GetFile \/ Read
  \/ \E off \in SeekOffsets, n \in 0 .. 2 : ReadAt(off, n)
  \/ \E off \in SeekOffsets, w \in {"start", "current", "end"} :
       file.pc = "ready" /\ SeekWithin(SeekTarget(off, w)) /\ Seek(off, w)

AfSpec == AfInit /\ [][AfNext]_afVars

----------------------------------------------------------------------------
(* The client's directory: ls --stream, read whole, decoded entry by entry.*)
VARIABLE dir   \* [entries, sent, cut, buf, given, iter]: iter is "none", "on", "end" or "error"

DirEntries == 0 .. 2
DirInit == \E e \in DirEntries :
             dir = [entries |-> e, cut |-> FALSE, buf |-> 0, given |-> 0, iter |-> "none", got |-> 0]

\* getDir: ReadAll, whose error is dropped: what came before it is the listing.
GetDir ==
  /\ dir.iter = "none"
  /\ \/ dir' = [dir EXCEPT !.iter = "error"]
     \/ \E sent \in 0 .. dir.entries :
          dir' = [dir EXCEPT !.iter = "ready", !.buf = sent, !.cut = sent < dir.entries]

\* Entries: every iterator reads on from the one decoder.
Entries == dir.iter \in {"ready", "end"} /\ dir' = [dir EXCEPT !.iter = "on", !.got = 0]

\* Next: the end of the listing, an entry that cannot be opened, or an entry.
IterNext ==
  /\ dir.iter = "on"
  /\ \/ dir.buf = 0 /\ dir' = [dir EXCEPT !.iter = "end"]
     \/ dir.buf > 0 /\ dir' = [dir EXCEPT !.buf = @ - 1, !.iter = "error"]
     \/ dir.buf > 0 /\ dir' = [dir EXCEPT !.buf = @ - 1, !.given = @ + 1, !.got = @ + 1]

DirNext == GetDir \/ Entries \/ IterNext

DirSpec == DirInit /\ [][DirNext]_dir

----------------------------------------------------------------------------
(* `cat` gives the bytes from the offset on, at most the maximum, of all    *)
(* its files one after the other, wherever file boundaries, the offset and  *)
(* the maximum fall (cat.go:123); a negative one is refused.                *)
FileBytes(f, from, len) == [b \in 1 .. len |-> <<f, from + b>>]
CatBytes == FlattenSeq([i \in 1 .. Len(cats.sizes) |-> FileBytes(i, 0, cats.sizes[i])])
CatGiven == FlattenSeq([i \in 1 .. Len(cats.readers) |->
                          FileBytes(cats.readers[i].file, cats.readers[i].from, cats.readers[i].len)])
CatEnd ==
  LET size == Len(CatBytes) IN
  IF cats.max >= 0 /\ cats.offset0 + cats.max < size THEN cats.offset0 + cats.max ELSE size
CatExact ==
  cats.out = "done" =>
    CatGiven = SubSeq(CatBytes, cats.offset0 + 1, CatEnd) /\ cats.length = Len(CatGiven)

(* The bytes a Read gives are those at the file's position, through every   *)
(* Seek, short or long, and whatever cut a stream (apifile.go:118): the     *)
(* response stands at the position, or past the end of the file.            *)
StreamAtPosition ==
  catStream # NoStream =>
    catStream.pos = file.at \/ (file.at > VersionSize[catStream.v] /\ catStream.pos = VersionSize[catStream.v])

(* Size and content are of one version of the name, although it moves       *)
(* between the requests (apifile.go:22).                                    *)
SizeMatchesContent == catStream # NoStream => catStream.v = file.statted

(* io.EOF means the end of the file: a stream that was cut ends with an     *)
(* error (response.go:22).                                                  *)
EofMeansEnd == answer.kind = "eof" => file.at >= VersionSize[file.statted]

(* ReadAt without an error gives the bytes that were asked for; fewer only  *)
(* at the end of the file (apifile.go:101).                                 *)
ReadAtExact ==
  answer.kind = "short" => answer.off + answer.n >= VersionSize[file.statted]

(* An iteration that ends without an error went over every entry the        *)
(* decoder still had; all entries of the directory, when the listing was    *)
(* not cut and it is the first (apifile.go:205, 315).                       *)
ListingGiven == dir.iter = "end" /\ ~dir.cut => dir.given = dir.entries

\* What a reader is given is the content he asked for: of `cat`'s range, of a
\* client's file at its position, to its end and of one version, and of a directory
\* every entry.
ReadsExact ==
  /\ CatExact /\ StreamAtPosition /\ SizeMatchesContent
  /\ EofMeansEnd /\ ReadAtExact /\ ListingGiven
=============================================================================
