---------------------------- MODULE OperationalGet ----------------------------
(***************************************************************************)
(* A gNMI Get of the OPERATIONAL target: the handler that is built for the *)
(* requested paths (pkg/server/operational-handler), the choice of a path  *)
(* handler for each of them, the disk space handler and the file handler   *)
(* with the directory walk of internal/firmware, while other RPCs put and  *)
(* remove files below the directory that is being walked.                  *)
(*                                                                         *)
(* A path is a sequence of elements [name, key], key being <<>> or the one *)
(* value of the key ("path" of filesystem, "pattern" of files).  What the  *)
(* code asks of a path's string form (Contains, HasSuffix) is asked here   *)
(* of the elements that the string is made of.                             *)
(***************************************************************************)
EXTENDS Naturals, Sequences, FiniteSets, SequencesExt

CONSTANTS
  Files,         \* the files that may exist: name |-> [parent, dir, ext, words]
  Order,         \* their names in the lexical order in which WalkDir visits
  Requests,      \* the lists of paths that are requested
  Dirs,          \* the directories that exist, by the names requests give them
  FilesKeys,     \* the key values whose text contains "/files"
  MaxFsChanges   \* bound on the changes other RPCs make to the directory

VARIABLES
  dir,       \* the files below the directory now
  req,       \* the paths of the request
  get,       \* [pc, chosen, values, walk, found] of the Get
  always,    \* the files that have existed ever since the walk began
  ever,      \* the files that have existed at some time since the walk began
  fsChanges, \* the changes so far
  begun      \* the changes before the Get began

opVars == <<dir, req, get, always, ever, fsChanges, begun>>

Names == DOMAIN Files

\* The state keeps its types and bounds.
TypeOK ==
  /\ dir \subseteq Names /\ always \subseteq dir /\ dir \subseteq ever
  /\ req \in Requests
  /\ get.pc \in {"new", "choose", "path", "walk", "done", "NotFound"}
  /\ get.chosen \in Seq({"disk", "files"})
  /\ Len(get.values) <= Len(req)
  /\ fsChanges \in 0..MaxFsChanges /\ begun \in 0..fsChanges

Init ==
  /\ dir \in {s \in SUBSET Names : \A f \in s : Files[f].parent \in s \cup {""}}
  /\ req \in Requests
  /\ get = [pc |-> "new", chosen |-> <<>>, values |-> <<>>, walk |-> <<>>, found |-> <<>>]
  /\ always = dir /\ ever = dir /\ fsChanges = 0 /\ begun = 0

-----------------------------------------------------------------------------
(* Other RPCs and the host change the directory.                           *)

FsChange ==
  /\ fsChanges < MaxFsChanges
  /\ fsChanges' = fsChanges + 1
  /\ \/ \E f \in Names \ dir : /\ Files[f].parent \in dir \cup {""}
                               /\ dir' = dir \cup {f}
     \/ \E f \in dir : /\ \A g \in dir : Files[g].parent # f
                       /\ dir' = dir \ {f}
  /\ always' = always \cap dir' /\ ever' = ever \cup dir'
  /\ UNCHANGED <<req, get, begun>>

-----------------------------------------------------------------------------
(* The string form of a path and the handlers that match it.               *)

NameAt(p, i, names) == i \in DOMAIN p /\ p[i].name \in names

\* strings.Contains(pathStr, "/files"): an element after the first whose
\* name begins with it, which "filesystem" does, or a key that contains it.
ContainsFiles(p) ==
  \E i \in DOMAIN p : \/ i > 1 /\ NameAt(p, i, {"files", "filesystem"})
                      \/ p[i].key # <<>> /\ p[i].key[1] \in FilesKeys

ContainsFilesystem(p) == \E i \in DOMAIN p : NameAt(p, i, {"filesystem"})

PathMatches(p, h) ==
  IF h = "disk" THEN Len(p) > 1 /\ p[Len(p)] = [name |-> "disk-space", key |-> <<>>]
                ELSE ContainsFilesystem(p) /\ ContainsFiles(p)

NeedsFileHandler(ps) ==
  \E k \in DOMAIN ps : \E i \in DOMAIN ps[k] : i > 1 /\ NameAt(ps[k], i, {"firmware", "files"})

PathHandlers(ps) == {"disk"} \cup IF NeedsFileHandler(ps) THEN {"files"} ELSE {}

IsPathSupported(p, hs) == \E h \in hs : PathMatches(p, h)

NewOperationalHandler ==
  /\ get.pc = "new"
  /\ get' = [get EXCEPT !.pc = IF \A k \in DOMAIN req : IsPathSupported(req[k], PathHandlers(req))
                               THEN "choose" ELSE "NotFound"]
  /\ begun' = fsChanges
  /\ UNCHANGED <<dir, req, always, ever, fsChanges>>

\* The keys of pathHandlers are the two paths without keys: one of them that
\* is requested as it is finds its own handler.
Registered(p, hs) ==
  {h \in hs : p = <<[name |-> "filesystem", key |-> <<>>],
                    [name |-> IF h = "disk" THEN "disk-space" ELSE "files", key |-> <<>>]>>}

\* The handler of every path is chosen before any of them runs.  A range
\* over the map visits the handlers in any order: a path that two handlers
\* match gets either.
ChooseHandlers ==
  /\ get.pc = "choose"
  /\ \E c \in [DOMAIN req -> PathHandlers(req)] :
       /\ \A k \in DOMAIN req :
            IF Registered(req[k], PathHandlers(req)) # {}
            THEN c[k] \in Registered(req[k], PathHandlers(req))
            ELSE PathMatches(req[k], c[k])
       /\ get' = [get EXCEPT !.pc = "path", !.chosen = c]
  /\ UNCHANGED <<dir, req, always, ever, fsChanges, begun>>

-----------------------------------------------------------------------------
(* The path handlers.                                                      *)

Current == req[Len(get.values) + 1]

Handler == get.chosen[Len(get.values) + 1]

Fail == get' = [get EXCEPT !.pc = "NotFound"]

Value(v) == get' = [get EXCEPT !.pc = "path", !.values = Append(@, v), !.walk = <<>>, !.found = <<>>]

\* The values of the path key of p's filesystem elements, in order.
FsKeys(p) == LET fs == SelectSeq(p, LAMBDA e : e.name = "filesystem")
             IN [i \in DOMAIN fs |-> fs[i].key]

ExtractFilesystemPath(p) ==
  LET keyed == SelectSeq(FsKeys(p), LAMBDA k : k # <<>>)
  IN IF keyed = <<>> THEN "" ELSE keyed[1][1]

\* Statfs of the path; a path that does not exist fails.
DiskGet ==
  /\ LET path == ExtractFilesystemPath(Current)
     IN IF path \in Dirs THEN Value([kind |-> "disk", path |-> path]) ELSE Fail
  /\ UNCHANGED <<dir, req, always, ever, fsChanges, begun>>

\* The path is the key of the last filesystem element, and each of them must
\* have one; the pattern is that of the last files element that has one; the
\* field is what follows the last files element that has a successor.
ExtractFilePathInfo(p) ==
  LET keys  == FsKeys(p)
      pats  == {i \in DOMAIN p : p[i].name = "files" /\ p[i].key # <<>>}
      nexts == {i \in DOMAIN p : p[i].name = "files" /\ i < Len(p)}
      last(s) == CHOOSE i \in s : \A j \in s : j <= i
  IN [path    |-> IF keys = <<>> \/ \E i \in DOMAIN keys : keys[i] \in {<<>>, <<"">>}
                  THEN "" ELSE keys[Len(keys)][1],
      pattern |-> IF pats = {} THEN "*" ELSE p[last(pats)].key[1],
      field   |-> IF nexts = {} THEN "list" ELSE p[last(nexts) + 1].name]

\* The entries of directory d that ReadDir returns, in order.
ReadDir(d) == SelectSeq(Order, LAMBDA f : f \in dir /\ Files[f].parent = d)

\* ListFiles: stat of the directory and the first ReadDir of the walk.
ListFiles ==
  /\ IF ExtractFilePathInfo(Current).path \in Dirs
     THEN get' = [get EXCEPT !.pc = "walk", !.walk = ReadDir("")]
     ELSE Fail
  /\ always' = dir /\ ever' = dir
  /\ UNCHANGED <<dir, req, fsChanges, begun>>

\* Mutant: an entry that has gone ends the walk.
MutVisit ==
  /\ get.pc = "walk" /\ get.walk # <<>>
  /\ LET f == Head(get.walk)
     IN get' = IF f \in dir
               THEN [get EXCEPT !.walk = (IF Files[f].dir THEN ReadDir(f) ELSE <<>>) \o Tail(@),
                                !.found = Append(@, f)]
               ELSE [get EXCEPT !.walk = <<>>]
  /\ UNCHANGED <<dir, req, always, ever, fsChanges, begun>>

\* One call of the walk's function.  An entry that has gone since its
\* directory was read is passed over; a directory is listed and then read.
Visit ==
  /\ get.pc = "walk" /\ get.walk # <<>>
  /\ LET f == Head(get.walk)
     IN get' = IF f \in dir
               THEN [get EXCEPT !.walk = (IF Files[f].dir THEN ReadDir(f) ELSE <<>>) \o Tail(@),
                                !.found = Append(@, f)]
               ELSE [get EXCEPT !.walk = Tail(@)]
  /\ UNCHANGED <<dir, req, always, ever, fsChanges, begun>>

\* filepath.Match of the base name, for patterns that name an extension; "["
\* stands for those that Match refuses, for which every file is returned.
FilterFilesByPattern(fs, pattern) ==
  IF pattern \in {"*", "", "["} THEN fs
  ELSE SelectSeq(fs, LAMBDA f : Files[f].ext = pattern)

IsFirmwareFile(f) ==
  Files[f].ext \in {"bin", "img"} /\ ~(Files[f].ext = "img" /\ "sonic" \in Files[f].words)

\* The words are tried in the order of the switch, in the whole relative
\* path: a directory's name counts for the files below it.
TypeWords == <<<<{"boot"}, "bootloader">>, <<{"bios", "uefi"}, "bios">>,
               <<{"microcode", "ucode"}, "microcode">>, <<{"asic", "fpga"}, "asic">>,
               <<{"phy", "serdes"}, "phy">>, <<{"driver"}, "driver">>>>

\* Mutant: SONiC images count as firmware.
MutDetermineFirmwareType(f) ==
  LET hits == {i \in DOMAIN TypeWords : TypeWords[i][1] \cap Files[f].words # {}}
  IN IF Files[f].dir THEN "directory"
     ELSE IF Files[f].ext \notin {"bin", "img"} THEN "other"
     ELSE IF hits = {} THEN "firmware"
     ELSE TypeWords[CHOOSE i \in hits : \A j \in hits : i <= j][2]

DetermineFirmwareType(f) ==
  LET hits == {i \in DOMAIN TypeWords : TypeWords[i][1] \cap Files[f].words # {}}
  IN IF Files[f].dir THEN "directory"
     ELSE IF Files[f].ext \notin {"bin", "img"} THEN "other"
     ELSE IF Files[f].ext = "img" /\ "sonic" \in Files[f].words THEN "other"
     ELSE IF hits = {} THEN "firmware"
     ELSE TypeWords[CHOOSE i \in hits : \A j \in hits : i <= j][2]

FileTypes == {"bootloader", "bios", "microcode", "asic", "phy", "driver", "firmware", "other"}

\* Mutant: the count ignores the pattern.
MutFileCount(info) == Len(get.found)

\* The field "count".
FileCount(info) == Len(FilterFilesByPattern(get.found, info.pattern))

\* HandleGet of the file handler, once the walk has ended.  A field that is
\* no file's name costs a second listing, which only words the error.
FilesGet ==
  /\ get.pc = "walk" /\ get.walk = <<>>
  /\ LET info == ExtractFilePathInfo(Current)
         fs   == FilterFilesByPattern(get.found, info.pattern)
         answer(kind, v) == Value([kind |-> kind, path |-> info.path, pattern |-> info.pattern,
                                   value |-> v, always |-> always, ever |-> ever])
     IN CASE info.field = "count" -> answer("count", FileCount(info))
          [] info.field = "list"  -> answer("list", fs)
          [] info.field = "types" ->
               answer("types", [t \in FileTypes |->
                                  SelectSeq(fs, LAMBDA f : ~Files[f].dir /\ DetermineFirmwareType(f) = t)])
          [] OTHER -> IF info.field \in Range(get.found) THEN answer("file", info.field) ELSE Fail
  /\ UNCHANGED <<dir, req, always, ever, fsChanges, begun>>

HandleGet ==
  \/ get.pc = "path" /\ Len(get.values) < Len(req) /\ Handler = "disk" /\ DiskGet
  \/ get.pc = "path" /\ Len(get.values) < Len(req) /\ Handler = "files" /\ ListFiles
  \/ Visit
  \/ FilesGet

\* Every path has its value: one notification for each is returned.
HandleOperationalGet ==
  /\ get.pc = "path" /\ Len(get.values) = Len(req)
  /\ get' = [get EXCEPT !.pc = "done"]
  /\ UNCHANGED <<dir, req, always, ever, fsChanges, begun>>

Next == FsChange \/ NewOperationalHandler \/ ChooseHandlers \/ HandleGet \/ HandleOperationalGet

Spec == Init /\ [][Next]_opVars

-----------------------------------------------------------------------------
Listed(v) == IF v.kind = "types" THEN UNION {Range(v.value[t]) : t \in FileTypes} ELSE Range(v.value)

Wanted(v, fs) == {f \in fs : /\ Len(FilterFilesByPattern(<<f>>, v.pattern)) = 1
                             /\ v.kind = "types" => ~Files[f].dir}

ListValues == {i \in DOMAIN get.values : get.values[i].kind \in {"list", "types"}}

\* While files come and go during the walk, a listing has every file that
\* existed all the time and the pattern selects, none that never existed in
\* that time, and none twice.
ListingRegular ==
  \A i \in ListValues :
    LET v == get.values[i]
    IN /\ Wanted(v, v.always) \subseteq Listed(v)
       /\ Listed(v) \subseteq Wanted(v, v.ever)
       /\ v.kind = "list" => Len(v.value) = Cardinality(Listed(v))

\* In a Get during which nothing changed the answers agree: the count of a
\* directory and pattern is the length of its list.
CountAgrees ==
  begun = fsChanges =>
    \A i, j \in DOMAIN get.values :
      LET c == get.values[i]
          l == get.values[j]
      IN c.kind = "count" /\ l.kind = "list" /\ c.path = l.path /\ c.pattern = l.pattern
           => c.value = Len(l.value)

\* A file is under one type only, and the types other than "other" are those
\* of the files that IsFirmwareFile accepts.
TypesAgree ==
  \A i \in ListValues :
    LET v == get.values[i]
    IN v.kind = "types" =>
         /\ \A t, u \in FileTypes : t # u => Range(v.value[t]) \cap Range(v.value[u]) = {}
         /\ \A t \in FileTypes : \A f \in Range(v.value[t]) : IsFirmwareFile(f) <=> t # "other"

\* What a Get tells of a directory is consistent, while files change (each listing) and
\* while they do not (counts, lists and types among each other).
ListingsAgree == ListingRegular /\ CountAgrees /\ TypesAgree

=============================================================================
