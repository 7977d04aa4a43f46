------------------------------- MODULE Bundle -------------------------------
(***************************************************************************)
(* Binaries that carry a site: how the program packs a site directory into *)
(* a copy of itself, and what a bundled binary does with its site          *)
(* (internal/bundle/bundle.go; the commands bundle, extract, cp and serve; *)
(* the file systems of internal/server/server.go).                         *)
(*                                                                         *)
(* A binary is a sequence of cells: the executable, then, of a bundled one,*)
(* the ZIP (a cell for each file and one for the central directory) and    *)
(* the footer (offset and size of the ZIP, and last of all the magic       *)
(* marker).  It is written in place, so a process that stops, whether it   *)
(* is killed or a call returns an error, leaves what it had written; and   *)
(* nothing keeps two processes from writing one file at the same time.     *)
(* mixed remembers the files and directories for which that happened.      *)
(*                                                                         *)
(* Outside the model: a file that runs cannot be opened for writing, and a *)
(* file open for writing cannot be run (ETXTBSY of Linux); CRC-32 tells    *)
(* every change of a file's content; hidden files; the user may empty a    *)
(* directory at any time.                                                  *)
(***************************************************************************)
EXTENDS Naturals, Sequences, SequencesExt

CONSTANTS Files,      \* paths of binaries
          Original,   \* the one that is there at first
          Dirs,       \* directories the user bundles from, extracts to and copies to
          Start,      \* their content at first: a function from paths, each the sequence of
                      \* the names from the directory down
          Home,       \* of each binary, the directory it lies in, or None
          Name,       \* of each binary, its name there
          Paths,      \* of files: sequences of names
          Bytes,      \* the contents of files
          Walk,       \* filepath.Walk: of each set of paths, the sequence in lexical order
          Picks,      \* what the patterns of cp may match: sets of names
          Urls,       \* what browsers ask for: a path below html/ and whether it ends with /
          Routable,   \* the names without an extension, and those ending in .html
          Procs,      \* bound: processes at one time
          ExeSize,    \* cells of the executable
          MaxRuns,    \* bound: times the program is started
          None

\* What directories and ZIPs hold.
IsSite(s) == DOMAIN s \subseteq Paths /\ s \in [DOMAIN s -> Bytes]

Torn == "torn"       \* the content of a file whose writing was cut off
Binary == "binary"   \* the content of a binary, where it lies among the files of a site
Corrupt == "corrupt" \* what stands for a file of a ZIP whose checksum does not match

ASSUME BytesAssumption == {Torn, Binary, Corrupt} \subseteq Bytes
ASSUME FilesAssumption ==
  Original \in Files /\ Files \cap Dirs = {} /\ None \notin Files \cup Dirs
ASSUME SizeAssumption == ExeSize \in Nat \ {0} /\ MaxRuns \in Nat
ASSUME PathsAssumption ==
  /\ Paths \subseteq Seq(STRING) \ {<<>>}
  /\ \A path \in Paths : <<Last(path)>> \in Paths
  /\ \A f \in Files : <<Name[f]>> \in Paths
  /\ <<"html">> \notin Paths \* html/ is a directory everywhere
ASSUME UrlsAssumption == Urls \subseteq [path : Seq(STRING), slash : BOOLEAN]
ASSUME WalkAssumption ==
  \A S \in SUBSET Paths :
    /\ Walk[S] \in Seq(S)
    /\ \A path \in S : \E i \in DOMAIN Walk[S] : Walk[S][i] = path
    /\ \A i, j \in DOMAIN Walk[S] : Walk[S][i] = Walk[S][j] => i = j
ASSUME StartAssumption ==
  /\ Start = [d \in Dirs |-> Start[d]]
  /\ \A d \in Dirs : IsSite(Start[d]) /\ \A path \in DOMAIN Start[d] : Start[d][path] # Corrupt

VARIABLES disk,  \* the cells of each binary that is there
          dirs,  \* the files in each directory: a function from paths to contents
          proc,  \* of each process: see Process
          runs,  \* number of times the program was started
          mixed  \* history: files and directories two processes wrote at the same time, and
                 \* the binaries made from such

vars == <<disk, dirs, proc, runs, mixed>>

Index == <<"html", "index.html">>

-----------------------------------------------------------------------------
(* Cells and their reading. *)

Magic == <<"magic">>
Zero == <<"zero">>   \* what a file reads as where nothing was written
Exe == [i \in 1..ExeSize |-> <<"exe", i>>]

\* The central directory holds a name and a CRC of every file.
ZipOf(site) ==
  LET names == Walk[DOMAIN site]
  IN  Append([i \in DOMAIN names |-> <<"entry", names[i], site[names[i]]>>],
             <<"directory", names, site>>)

Footer(size, zipSize) == <<<<"offset", size>>, <<"size", zipSize>>, Magic>>

FooterSize == 3

IsBundled(cells) == Len(cells) >= FooterSize /\ Last(cells) = Magic

\* The footer is whole and names a range of the file; else some call fails or panics.
FooterInRange(cells) ==
  LET n == Len(cells)
  IN  /\ cells[n - 2][1] = "offset"
      /\ cells[n - 1][1] = "size"
      /\ cells[n - 2][2] + cells[n - 1][2] <= n

\* Mutant: the size of the whole file, bundled or not.
GetBinarySizeWhole(cells) == {Len(cells)}

\* What GetBinarySize may return.  A bundled file whose footer was overwritten
\* has any number there: mostly one beyond the file's size, or a negative one,
\* for which CopyN copies nothing and reports no error.
GetBinarySize(cells) ==
  IF ~IsBundled(cells) THEN {Len(cells)}
  ELSE LET offset == cells[Len(cells) - 2]
       IN  IF offset[1] = "offset" THEN {offset[2]} ELSE {0, Len(cells) + 1}

ZipData(cells) ==
  LET n == Len(cells)
  IN  SubSeq(cells, cells[n - 2][2] + 1, cells[n - 2][2] + cells[n - 1][2])

\* zip.NewReader finds the central directory at the end of the data and counts
\* back from it.
ZipOpens(data) ==
  /\ Len(data) > 0
  /\ Last(data)[1] = "directory"
  /\ Len(Last(data)[2]) < Len(data)

\* The files a ZIP lists, Corrupt where the checksum does not match.
ZipFiles(data) ==
  LET names == Last(data)[2]
      base == Len(data) - 1 - Len(names)
      Found(i) == data[base + i]
  IN  [path \in ToSet(names) |->
         LET i == CHOOSE i \in DOMAIN names : names[i] = path
         IN  IF Found(i) = <<"entry", path, Last(data)[3][path]>>
             THEN Last(data)[3][path] ELSE Corrupt]

\* The site a binary carries, as a set: empty if it carries none that can be opened.
GetBundleReader(cells) ==
  IF IsBundled(cells) /\ FooterInRange(cells) /\ ZipOpens(ZipData(cells))
  THEN {ZipFiles(ZipData(cells))} ELSE {}

ImageOf(f) == IF f \in DOMAIN disk THEN GetBundleReader(disk[f]) ELSE {}

NoFiles == [path \in {} |-> Torn]

-----------------------------------------------------------------------------
(* Processes. *)

\* What a process is at: nothing; started; copying the executable to out; writing
\* the ZIP and the footer after it; extracting to dir, copying to dir; serving dir, or
\* the site it carries if dir is None.  size is what GetBinarySize returned, pos the
\* offset in out, todo what is left to write: cells, or paths of the site.
Idle == [pc |-> "idle", exe |-> None, out |-> None, dir |-> None, size |-> 0, pos |-> 0,
         todo |-> <<>>, site |-> NoFiles]

Pc(p) == proc[p].pc
Stages == {"idle", "started", "copy", "write", "extract", "cp", "serve"}

Runs(p, f) == Pc(p) # "idle" /\ proc[p].exe = f
WritesFile(p, f) == Pc(p) \in {"copy", "write"} /\ proc[p].out = f
WritesDir(p, d) == Pc(p) \in {"extract", "cp"} /\ proc[p].dir = d

Executable(cells) == Len(cells) >= ExeSize /\ SubSeq(cells, 1, ExeSize) = Exe

Init ==
  /\ disk = [f \in {Original} |-> Exe]
  /\ dirs = Start
  /\ proc = [p \in Procs |-> Idle]
  /\ runs = 0
  /\ mixed = {}

\* The user starts the program that f holds.
Run(p, f) ==
  /\ Pc(p) = "idle"
  /\ runs < MaxRuns
  /\ f \in DOMAIN disk
  /\ Executable(disk[f])
  /\ \A q \in Procs : ~WritesFile(q, f)
  /\ proc' = [proc EXCEPT ![p] = [Idle EXCEPT !.pc = "started", !.exe = f]]
  /\ runs' = runs + 1
  /\ UNCHANGED <<disk, dirs, mixed>>

\* The process ends; a call has failed, it was killed, or it has nothing more to do.
Exit(p) == proc' = [proc EXCEPT ![p] = Idle]

\* What x, a file or a directory, is after p has begun to write it; content may
\* come from the file f.
Mixing(x, f, others) == IF others \/ f \in mixed THEN mixed \cup {x} ELSE mixed \ {x}

-----------------------------------------------------------------------------
(* bundle *)

\* The files of a directory; a binary that lies in it is one of them.
SiteOf(d) ==
  LET binaries == {f \in Files : Home[f] = d /\ f \in DOMAIN disk}
      paths == DOMAIN dirs[d] \cup {<<Name[f]>> : f \in binaries}
  IN  [path \in paths |-> IF path \in DOMAIN dirs[d] THEN dirs[d][path] ELSE Binary]

\* Mutant: the output is opened without O_TRUNC.
CreateBundleOver(p, d, out) ==
  /\ Pc(p) = "started"
  /\ IF Index \in DOMAIN dirs[d] /\ \A q \in Procs : ~Runs(q, out)
     THEN \E size \in GetBinarySize(disk[proc[p].exe]) :
            /\ proc' = [proc EXCEPT ![p].pc = "copy", ![p].out = out, ![p].dir = d,
                          ![p].size = size,
                          ![p].todo = SubSeq(disk[proc[p].exe], 1, size)]
            /\ disk' = [f \in DOMAIN disk \cup {out} |-> IF f \in DOMAIN disk THEN disk[f] ELSE <<>>]
            /\ mixed' = Mixing(out, proc[p].exe, \E q \in Procs : WritesFile(q, out))
     ELSE Exit(p) /\ UNCHANGED <<disk, mixed>>
  /\ UNCHANGED <<dirs, runs>>

\* runBundle as far as opening the output, which truncates it; a file that runs cannot be
\* opened.
CreateBundle(p, d, out) ==
  /\ Pc(p) = "started"
  /\ IF Index \in DOMAIN dirs[d] /\ \A q \in Procs : ~Runs(q, out)
     THEN \E size \in GetBinarySize(disk[proc[p].exe]) :
            /\ proc' = [proc EXCEPT ![p].pc = "copy", ![p].out = out, ![p].dir = d,
                          ![p].size = size,
                          ![p].todo = SubSeq(disk[proc[p].exe], 1,
                                             IF size <= Len(disk[proc[p].exe]) THEN size
                                             ELSE Len(disk[proc[p].exe]))]
            /\ disk' = [f \in DOMAIN disk \cup {out} |-> IF f = out THEN <<>> ELSE disk[f]]
            /\ mixed' = Mixing(out, proc[p].exe, \E q \in Procs : WritesFile(q, out))
     ELSE Exit(p) /\ UNCHANGED <<disk, mixed>>
  /\ UNCHANGED <<dirs, runs>>

\* A write at an offset; beyond the end of the file it leaves a gap.
Put(cells, pos, cell) ==
  IF pos < Len(cells) THEN [cells EXCEPT ![pos + 1] = cell]
  ELSE Append(cells \o [i \in 1..(pos - Len(cells)) |-> Zero], cell)

WriteCell(p) ==
  /\ Pc(p) \in {"copy", "write"}
  /\ proc[p].todo # <<>>
  /\ disk' = [disk EXCEPT ![proc[p].out] = Put(@, proc[p].pos, Head(proc[p].todo))]
  /\ proc' = [proc EXCEPT ![p].pos = @ + 1, ![p].todo = Tail(@)]
  /\ UNCHANGED <<dirs, runs, mixed>>

\* The executable is copied: addDirToZip reads the directory.  CopyN has failed
\* if the source was shorter than its footer says.
Pack(p) ==
  /\ Pc(p) = "copy"
  /\ proc[p].todo = <<>>
  /\ LET site == SiteOf(proc[p].dir)
     IN  IF proc[p].pos >= proc[p].size
         THEN proc' = [proc EXCEPT ![p].pc = "write", ![p].site = site,
                         ![p].todo = ZipOf(site) \o Footer(proc[p].size, Len(ZipOf(site)))]
         ELSE Exit(p)
  /\ UNCHANGED <<disk, dirs, runs, mixed>>

BundleEnds(p) ==
  /\ Pc(p) = "write"
  /\ proc[p].todo = <<>>
  /\ Exit(p)
  /\ UNCHANGED <<disk, dirs, runs, mixed>>

-----------------------------------------------------------------------------
(* extract and cp.  The process reads its own executable, which nothing changes. *)

Own(p) == ImageOf(proc[p].exe)
OwnFiles(p) == CHOOSE site \in Own(p) : TRUE

\* A directory p begins to write keeps what was written there if it is not empty.
MixingDir(p, d) ==
  Mixing(d, proc[p].exe, (d \in mixed /\ DOMAIN dirs[d] # {}) \/ \E q \in Procs : WritesDir(q, d))

\* Mutant: the directory may hold files.
ExtractAnywhere(p, d) ==
  /\ Pc(p) = "started"
  /\ IF Own(p) # {} /\ DOMAIN OwnFiles(p) # {}
     THEN /\ proc' = [proc EXCEPT ![p].pc = "extract", ![p].dir = d, ![p].site = OwnFiles(p),
                        ![p].todo = Walk[DOMAIN OwnFiles(p)]]
          /\ mixed' = MixingDir(p, d)
     ELSE Exit(p) /\ UNCHANGED mixed
  /\ UNCHANGED <<disk, dirs, runs>>

\* runExtract as far as ExtractBundle has opened the ZIP; an empty one is done.
Extract(p, d) ==
  /\ Pc(p) = "started"
  /\ IF Own(p) # {} /\ DOMAIN OwnFiles(p) # {} /\ DOMAIN SiteOf(d) = {}
     THEN /\ proc' = [proc EXCEPT ![p].pc = "extract", ![p].dir = d, ![p].site = OwnFiles(p),
                        ![p].todo = Walk[DOMAIN OwnFiles(p)]]
          /\ mixed' = MixingDir(p, d)
     ELSE Exit(p) /\ UNCHANGED mixed
  /\ UNCHANGED <<disk, dirs, runs>>

\* The files of the directory after content was written to path.
Written(d, path, content) ==
  [dirs EXCEPT ![d] = [q \in DOMAIN @ \cup {path} |-> IF q = path THEN content ELSE @[q]]]

\* Mutant: the loop runs past the last file.
ExtractZipFilePast(p) ==
  /\ Pc(p) = "extract"
  /\ proc[p].todo # <<>>
  /\ dirs' = Written(proc[p].dir, Head(proc[p].todo), proc[p].site[Head(proc[p].todo)])
  /\ proc' = [proc EXCEPT ![p].todo = Tail(@)]
  /\ UNCHANGED <<disk, runs, mixed>>

\* extractZipFile; a bad checksum is found when the target has been written.
ExtractZipFile(p) ==
  /\ Pc(p) = "extract"
  /\ proc[p].todo # <<>>
  /\ LET path == Head(proc[p].todo)
         content == proc[p].site[path]
     IN  /\ dirs' = Written(proc[p].dir, path, IF content = Corrupt THEN Torn ELSE content)
         /\ IF content = Corrupt \/ Len(proc[p].todo) = 1 THEN Exit(p)
            ELSE proc' = [proc EXCEPT ![p].todo = Tail(@)]
  /\ UNCHANGED <<disk, runs, mixed>>

\* The files below html/ whose name one of the patterns matches.
FindMatchingFiles(site, pick) == {path \in DOMAIN site : Head(path) = "html" /\ Last(path) \in pick}

\* runCp as far as the directory is made: an error if nothing matches.
Cp(p, d, pick) ==
  /\ Pc(p) = "started"
  /\ LET matched == UNION {FindMatchingFiles(site, pick) : site \in Own(p)}
     IN  IF matched # {}
         THEN /\ proc' = [proc EXCEPT ![p].pc = "cp", ![p].dir = d,
                            ![p].site = [path \in matched |-> OwnFiles(p)[path]],
                            ![p].todo = Walk[matched]]
              /\ mixed' = MixingDir(p, d)
         ELSE Exit(p) /\ UNCHANGED mixed
  /\ UNCHANGED <<disk, dirs, runs>>

\* copyFile, in the order of a range over a map: the file lands under its base name.
CopyFile(p) ==
  /\ Pc(p) = "cp"
  /\ \E path \in ToSet(proc[p].todo) :
       LET content == proc[p].site[path]
           rest == Walk[ToSet(proc[p].todo) \ {path}]
       IN  /\ dirs' = Written(proc[p].dir, <<Last(path)>>,
                              IF content = Corrupt THEN Torn ELSE content)
           /\ IF content = Corrupt \/ rest = <<>> THEN Exit(p)
              ELSE proc' = [proc EXCEPT ![p].todo = rest]
  /\ UNCHANGED <<disk, runs, mixed>>

-----------------------------------------------------------------------------
(* serve *)

\* runServe: a directory that has an index, or the site of the binary.
Serve(p, d) ==
  /\ Pc(p) = "started"
  /\ IF (d = None /\ Own(p) # {}) \/ (d # None /\ Index \in DOMAIN dirs[d])
     THEN proc' = [proc EXCEPT ![p].pc = "serve", ![p].dir = d,
                     ![p].site = IF d = None THEN OwnFiles(p) ELSE NoFiles]
     ELSE Exit(p)
  /\ UNCHANGED <<disk, dirs, runs, mixed>>

\* What http.FileSystem.Open finds: the content of a file, that it is a directory, nothing.
File(site, path) == <<"html">> \o path \in DOMAIN site
Directory(site, path) == \E q \in DOMAIN site : IsStrictPrefix(<<"html">> \o path, q)

\* Mutant: the path in the ZIP lacks the html/ that every page is under.
ZipOpenBare(site, path) == IF path \in DOMAIN site THEN "file" ELSE "none"

ZipOpen(site, path) ==
  IF File(site, path) /\ site[<<"html">> \o path] # Corrupt THEN "file" ELSE "none"

DirOpen(site, path) ==
  IF File(site, path) THEN "file" ELSE IF Directory(site, path) THEN "directory" ELSE "none"

\* spaHandler around http.FileServer, with the file system of a bundled or of an unpacked
\* site: a file, a redirection, a listing or Not Found.
SpaHandler(bundled, site, url) ==
  LET Open(s, q) == IF bundled THEN ZipOpen(s, q) ELSE DirOpen(s, q)
      path == url.path
      Content(q) == [is |-> "page", of |-> site[<<"html">> \o q]]
      To(q, slash) == [is |-> "redirect", of |-> [path |-> q, slash |-> slash]]
      NotFound == [is |-> "notfound"]
      index == Append(path, "index.html")
  IN  IF Open(site, path) # "none" THEN
        IF path # <<>> /\ Last(path) = "index.html" /\ ~url.slash THEN To(Front(path), TRUE)
        ELSE IF Open(site, path) = "file" THEN
          IF url.slash THEN To(path, FALSE) ELSE Content(path)
        ELSE IF ~url.slash THEN To(path, TRUE)
        ELSE IF Open(site, index) = "file" THEN Content(index)
        ELSE [is |-> "listing"]
      ELSE IF ~url.slash /\ path # <<>> /\ Last(path) \notin Routable THEN NotFound
      ELSE IF Open(site, <<"index.html">>) = "file" THEN Content(<<"index.html">>)
      ELSE NotFound

\* What the browser shows: it follows redirections.  Two are the most there are.
Browse(bundled, site, url) ==
  LET first == SpaHandler(bundled, site, url)
      second == IF first.is = "redirect" THEN SpaHandler(bundled, site, first.of) ELSE first
  IN  IF second.is = "redirect" THEN SpaHandler(bundled, site, second.of) ELSE second

-----------------------------------------------------------------------------
(* Failures, and the user. *)

\* A process that is writing stops: a call returns an error or it is killed.  A file of a
\* directory may be left cut off.
Stop(p) ==
  /\ Pc(p) \in {"copy", "write", "extract", "cp"}
  /\ \/ UNCHANGED dirs
     \/ /\ Pc(p) = "extract"
        /\ dirs' = Written(proc[p].dir, Head(proc[p].todo), Torn)
     \/ /\ Pc(p) = "cp"
        /\ \E path \in ToSet(proc[p].todo) : dirs' = Written(proc[p].dir, <<Last(path)>>, Torn)
  /\ Exit(p)
  /\ UNCHANGED <<disk, runs, mixed>>

StopServing(p) ==
  /\ Pc(p) = "serve"
  /\ Exit(p)
  /\ UNCHANGED <<disk, dirs, runs, mixed>>

\* The user empties a directory that no binary lies in and no process writes.
Clear(d) ==
  /\ DOMAIN dirs[d] # {}
  /\ \A f \in Files : Home[f] # d
  /\ \A p \in Procs : ~WritesDir(p, d)
  /\ dirs' = [dirs EXCEPT ![d] = [path \in {} |-> Torn]]
  /\ UNCHANGED <<disk, proc, runs, mixed>>

Command(p) ==
  \/ \E d \in Dirs, out \in Files : CreateBundle(p, d, out)
  \/ \E d \in Dirs : Extract(p, d)
  \/ \E d \in Dirs, pick \in Picks : Cp(p, d, pick)
  \/ \E d \in Dirs \cup {None} : Serve(p, d)

Next ==
  \/ \E p \in Procs :
       \/ \E f \in Files : Run(p, f)
       \/ Command(p)
       \/ WriteCell(p) \/ Pack(p) \/ BundleEnds(p)
       \/ ExtractZipFile(p) \/ CopyFile(p)
       \/ Stop(p) \/ StopServing(p)
  \/ \E d \in Dirs : Clear(d)

Spec == Init /\ [][Next]_vars

-----------------------------------------------------------------------------
(* Properties. *)

Kinds == {"exe", "entry", "directory", "offset", "size", "magic", "zero"}

\* Types: files are made of cells, directories of known paths, and a process that writes
\* knows where.
TypeOK ==
  /\ DOMAIN disk \subseteq Files /\ DOMAIN proc = Procs
  /\ \A f \in DOMAIN disk : \A i \in DOMAIN disk[f] : disk[f][i][1] \in Kinds
  /\ DOMAIN dirs = Dirs /\ \A d \in Dirs : IsSite(dirs[d])
  /\ \A p \in Procs :
       /\ Pc(p) \in Stages
       /\ Pc(p) # "idle" => proc[p].exe \in DOMAIN disk
       /\ Pc(p) \in {"copy", "write"} => proc[p].out \in DOMAIN disk
       /\ Pc(p) \in {"extract", "cp"} => proc[p].dir \in Dirs /\ proc[p].todo # <<>>
       /\ proc[p].pos \in Nat /\ proc[p].size \in Nat
  /\ runs \in 0..MaxRuns
  /\ mixed \subseteq Files \cup Dirs

\* A file that says it is bundled is whole: an executable part that runs and is not
\* itself bundled, a ZIP every file of which can be read, a footer that fits; wherever a
\* process that wrote it was stopped, whatever its source was (a bundled binary, or one
\* left by a process that was stopped), and however often it was made anew.
BundledIsWhole ==
  \A f \in DOMAIN disk \ mixed :
    IsBundled(disk[f]) =>
      \E site \in ImageOf(f) :
      LET offset == Len(disk[f]) - FooterSize - Len(ZipOf(site))
          part == SubSeq(disk[f], 1, offset)
      IN  /\ disk[f] = part \o ZipOf(site) \o Footer(offset, Len(ZipOf(site)))
          /\ Executable(part)
          /\ ~IsBundled(part)

\* The site of a file appears at once, complete, as the process that writes the file read it
\* in the directory, and goes only when a process opens the file to write it anew: nobody
\* runs into a site that is half old and half new.
PublishedWhole ==
  [][\A f \in Files \ (mixed \cup mixed') :
       ImageOf(f)' # ImageOf(f) =>
         \/ ImageOf(f)' = {} /\ disk'[f] = <<>>
         \/ /\ ImageOf(f) = {}
            /\ \E p \in Procs : WritesFile(p, f) /\ ImageOf(f)' = {proc[p].site}]_vars

\* extract that ends well leaves in the directory the files of the site and no others, even
\* if earlier ones were stopped halfway; cp that ends well has put there, for each file it
\* matched, a file of that name below html/ of its site (of two that have one name, either).
CopiedOut ==
  [][\A p \in Procs :
       proc'[p] = Idle /\ proc[p].dir \notin mixed =>
         /\ ExtractZipFile(p) => Own(p) = {dirs'[proc[p].dir]}
         /\ CopyFile(p) =>
              \A path \in DOMAIN proc[p].site :
                /\ <<Last(path)>> \in DOMAIN dirs'[proc[p].dir]
                /\ \E site \in Own(p) : \E q \in DOMAIN site :
                     /\ Head(q) = "html" /\ Last(q) = Last(path)
                     /\ dirs'[proc[p].dir][<<Last(path)>>] = site[q]]_vars

\* A browser sees the same page, or the same error, whether the site is served from the
\* binary or was extracted and is served from the directory; except where the path names a
\* directory below html/, or the index of one: the binary has no directories to find.  (A
\* site that lost its index between the test and the packing cannot be served from a
\* directory at all.)
NestedDirectory(site, path) ==
  /\ path # <<>>
  /\ \/ Directory(site, path)
     \/ Len(path) > 1 /\ Last(path) = "index.html" /\ File(site, path)

FromBinary(p) ==
  /\ Pc(p) = "serve" /\ proc[p].dir = None /\ proc[p].exe \notin mixed
  /\ Index \in DOMAIN proc[p].site

ServedAlike ==
  \A p \in Procs : FromBinary(p) =>
    \A url \in Urls :
      NestedDirectory(proc[p].site, url.path) \/
      Browse(TRUE, proc[p].site, url) = Browse(FALSE, proc[p].site, url)
=============================================================================
