-------------------------- MODULE BundleSites_proofs --------------------------
(***************************************************************************)
(* What becomes of the site a binary carries, for every number of binaries,*)
(* directories and processes and every site: extract and cp leave its files*)
(* in the directory, and a browser sees the same pages in either place.    *)
(***************************************************************************)
EXTENDS Bundle_proofs

-----------------------------------------------------------------------------
(* What a browser sees.                                                      *)

\* Every file can be read.
CleanSite(site) == \A path \in DOMAIN site : site[path] # Corrupt

\* Both file systems find the same files; only a directory makes a difference.
LEMMA OpenFiles ==
  ASSUME NEW site \in SiteSet, CleanSite(site), NEW path
  PROVE  /\ File(site, path) => ZipOpen(site, path) = "file" /\ DirOpen(site, path) = "file"
         /\ ~File(site, path) => ZipOpen(site, path) = "none" /\ DirOpen(site, path) # "file"
         /\ ~File(site, path) => (DirOpen(site, path) = "none" <=> ~Directory(site, path))
<1>1. File(site, path) => site[<<"html">> \o path] # Corrupt
  BY DEF File, CleanSite
<1> QED
  BY <1>1 DEF ZipOpen, DirOpen

LEMMA TwoNames ==
  ASSUME NEW a, NEW b
  PROVE  <<a>> \o <<b>> = <<a, b>>
<1> DEFINE S == {a, b}
           s == <<a>>
           t == <<b>>
           u == <<a, b>>
<1>1. /\ s \in Seq(S) /\ t \in Seq(S) /\ u \in Seq(S)
      /\ Len(s) = 1 /\ Len(t) = 1 /\ Len(u) = 2 /\ u[1] = s[1] /\ u[2] = t[1]
  OBVIOUS
<1> HIDE DEF S, s, t, u
<1>2. Len(s \o t) = Len(s) + Len(t)
  BY <1>1, ConcatProperties
<1>3. Len(s \o t) = Len(s) + Len(t) /\ Len(s) + Len(t) = 2
  BY <1>1, <1>2
<1>4. /\ s \o t \in Seq(S)
      /\ (s \o t)[1] = IF 1 <= Len(s) THEN s[1] ELSE t[1 - Len(s)]
      /\ (s \o t)[2] = IF 2 <= Len(s) THEN s[2] ELSE t[2 - Len(s)]
  BY <1>1, <1>3, ConcatProperties
<1>5. Len(s \o t) = 2 /\ \A i \in 1..Len(s \o t) : (s \o t)[i] = u[i]
  BY <1>1, <1>4, <1>3
<1>6. s \o t = u
  BY <1>1, <1>4, <1>5, SeqEqual
<1> QED
  BY <1>6 DEF s, t, u

\* html/ is a directory and the index lies in it.
LEMMA RootOfSite ==
  ASSUME NEW site \in SiteSet, Index \in DOMAIN site
  PROVE  /\ ~File(site, <<>>) /\ Directory(site, <<>>)
         /\ File(site, <<"index.html">>)
<1>1. <<"html">> \o <<>> = <<"html">>
  BY ConcatEmptySeq
<1>2. <<"html">> \o <<"index.html">> = Index
  BY TwoNames DEF Index
<1>3. DOMAIN site \subseteq Paths
  BY WalkOfSite
<1>4. IsStrictPrefix(<<"html">>, Index)
  BY DEF Index, IsStrictPrefix, IsPrefix
<1> QED
  BY <1>1, <1>3, <1>4, <1>2, PathsAssumption DEF File, Directory

Page(site, path) == [is |-> "page", of |-> site[<<"html">> \o path]]
Redirect(path, slash) == [is |-> "redirect", of |-> [path |-> path, slash |-> slash]]

LEMMA SpaFile ==
  ASSUME NEW site \in SiteSet, CleanSite(site), NEW bundled \in BOOLEAN,
         NEW path \in Seq(STRING), NEW slash \in BOOLEAN, path # <<>>, File(site, path)
  PROVE  SpaHandler(bundled, site, [path |-> path, slash |-> slash]) =
           IF Last(path) = "index.html" /\ ~slash THEN Redirect(Front(path), TRUE)
           ELSE IF slash THEN Redirect(path, FALSE) ELSE Page(site, path)
  BY OpenFiles DEF SpaHandler, Page, Redirect

LEMMA SpaRoot ==
  ASSUME NEW site \in SiteSet, CleanSite(site), NEW bundled \in BOOLEAN, NEW slash \in BOOLEAN,
         Index \in DOMAIN site
  PROVE  SpaHandler(bundled, site, [path |-> <<>>, slash |-> slash]) =
           IF bundled \/ slash THEN Page(site, <<"index.html">>) ELSE Redirect(<<>>, TRUE)
<1>1. Append(<<>>, "index.html") = <<"index.html">>
  OBVIOUS
<1>2. /\ ZipOpen(site, <<>>) = "none" /\ ZipOpen(site, <<"index.html">>) = "file"
      /\ DirOpen(site, <<>>) \notin {"none", "file"} /\ DirOpen(site, <<"index.html">>) = "file"
  BY RootOfSite, OpenFiles
<1> QED
  BY <1>1, <1>2 DEF SpaHandler, Page, Redirect

LEMMA SpaAbsent ==
  ASSUME NEW site \in SiteSet, CleanSite(site), NEW bundled \in BOOLEAN,
         NEW path \in Seq(STRING), NEW slash \in BOOLEAN, Index \in DOMAIN site,
         ~File(site, path), ~Directory(site, path)
  PROVE  SpaHandler(bundled, site, [path |-> path, slash |-> slash]) =
           IF ~slash /\ path # <<>> /\ Last(path) \notin Routable THEN [is |-> "notfound"]
           ELSE Page(site, <<"index.html">>)
<1>1. /\ ZipOpen(site, path) = "none" /\ DirOpen(site, path) = "none"
      /\ ZipOpen(site, <<"index.html">>) = "file" /\ DirOpen(site, <<"index.html">>) = "file"
  BY RootOfSite, OpenFiles
<1> QED
  BY <1>1 DEF SpaHandler, Page

\* A browser follows a redirection, and the one after it.
LEMMA NotRedirected ==
  ASSUME NEW bundled, NEW site, NEW url, SpaHandler(bundled, site, url).is # "redirect"
  PROVE  Browse(bundled, site, url) = SpaHandler(bundled, site, url)
  BY DEF Browse

LEMMA RedirectedOnce ==
  ASSUME NEW bundled, NEW site, NEW url, NEW next,
         SpaHandler(bundled, site, url).is = "redirect", SpaHandler(bundled, site, url).of = next,
         SpaHandler(bundled, site, next).is # "redirect"
  PROVE  Browse(bundled, site, url) = SpaHandler(bundled, site, next)
  BY DEF Browse

LEMMA RedirectedTwice ==
  ASSUME NEW bundled, NEW site, NEW url, NEW next, NEW last,
         SpaHandler(bundled, site, url).is = "redirect", SpaHandler(bundled, site, url).of = next,
         SpaHandler(bundled, site, next).is = "redirect", SpaHandler(bundled, site, next).of = last,
         SpaHandler(bundled, site, last).is # "redirect"
  PROVE  Browse(bundled, site, url) = SpaHandler(bundled, site, last)
  BY DEF Browse

LEMMA RedirectFields ==
  ASSUME NEW path, NEW slash
  PROVE  /\ Redirect(path, slash).is = "redirect"
         /\ Redirect(path, slash).of = [path |-> path, slash |-> slash]
  BY DEF Redirect

LEMMA FollowedOnce ==
  ASSUME NEW b, NEW site, NEW url, NEW path, NEW slash, NEW answer, answer.is # "redirect",
         SpaHandler(b, site, url) = Redirect(path, slash),
         SpaHandler(b, site, [path |-> path, slash |-> slash]) = answer
  PROVE  Browse(b, site, url) = answer
<1> DEFINE next == [path |-> path, slash |-> slash]
<1>1. SpaHandler(b, site, url).is = "redirect" /\ SpaHandler(b, site, url).of = next
  BY DEF Redirect
<1>2. SpaHandler(b, site, next) = answer
  OBVIOUS
<1> HIDE DEF next
<1> QED
  BY <1>1, <1>2, RedirectedOnce

\* The three cases, with the redirections.
LEMMA ServedSame ==
  ASSUME NEW site \in SiteSet, CleanSite(site), Index \in DOMAIN site,
         NEW url \in [path : Seq(STRING), slash : BOOLEAN], ~NestedDirectory(site, url.path)
  PROVE  Browse(TRUE, site, url) = Browse(FALSE, site, url)
<1>0. PICK path \in Seq(STRING), slash \in BOOLEAN : url = [path |-> path, slash |-> slash]
  OBVIOUS
<1> DEFINE At(b, q, s) == SpaHandler(b, site, [path |-> q, slash |-> s])
           Root == Page(site, <<"index.html">>)
<1>1. ~NestedDirectory(site, path)
  BY <1>0
<1>2. /\ \A q : Page(site, q).is # "redirect"
      /\ <<>> \in Seq(STRING)
  BY DEF Page
<1>3. Root.is # "redirect"
  BY <1>2
<1>4. ASSUME NEW b \in BOOLEAN
      PROVE  /\ At(b, <<>>, TRUE) = Root
             /\ At(b, <<>>, FALSE) = Root \/ At(b, <<>>, FALSE) = Redirect(<<>>, TRUE)
  BY SpaRoot
<1> HIDE DEF Root
<1>5. CASE path = <<>>
  <2>1. ASSUME NEW b \in BOOLEAN PROVE Browse(b, site, url) = Root
    <3>1. CASE At(b, path, slash) = Root
      BY <1>0, <1>3, <3>1, NotRedirected
    <3>2. CASE At(b, path, slash) = Redirect(<<>>, TRUE)
      <4>1. At(b, <<>>, TRUE) = Root
        BY <1>4
      <4> QED
        BY <1>0, <1>3, <3>2, <4>1, FollowedOnce
    <3> QED
      BY <1>4, <1>5, <3>1, <3>2
  <2> QED
    BY <2>1
<1>6. CASE path # <<>> /\ File(site, path)
  <2>1. CASE Last(path) # "index.html"
    <3>1. ASSUME NEW b \in BOOLEAN PROVE Browse(b, site, url) = Page(site, path)
      <4>1. /\ At(b, path, TRUE) = Redirect(path, FALSE)
            /\ At(b, path, FALSE) = Page(site, path)
        BY <1>6, <2>1, SpaFile
      <4>2. CASE slash = FALSE
        <5>1. At(b, path, slash) = Page(site, path)
          BY <4>1, <4>2
        <5> QED
          BY <1>0, <1>2, <5>1, NotRedirected
      <4>3. CASE slash = TRUE
        <5>1. At(b, path, slash) = Redirect(path, FALSE)
          BY <4>1, <4>3
        <5>2. At(b, path, FALSE) = Page(site, path)
          BY <4>1
        <5>3. Page(site, path).is # "redirect"
          BY <1>2
        <5> QED
          BY <1>0, <5>1, <5>2, <5>3, FollowedOnce
      <4> QED
        BY <4>2, <4>3
    <3> QED
      BY <3>1
  <2>2. CASE Last(path) = "index.html"
    <3>1. Front(path) = <<>>
      <4> DEFINE n == Len(path)
      <4>1. n \in Nat /\ n # 0
        BY <1>6, EmptySeq
      <4>2. ~(n > 1)
        BY <1>1, <1>6, <2>2 DEF NestedDirectory
      <4> HIDE DEF n
      <4>3. n = 1
        BY <4>1, <4>2
      <4> QED
        BY <4>3 DEF Front, n
    <3>2. ASSUME NEW b \in BOOLEAN PROVE Browse(b, site, url) = Root
      <4>1. /\ At(b, path, TRUE) = Redirect(path, FALSE)
            /\ At(b, path, FALSE) = Redirect(<<>>, TRUE)
        BY <1>6, <2>2, <3>1, SpaFile
      <4>2. At(b, <<>>, TRUE) = Root
        BY <1>4
      <4>3. CASE slash = FALSE
        <5>1. At(b, path, slash) = Redirect(<<>>, TRUE)
          BY <4>1, <4>3
        <5> QED
          BY <1>0, <1>3, <4>2, <5>1, FollowedOnce
      <4>4. CASE slash = TRUE
        <5>1. At(b, path, slash) = Redirect(path, FALSE)
          BY <4>1, <4>4
        <5>2. At(b, path, FALSE) = Redirect(<<>>, TRUE)
          BY <4>1
        <5> DEFINE next == [path |-> path, slash |-> FALSE]
                   last == [path |-> <<>>, slash |-> TRUE]
        <5>3. SpaHandler(b, site, url).is = "redirect" /\ SpaHandler(b, site, url).of = next
          <6>1. Redirect(path, FALSE).is = "redirect" /\ Redirect(path, FALSE).of = next
            BY RedirectFields
          <6>2. SpaHandler(b, site, url) = Redirect(path, FALSE)
            BY <1>0, <5>1
          <6> HIDE DEF next
          <6> QED
            BY <6>1, <6>2
        <5>4. SpaHandler(b, site, next).is = "redirect" /\ SpaHandler(b, site, next).of = last
          <6>1. Redirect(<<>>, TRUE).is = "redirect" /\ Redirect(<<>>, TRUE).of = last
            BY RedirectFields
          <6>2. SpaHandler(b, site, next) = Redirect(<<>>, TRUE)
            BY <5>2
          <6> HIDE DEF next, last
          <6> QED
            BY <6>1, <6>2
        <5>5. SpaHandler(b, site, last) = Root
          BY <4>2
        <5> HIDE DEF next, last
        <5> QED
          BY <1>3, <5>3, <5>4, <5>5, RedirectedTwice
      <4> QED
        BY <4>3, <4>4
    <3> QED
      BY <3>2
  <2> QED
    BY <2>1, <2>2
<1>7. CASE path # <<>> /\ ~File(site, path)
  <2>1. ~Directory(site, path)
    BY <1>1, <1>7 DEF NestedDirectory
  <2> DEFINE answer == IF ~slash /\ Last(path) \notin Routable THEN [is |-> "notfound"] ELSE Root
  <2>2. answer.is # "redirect"
    BY <1>3
  <2>3. ASSUME NEW b \in BOOLEAN PROVE At(b, path, slash) = answer
    BY <1>7, <2>1, SpaAbsent DEF Root
  <2> HIDE DEF answer
  <2>4. ASSUME NEW b \in BOOLEAN PROVE Browse(b, site, url) = answer
    BY <1>0, <2>2, <2>3, NotRedirected
  <2> QED
    BY <2>4
<1> QED
  BY <1>5, <1>6, <1>7

-----------------------------------------------------------------------------
(* What extract and cp leave in a directory.  As long as nobody else writes  *)
(* there, what the process has written and what it has yet to write make the *)
(* site it found in its own executable.                                      *)

\* No file of a directory, of a site at hand or of a whole binary is corrupt.
Clean ==
  /\ \A d \in Dirs : CleanSite(dirs[d])
  /\ \A f \in Files \ mixed : \A site \in ImageOf(f) : CleanSite(site)
  /\ \A p \in Procs : Pc(p) \in {"started", "copy", "write"} => CleanSite(proc[p].site)

\* The process fills a directory that is its own.
Fills(p) == Pc(p) \in {"extract", "cp"} /\ proc[p].dir \notin mixed

AloneInDir(p) ==
  Fills(p) => proc[p].exe \notin mixed /\ \A q \in Procs : WritesDir(q, proc[p].dir) => q = p

ExtractPlan(p) ==
  LET r == proc[p] IN
  Pc(p) = "extract" /\ Fills(p) =>
    /\ Own(p) = {r.site}
    /\ \A i, j \in DOMAIN r.todo : r.todo[i] = r.todo[j] => i = j
    /\ DOMAIN dirs[r.dir] = DOMAIN r.site \ ToSet(r.todo)
    /\ \A path \in DOMAIN dirs[r.dir] : dirs[r.dir][path] = r.site[path]

\* A file of the site is in the directory under its name, or another of that name is.
Landed(p, path) ==
  /\ <<Last(path)>> \in DOMAIN dirs[proc[p].dir]
  /\ \E q \in DOMAIN proc[p].site :
       Last(q) = Last(path) /\ dirs[proc[p].dir][<<Last(path)>>] = proc[p].site[q]

\* The site at hand is a part of html/ of the process's own site.
PartOfOwn(p) ==
  \E own \in Own(p) : \A path \in DOMAIN proc[p].site :
    path \in DOMAIN own /\ Head(path) = "html" /\ proc[p].site[path] = own[path]

CpPlan(p) ==
  Pc(p) = "cp" /\ Fills(p) =>
    /\ PartOfOwn(p)
    /\ \A path \in DOMAIN proc[p].site \ ToSet(proc[p].todo) : Landed(p, path)

ServePlan(p) == Pc(p) = "serve" /\ proc[p].dir = None => Own(p) = {proc[p].site}

Plans(p) == AloneInDir(p) /\ ExtractPlan(p) /\ CpPlan(p) /\ ServePlan(p)

Copied == Clean /\ \A p \in Procs : Plans(p)

LEMMA CopiedInit == Init => Copied
<1> SUFFICES ASSUME Init PROVE Copied
  OBVIOUS
<1>1. \A p \in Procs : Pc(p) = "idle"
  BY IdleIsProc DEF Init, Pc
<1>2. \A d \in Dirs : CleanSite(dirs[d])
  BY StartAssumption DEF Init, CleanSite
<1>3. ASSUME NEW f \in Files PROVE ImageOf(f) = {}
  <2>1. f \in DOMAIN disk => disk[f] = Exe
    BY DEF Init
  <2> QED
    BY <2>1, ExeIsCells, PlainReads DEF ImageOf
<1>4. Clean
  BY <1>1, <1>2, <1>3 DEF Clean
<1>5. \A p \in Procs : Plans(p)
  BY <1>1 DEF Plans, AloneInDir, ExtractPlan, CpPlan, ServePlan, Fills
<1> QED
  BY <1>4, <1>5 DEF Copied

\* Where a step of q leaves the others, the directories and mixed.
Effect(q) ==
  /\ \A p \in Procs : p # q => proc'[p] = proc[p]
  /\ \A d \in Dirs : dirs'[d] # dirs[d] => WritesDir(q, d)
  /\ \A d \in Dirs : \/ /\ d \in mixed' <=> d \in mixed
                        /\ WritesDir(q, d)' => WritesDir(q, d)
                     \/ mixed' = MixingDir(q, d)

\* The step of a process that writes no directory and begins to write none.
LEMMA EffectOfOthers ==
  ASSUME Typed, NEW q \in Procs, \A p \in Procs : p # q => proc'[p] = proc[p], dirs' = dirs,
         \A d \in Dirs : d \in mixed' <=> d \in mixed,
         proc'[q].pc \notin {"extract", "cp"}
  PROVE  Effect(q)
  BY DEF Effect, WritesDir, Pc

LEMMA ExitEffect ==
  ASSUME Typed, NEW q \in Procs, Exit(q)
  PROVE  /\ \A p \in Procs : p # q => proc'[p] = proc[p]
         /\ proc'[q] = Idle
         /\ \A d : ~WritesDir(q, d)'
<1>1. proc'[q] = Idle /\ \A p \in Procs : p # q => proc'[p] = proc[p]
  BY DEF Exit, Typed
<1> QED
  BY <1>1, IdleIsProc DEF WritesDir, Pc

\* A step of q that goes on with the directory it writes, or ends.
LEMMA EffectOfWriter ==
  ASSUME Typed, NEW q \in Procs, NEW d \in Dirs, WritesDir(q, d), mixed' = mixed,
         \A e \in Dirs : e # d => dirs'[e] = dirs[e],
         \/ Exit(q)
         \/ /\ \A p \in Procs : p # q => proc'[p] = proc[p]
            /\ proc'[q].pc = Pc(q) /\ proc'[q].dir = d
  PROVE  Effect(q)
<1>1. CASE Exit(q)
  BY <1>1, ExitEffect DEF Effect
<1>2. CASE ~Exit(q)
  BY <1>2 DEF Effect, WritesDir, Pc
<1> QED
  BY <1>1, <1>2

\* A step of q that begins to write d.
LEMMA EffectOfStart ==
  ASSUME Typed, NEW q \in Procs, NEW d \in Dirs, mixed' = MixingDir(q, d), dirs' = dirs,
         \A p \in Procs : p # q => proc'[p] = proc[p], proc'[q].dir = d
  PROVE  Effect(q)
<1>1. ASSUME NEW e \in Dirs, e # d PROVE (e \in mixed' <=> e \in mixed) /\ ~WritesDir(q, e)'
  BY <1>1 DEF MixingDir, Mixing, WritesDir
<1> QED
  BY <1>1 DEF Effect

LEMMA WrittenElsewhere ==
  ASSUME Typed, NEW d, NEW path, NEW x, dirs' = Written(d, path, x)
  PROVE  \A e \in Dirs : e # d => dirs'[e] = dirs[e]
  BY DEF Typed, Written

\* What a step does that changes in the directories.
LEMMA StepEffect ==
  ASSUME Typed, NEW q \in Procs,
         \/ \E f \in Files : Run(q, f)
         \/ Command(q)
         \/ WriteCell(q) \/ Pack(q) \/ BundleEnds(q)
         \/ ExtractZipFile(q) \/ CopyFile(q)
         \/ Stop(q) \/ StopServing(q)
  PROVE  Effect(q)
<1>0. proc \in [Procs -> ProcSet]
  BY DEF Typed
<1>1. ASSUME NEW f \in Files, Run(q, f) PROVE Effect(q)
  <2>1. proc'[q].pc = "started" /\ \A p \in Procs : p # q => proc'[p] = proc[p]
    BY <1>0, <1>1 DEF Run, Idle
  <2> QED
    BY <1>1, <2>1, EffectOfOthers DEF Run
<1>2. ASSUME NEW d \in Dirs, NEW out \in Files, CreateBundle(q, d, out) PROVE Effect(q)
  <2>1. CASE Exit(q) /\ mixed' = mixed
    BY <1>2, <2>1, ExitEffect, EffectOfOthers, IdleIsProc DEF CreateBundle
  <2>2. CASE ~(Exit(q) /\ mixed' = mixed)
    <3>1. /\ \A p \in Procs : p # q => proc'[p] = proc[p]
          /\ proc'[q].pc = "copy" /\ dirs' = dirs
      <4>1. PICK size, todo :
              proc' = [proc EXCEPT ![q].pc = "copy", ![q].out = out, ![q].dir = d,
                         ![q].size = size, ![q].todo = todo]
        BY <1>2, <2>2 DEF CreateBundle
      <4>2. \A p \in Procs : p # q => proc'[p] = proc[p]
        BY <1>0, <4>1
      <4>3. proc'[q].pc = "copy"
        BY <1>0, <4>1 DEF ProcSet
      <4> QED
        BY <1>2, <4>2, <4>3 DEF CreateBundle
    <3>2. mixed' = Mixing(out, proc[q].exe, \E r \in Procs : WritesFile(r, out))
      BY <1>2, <2>2 DEF CreateBundle
    <3>3. \A d2 \in Dirs : d2 \in mixed' <=> d2 \in mixed
      BY <3>2, MixingOut, FilesAssumption
    <3> QED
      BY <3>1, <3>3, EffectOfOthers
  <2> QED
    BY <2>1, <2>2
<1>3. ASSUME NEW d \in Dirs, Extract(q, d) PROVE Effect(q)
  <2>1. CASE Exit(q) /\ mixed' = mixed
    BY <1>3, <2>1, ExitEffect, EffectOfOthers, IdleIsProc DEF Extract
  <2>2. CASE ~(Exit(q) /\ mixed' = mixed)
    BY <1>0, <1>3, <2>2, EffectOfStart DEF Extract, ProcSet
  <2> QED
    BY <2>1, <2>2
<1>4. ASSUME NEW d \in Dirs, NEW pick \in Picks, Cp(q, d, pick) PROVE Effect(q)
  <2>1. CASE Exit(q) /\ mixed' = mixed
    BY <1>4, <2>1, ExitEffect, EffectOfOthers, IdleIsProc DEF Cp
  <2>2. CASE ~(Exit(q) /\ mixed' = mixed)
    <3>1. mixed' = MixingDir(q, d) /\ dirs' = dirs
      BY <1>4, <2>2 DEF Cp
    <3>2. PICK site, todo :
            proc' = [proc EXCEPT ![q].pc = "cp", ![q].dir = d, ![q].site = site, ![q].todo = todo]
      BY <1>4, <2>2 DEF Cp
    <3>3. proc'[q].dir = d /\ \A p \in Procs : p # q => proc'[p] = proc[p]
      BY <1>0, <3>2 DEF ProcSet
    <3> QED
      BY <3>1, <3>3, EffectOfStart
  <2> QED
    BY <2>1, <2>2
<1>5. ASSUME NEW d \in Dirs \cup {None}, Serve(q, d) PROVE Effect(q)
  <2>1. CASE Exit(q)
    BY <1>5, <2>1, ExitEffect, EffectOfOthers, IdleIsProc DEF Serve
  <2>2. CASE ~Exit(q)
    <3>1. proc'[q].pc = "serve" /\ \A p \in Procs : p # q => proc'[p] = proc[p]
      BY <1>0, <1>5, <2>2 DEF Serve, ProcSet
    <3> QED
      BY <1>5, <3>1, EffectOfOthers DEF Serve
  <2> QED
    BY <2>1, <2>2
<1>6. CASE WriteCell(q)
  <2>1. /\ Pc(q) \in {"copy", "write"} /\ proc'[q].pc = Pc(q)
        /\ \A p \in Procs : p # q => proc'[p] = proc[p]
    BY <1>0, <1>6 DEF WriteCell, ProcSet, Pc
  <2> QED
    BY <1>6, <2>1, EffectOfOthers DEF WriteCell
<1>7. CASE Pack(q)
  <2>1. CASE Exit(q)
    BY <1>7, <2>1, ExitEffect, EffectOfOthers, IdleIsProc DEF Pack
  <2>2. CASE ~Exit(q)
    <3>1. proc'[q].pc = "write" /\ \A p \in Procs : p # q => proc'[p] = proc[p]
      BY <1>0, <1>7, <2>2 DEF Pack, ProcSet
    <3> QED
      BY <1>7, <3>1, EffectOfOthers DEF Pack
  <2> QED
    BY <2>1, <2>2
<1>8. CASE BundleEnds(q) \/ StopServing(q)
  BY <1>8, ExitEffect, EffectOfOthers, IdleIsProc DEF BundleEnds, StopServing
<1>9. CASE ExtractZipFile(q)
  <2>1. /\ Pc(q) = "extract" /\ proc[q].dir \in Dirs /\ WritesDir(q, proc[q].dir)
        /\ \E path, x : dirs' = Written(proc[q].dir, path, x)
    BY <1>9 DEF ExtractZipFile, Typed, Equipped, WritesDir
  <2>2. Exit(q) \/ proc' = [proc EXCEPT ![q].todo = Tail(@)]
    BY <1>9 DEF ExtractZipFile
  <2>3. \/ Exit(q)
        \/ /\ \A p \in Procs : p # q => proc'[p] = proc[p]
           /\ proc'[q].pc = Pc(q) /\ proc'[q].dir = proc[q].dir
    BY <1>0, <2>2 DEF ProcSet, Pc
  <2> QED
    BY <1>9, <2>1, <2>3, WrittenElsewhere, EffectOfWriter DEF ExtractZipFile
<1>10. CASE CopyFile(q)
  <2>1. /\ Pc(q) = "cp" /\ proc[q].dir \in Dirs /\ WritesDir(q, proc[q].dir)
        /\ \E path, x : dirs' = Written(proc[q].dir, path, x)
    BY <1>10 DEF CopyFile, Typed, Equipped, WritesDir
  <2>2. Exit(q) \/ \E rest : proc' = [proc EXCEPT ![q].todo = rest]
    BY <1>10 DEF CopyFile
  <2>3. \/ Exit(q)
        \/ /\ \A p \in Procs : p # q => proc'[p] = proc[p]
           /\ proc'[q].pc = Pc(q) /\ proc'[q].dir = proc[q].dir
    BY <1>0, <2>2 DEF ProcSet, Pc
  <2> QED
    BY <1>10, <2>1, <2>3, WrittenElsewhere, EffectOfWriter DEF CopyFile
<1>11. CASE Stop(q)
  <2>1. Exit(q) /\ mixed' = mixed
    BY <1>11 DEF Stop
  <2>2. CASE dirs' = dirs
    BY <2>1, <2>2, ExitEffect, EffectOfOthers, IdleIsProc
  <2>3. CASE dirs' # dirs
    <3>1. /\ Pc(q) \in {"extract", "cp"} /\ \E path, x : dirs' = Written(proc[q].dir, path, x)
      BY <1>11, <2>3 DEF Stop
    <3>2. proc[q].dir \in Dirs /\ WritesDir(q, proc[q].dir)
      BY <3>1 DEF Typed, Equipped, WritesDir
    <3> QED
      BY <2>1, <3>1, <3>2, WrittenElsewhere, EffectOfWriter
  <2> QED
    BY <2>2, <2>3
<1> QED
  BY <1>1, <1>2, <1>3, <1>4, <1>5, <1>6, <1>7, <1>8, <1>9, <1>10, <1>11 DEF Command

-----------------------------------------------------------------------------
(* What a process runs and the directory it fills are left alone. *)

\* A file that only one process writes may have been one that two wrote: it begins anew.
LEMMA NoSite == GetBundleReader(<<>>) = {}
<1>1. <<>> \in Seq(Cells) /\ Len(<<>>) = 0
  OBVIOUS
<1>2. Plain(<<>>)
  BY <1>1 DEF Plain
<1> QED
  BY <1>1, <1>2, PlainReads

\* Only opening a file for writing changes whether two processes have written it.
LEMMA MixedFile ==
  ASSUME Typed, [Next]_vars, NEW f \in Files, ~(f \in mixed' <=> f \in mixed)
  PROVE  /\ \E p \in Procs : Pc(p) = "started"
         /\ \A q \in Procs : ~Runs(q, f)
         /\ disk'[f] = <<>> /\ f \in DOMAIN disk'
<1>1. mixed' # mixed /\ f \notin Dirs
  BY FilesAssumption
<1>2. CASE \E p \in Procs, d \in Dirs, out \in Files : CreateBundle(p, d, out)
  <2>1. PICK p \in Procs, d \in Dirs, out \in Files : CreateBundle(p, d, out)
    BY <1>2
  <2>2. /\ Pc(p) = "started" /\ \A q \in Procs : ~Runs(q, out)
        /\ disk' = [g \in DOMAIN disk \cup {out} |-> IF g = out THEN <<>> ELSE disk[g]]
        /\ mixed' = Mixing(out, proc[p].exe, \E q \in Procs : WritesFile(q, out))
    BY <1>1, <2>1 DEF CreateBundle
  <2>3. f = out
    BY <2>2, MixingOut
  <2> QED
    BY <2>2, <2>3
<1>3. ASSUME NEW p \in Procs, NEW d \in Dirs, Extract(p, d) PROVE FALSE
  <2>1. mixed' = MixingDir(p, d)
    BY <1>1, <1>3 DEF Extract
  <2> QED
    BY <2>1, MixingDirs
<1>4. ASSUME NEW p \in Procs, NEW d \in Dirs, NEW pick, Cp(p, d, pick) PROVE FALSE
  <2>1. mixed' = MixingDir(p, d)
    BY <1>1, <1>4 DEF Cp
  <2> QED
    BY <2>1, MixingDirs
<1>5. ASSUME NEW p \in Procs, NEW d, Serve(p, d) \/ Run(p, d) PROVE FALSE
  BY <1>1, <1>5 DEF Serve, Run
<1>6. ASSUME NEW p \in Procs, ExtractZipFile(p) \/ CopyFile(p) \/ Stop(p) \/ StopServing(p)
                                \/ BundleEnds(p) \/ Pack(p) \/ WriteCell(p)
      PROVE FALSE
  BY <1>1, <1>6 DEF ExtractZipFile, CopyFile, Stop, StopServing, BundleEnds, Pack, WriteCell
<1>7. ASSUME NEW d \in Dirs, Clear(d) PROVE FALSE
  BY <1>1, <1>7 DEF Clear
<1> QED
  BY <1>1, <1>2, <1>3, <1>4, <1>5, <1>6, <1>7 DEF Next, Command, vars

\* Only opening or writing it changes a file.
LEMMA ChangedFile ==
  ASSUME Typed, [Next]_vars, NEW f \in DOMAIN disk, disk'[f] # disk[f] \/ f \notin DOMAIN disk'
  PROVE  (\A q \in Procs : ~Runs(q, f)) \/ \E q \in Procs : WritesFile(q, f)
<1>1. disk' # disk
  OBVIOUS
<1>2. CASE \E p \in Procs, d \in Dirs, out \in Files : CreateBundle(p, d, out)
  <2>1. PICK p \in Procs, d \in Dirs, out \in Files : CreateBundle(p, d, out)
    BY <1>2
  <2>2. /\ \A q \in Procs : ~Runs(q, out)
        /\ disk' = [g \in DOMAIN disk \cup {out} |-> IF g = out THEN <<>> ELSE disk[g]]
    BY <1>1, <2>1 DEF CreateBundle
  <2> QED
    BY <2>2
<1>3. CASE \E p \in Procs : WriteCell(p)
  <2>1. PICK p \in Procs : WriteCell(p)
    BY <1>3
  <2>2. /\ Pc(p) \in {"copy", "write"}
        /\ disk' = [disk EXCEPT ![proc[p].out] = Put(@, proc[p].pos, Head(proc[p].todo))]
    BY <2>1 DEF WriteCell
  <2>3. f = proc[p].out
    BY <2>2
  <2> QED
    BY <2>2, <2>3 DEF WritesFile
<1>4. ASSUME NEW p \in Procs, NEW d \in Dirs, Extract(p, d) PROVE FALSE
  BY <1>1, <1>4 DEF Extract
<1>5. ASSUME NEW p \in Procs, NEW d \in Dirs, NEW pick, Cp(p, d, pick) PROVE FALSE
  BY <1>1, <1>5 DEF Cp
<1>6. ASSUME NEW p \in Procs, NEW d, Serve(p, d) \/ Run(p, d) PROVE FALSE
  BY <1>1, <1>6 DEF Serve, Run
<1>7. ASSUME NEW p \in Procs, ExtractZipFile(p) \/ CopyFile(p) \/ Stop(p) \/ StopServing(p)
                                \/ BundleEnds(p) \/ Pack(p)
      PROVE FALSE
  BY <1>1, <1>7 DEF ExtractZipFile, CopyFile, Stop, StopServing, BundleEnds, Pack
<1>8. ASSUME NEW d \in Dirs, Clear(d) PROVE FALSE
  BY <1>1, <1>8 DEF Clear
<1> QED
  BY <1>1, <1>2, <1>3, <1>4, <1>5, <1>6, <1>7, <1>8 DEF Next, Command, vars

\* The file a process runs keeps its site, and stays one that two processes wrote or not.
LEMMA OwnStays ==
  ASSUME Sound, [Next]_vars, NEW p \in Procs, Pc(p) # "idle", NEW f, f = proc[p].exe
  PROVE  /\ ImageOf(f)' = ImageOf(f)
         /\ f \in mixed' <=> f \in mixed
<1>1. /\ f \in DOMAIN disk /\ f \in Files /\ Runs(p, f)
      /\ \A q \in Procs : ~WritesFile(q, f)
  BY DEF Sound, Typed, Equipped, FilesTyped, SoundProc, Undisturbed, Runs
<1>2. f \in DOMAIN disk' /\ disk'[f] = disk[f]
  BY <1>1, ChangedFile DEF Sound
<1>3. f \in mixed' <=> f \in mixed
  BY <1>1, MixedFile DEF Sound
<1>4. ImageOf(f)' = ImageOf(f)
  BY <1>1, <1>2 DEF ImageOf
<1> QED
  BY <1>3, <1>4

\* A file written to a directory.
LEMMA WrittenFile ==
  ASSUME Typed, NEW d \in Dirs, NEW path, NEW x, dirs' = Written(d, path, x)
  PROVE  /\ DOMAIN dirs'[d] = DOMAIN dirs[d] \cup {path}
         /\ dirs'[d][path] = x
         /\ \A q \in DOMAIN dirs[d] : q # path => dirs'[d][q] = dirs[d][q]
  BY DEF Typed, Written

\* What is written to a directory can be read.
LEMMA CleanDirs ==
  ASSUME Typed, Clean, [Next]_vars, NEW d \in Dirs
  PROVE  CleanSite(dirs'[d])
<1>1. ASSUME NEW p \in Procs, proc[p].dir \in Dirs, NEW path, NEW x, x # Corrupt,
             dirs' = Written(proc[p].dir, path, x)
      PROVE  CleanSite(dirs'[d])
  <2>1. CASE d = proc[p].dir
    BY <1>1, <2>1, WrittenFile DEF Clean, CleanSite
  <2>2. CASE d # proc[p].dir
    BY <1>1, <2>2, WrittenElsewhere DEF Clean
  <2> QED
    BY <2>1, <2>2
<1>2. Torn # Corrupt
  BY DEF Torn, Corrupt
<1>3. ASSUME NEW p \in Procs, ExtractZipFile(p) PROVE CleanSite(dirs'[d])
  <2>1. proc[p].dir \in Dirs
    BY <1>3 DEF ExtractZipFile, Typed, Equipped
  <2>2. PICK path, x : dirs' = Written(proc[p].dir, path, x) /\ x # Corrupt
    BY <1>2, <1>3 DEF ExtractZipFile
  <2> QED
    BY <1>1, <2>1, <2>2
<1>4. ASSUME NEW p \in Procs, CopyFile(p) PROVE CleanSite(dirs'[d])
  <2>1. proc[p].dir \in Dirs
    BY <1>4 DEF CopyFile, Typed, Equipped
  <2>2. PICK path, x : dirs' = Written(proc[p].dir, path, x) /\ x # Corrupt
    BY <1>2, <1>4 DEF CopyFile
  <2> QED
    BY <1>1, <2>1, <2>2
<1>5. ASSUME NEW p \in Procs, Stop(p), dirs' # dirs PROVE CleanSite(dirs'[d])
  <2>1. proc[p].dir \in Dirs
    BY <1>5 DEF Stop, Typed, Equipped
  <2>2. PICK path : dirs' = Written(proc[p].dir, path, Torn)
    BY <1>5 DEF Stop
  <2> QED
    BY <1>1, <1>2, <2>1, <2>2
<1>6. ASSUME NEW e \in Dirs, Clear(e) PROVE CleanSite(dirs'[d])
  BY <1>6 DEF Clear, Typed, Clean, CleanSite
<1>7. CASE dirs' = dirs
  BY <1>7 DEF Clean
<1>8. ASSUME NEW p \in Procs, Command(p) PROVE dirs' = dirs
  BY <1>8 DEF Command, CreateBundle, Extract, Cp, Serve
<1>9. ASSUME NEW p \in Procs, WriteCell(p) \/ Pack(p) \/ BundleEnds(p) \/ StopServing(p)
                              \/ \E f \in Files : Run(p, f)
      PROVE dirs' = dirs
  BY <1>9 DEF WriteCell, Pack, BundleEnds, StopServing, Run
<1> QED
  BY <1>3, <1>4, <1>5, <1>6, <1>7, <1>8, <1>9 DEF Next, vars

\* A site appears in a binary clean, and is packed clean.
LEMMA CleanFiles ==
  ASSUME Sound, Clean, [Next]_vars, NEW f \in Files, f \notin mixed', NEW site \in ImageOf(f)'
  PROVE  CleanSite(site)
<1>1. CASE f \in mixed
  BY <1>1, MixedFile, NoSite DEF Sound, ImageOf
<1>2. CASE f \notin mixed /\ ImageOf(f)' = ImageOf(f)
  BY <1>2 DEF Clean
<1>3. CASE f \notin mixed /\ ImageOf(f)' # ImageOf(f)
  <2>1. PICK p \in Procs : WritesFile(p, f) /\ ImageOf(f)' = {proc[p].site}
    BY <1>3, SiteChange
  <2> QED
    BY <2>1 DEF Clean, WritesFile
<1> QED
  BY <1>1, <1>2, <1>3

LEMMA SiteOfClean ==
  ASSUME Typed, Clean, NEW d \in Dirs
  PROVE  CleanSite(SiteOf(d))
<1>1. Binary # Corrupt
  BY DEF Binary, Corrupt
<1> QED
  BY <1>1 DEF CleanSite, Clean, SiteOf

\* A step in which a process keeps its site at hand, or takes one that is clean.
LEMMA CleanProcs ==
  ASSUME Typed, Clean, [Next]_vars, NEW p \in Procs, Pc(p)' \in {"started", "copy", "write"}
  PROVE  CleanSite(proc[p].site)'
<1>0. CASE proc'[p] = proc[p]
  BY <1>0 DEF Clean, Pc
<1>1. CASE Pc(p) \in {"started", "copy", "write"} /\ proc'[p].site = proc[p].site
  BY <1>1 DEF Clean
<1>2. CASE CleanSite(proc'[p].site)
  BY <1>2
<1>3. ASSUME NEW q \in Procs, q # p, Effect(q) PROVE CleanSite(proc[p].site)'
  BY <1>0, <1>3 DEF Effect
<1>4. proc \in [Procs -> ProcSet]
  BY DEF Typed
<1>5. ~Exit(p)
  BY ExitEffect, IdleIsProc DEF Pc
<1>6. ASSUME NEW f \in Files, Run(p, f) PROVE CleanSite(proc[p].site)'
  <2>1. proc'[p].site = NoFiles
    BY <1>4, <1>6 DEF Run, Idle
  <2> QED
    BY <1>2, <2>1 DEF NoFiles, CleanSite
<1>7. ASSUME NEW d \in Dirs, NEW out \in Files, CreateBundle(p, d, out)
      PROVE  CleanSite(proc[p].site)'
  <2>1. PICK size, todo :
          proc' = [proc EXCEPT ![p].pc = "copy", ![p].out = out, ![p].dir = d,
                     ![p].size = size, ![p].todo = todo]
    BY <1>5, <1>7 DEF CreateBundle
  <2>2. proc'[p].site = proc[p].site
    BY <1>4, <2>1 DEF ProcSet
  <2> QED
    BY <1>1, <1>7, <2>2 DEF CreateBundle
<1>8. CASE WriteCell(p)
  <2>1. proc'[p].site = proc[p].site
    BY <1>4, <1>8 DEF WriteCell, ProcSet
  <2> QED
    BY <1>1, <1>8, <2>1 DEF WriteCell
<1>9. CASE Pack(p)
  <2>1. PICK todo : proc' = [proc EXCEPT ![p].pc = "write", ![p].site = SiteOf(proc[p].dir),
                               ![p].todo = todo]
    BY <1>5, <1>9 DEF Pack
  <2>2. proc'[p].site = SiteOf(proc[p].dir) /\ proc[p].dir \in Dirs
    BY <1>4, <1>9, <2>1 DEF ProcSet, Pack, Typed, Equipped
  <2> QED
    BY <1>2, <2>2, SiteOfClean
<1>10. ASSUME NEW d \in Dirs, Extract(p, d) PROVE FALSE
  <2>1. \E site, todo : proc' = [proc EXCEPT ![p].pc = "extract", ![p].dir = d,
                                   ![p].site = site, ![p].todo = todo]
    BY <1>5, <1>10 DEF Extract
  <2> QED
    BY <1>4, <2>1 DEF ProcSet, Pc
<1>11. ASSUME NEW d \in Dirs, NEW pick, Cp(p, d, pick) PROVE FALSE
  <2>1. \E site, todo : proc' = [proc EXCEPT ![p].pc = "cp", ![p].dir = d,
                                   ![p].site = site, ![p].todo = todo]
    BY <1>5, <1>11 DEF Cp
  <2> QED
    BY <1>4, <2>1 DEF ProcSet, Pc
<1>12. ASSUME NEW d, Serve(p, d) PROVE FALSE
  <2>1. \E site : proc' = [proc EXCEPT ![p].pc = "serve", ![p].dir = d, ![p].site = site]
    BY <1>5, <1>12 DEF Serve
  <2> QED
    BY <1>4, <2>1 DEF ProcSet, Pc
<1>13. CASE ExtractZipFile(p)
  <2>1. Pc(p) = "extract" /\ proc' = [proc EXCEPT ![p].todo = Tail(@)]
    BY <1>5, <1>13 DEF ExtractZipFile
  <2> QED
    BY <1>4, <2>1 DEF ProcSet, Pc
<1>14. CASE CopyFile(p)
  <2>1. Pc(p) = "cp" /\ \E rest : proc' = [proc EXCEPT ![p].todo = rest]
    BY <1>5, <1>14 DEF CopyFile
  <2> QED
    BY <1>4, <2>1 DEF ProcSet, Pc
<1>15. ~(BundleEnds(p) \/ Stop(p) \/ StopServing(p))
  BY <1>5 DEF BundleEnds, Stop, StopServing
<1>16. ASSUME NEW d \in Dirs, Clear(d) PROVE CleanSite(proc[p].site)'
  BY <1>0, <1>16 DEF Clear
<1>17. CASE UNCHANGED vars
  BY <1>0, <1>17 DEF vars
<1> QED
  BY <1>3, <1>6, <1>7, <1>8, <1>9, <1>10, <1>11, <1>12, <1>13, <1>14, <1>15, <1>16, <1>17,
     StepEffect DEF Next, Command

LEMMA CleanStep == Sound /\ Clean /\ [Next]_vars => Clean'
  BY CleanDirs, CleanFiles, CleanProcs DEF Clean, Sound

-----------------------------------------------------------------------------
(* The plans of the processes are kept, first by the steps of the others. *)

\* A process that fills a directory has it to itself: nobody else's step reaches it.
LEMMA FillsAlone ==
  ASSUME Sound, Copied, [Next]_vars, NEW p \in Procs, proc'[p] = proc[p], Fills(p)',
         \/ \E q \in Procs : q # p /\ Effect(q)
         \/ \E d \in Dirs : Clear(d)
         \/ UNCHANGED vars,
         NEW d, d = proc[p].dir
  PROVE  Fills(p) /\ AloneInDir(p)' /\ dirs'[d] = dirs[d]
<1>1. /\ Pc(p) \in {"extract", "cp"} /\ d \in Dirs /\ WritesDir(p, d)
      /\ proc[p].exe \in Files /\ d \notin mixed'
  BY DEF Fills, Pc, Sound, Typed, Equipped, FilesTyped, WritesDir
<1>2. proc[p].exe \in mixed' <=> proc[p].exe \in mixed
  BY <1>1, OwnStays
<1>3. d \notin mixed => Fills(p) /\ proc[p].exe \notin mixed
                        /\ \A q \in Procs : WritesDir(q, d) => q = p
  BY <1>1 DEF Fills, Copied, Plans, AloneInDir
<1>4. CASE \E q \in Procs : q # p /\ Effect(q)
  <2>1. PICK q \in Procs : q # p /\ Effect(q)
    BY <1>4
  <2>2. (d \in mixed' <=> d \in mixed) /\ (WritesDir(q, d)' => WritesDir(q, d))
    <3>1. mixed' # MixingDir(q, d)
      BY <1>1 DEF MixingDir, Mixing
    <3> QED
      BY <1>1, <2>1, <3>1 DEF Effect
  <2>3. d \notin mixed /\ ~WritesDir(q, d)
    BY <1>1, <1>3, <2>1, <2>2
  <2>4. dirs'[d] = dirs[d]
    BY <1>1, <2>1, <2>3 DEF Effect
  <2>5. \A r \in Procs : WritesDir(r, d)' => r = p
    <3> SUFFICES ASSUME NEW r \in Procs, WritesDir(r, d)', r # p PROVE FALSE
      OBVIOUS
    <3>1. r # q
      BY <2>2, <2>3
    <3>2. proc'[r] = proc[r]
      BY <2>1, <3>1 DEF Effect
    <3>3. WritesDir(r, d)
      BY <3>2 DEF WritesDir, Pc
    <3> QED
      BY <1>3, <2>3, <3>3
  <2>6. AloneInDir(p)'
    BY <1>2, <1>3, <2>3, <2>5 DEF AloneInDir
  <2> QED
    BY <1>3, <2>3, <2>4, <2>6
<1>5. CASE \E e \in Dirs : Clear(e)
  <2>1. PICK e \in Dirs : Clear(e)
    BY <1>5
  <2>2. e # d /\ mixed' = mixed /\ proc' = proc
    BY <1>1, <2>1 DEF Clear
  <2>3. dirs'[d] = dirs[d]
    BY <2>1, <2>2 DEF Clear, Sound, Typed
  <2>4. AloneInDir(p)'
    BY <1>1, <1>3, <2>2 DEF AloneInDir, WritesDir, Pc
  <2> QED
    BY <1>1, <1>3, <2>2, <2>3, <2>4
<1>6. CASE UNCHANGED vars
  BY <1>1, <1>3, <1>6 DEF vars, AloneInDir, WritesDir, Pc
<1> QED
  BY <1>4, <1>5, <1>6

LEMMA PlansOfOthers ==
  ASSUME Sound, Copied, [Next]_vars, NEW p \in Procs, proc'[p] = proc[p],
         \/ \E q \in Procs : q # p /\ Effect(q)
         \/ \E d \in Dirs : Clear(d)
         \/ UNCHANGED vars
  PROVE  Plans(p)'
<1>1. PICK dir, exe : dir = proc[p].dir /\ exe = proc[p].exe
  OBVIOUS
<1>2. Pc(p)' = Pc(p) /\ proc'[p].dir = dir /\ proc'[p].exe = exe
  BY <1>1 DEF Pc
<1>3. Pc(p) # "idle" => Own(p)' = Own(p)
  <2>1. Own(p)' = ImageOf(exe)' /\ Own(p) = ImageOf(exe)
    BY <1>1, <1>2 DEF Own
  <2> QED
    BY <1>1, <2>1, OwnStays
<1>4. Plans(p)
  BY DEF Copied
<1>5. AloneInDir(p)'
  BY FillsAlone DEF AloneInDir
<1>6. ExtractPlan(p)'
  <2> SUFFICES ASSUME Pc(p)' = "extract", Fills(p)'
               PROVE  ExtractPlan(p)'
    BY DEF ExtractPlan
  <2>1. Fills(p) /\ dirs'[dir] = dirs[dir] /\ Own(p)' = Own(p)
    BY <1>1, <1>2, <1>3, FillsAlone
  <2> QED
    BY <1>1, <1>2, <1>4, <2>1 DEF Plans, ExtractPlan
<1>7. CpPlan(p)'
  <2> SUFFICES ASSUME Pc(p)' = "cp", Fills(p)'
               PROVE  CpPlan(p)'
    BY DEF CpPlan
  <2>1. Fills(p) /\ dirs'[dir] = dirs[dir] /\ Own(p)' = Own(p)
    BY <1>1, <1>2, <1>3, FillsAlone
  <2> QED
    BY <1>1, <1>2, <1>4, <2>1 DEF Plans, CpPlan, PartOfOwn, Landed
<1>8. ServePlan(p)'
  BY <1>1, <1>2, <1>3, <1>4 DEF Plans, ServePlan, Pc
<1> QED
  BY <1>5, <1>6, <1>7, <1>8 DEF Plans

-----------------------------------------------------------------------------
(* The steps of the process itself. *)

\* A process that fills no directory and serves no site has no plan.
LEMMA NoPlan ==
  ASSUME NEW p \in Procs, proc'[p].pc \notin {"extract", "cp", "serve"}
  PROVE  Plans(p)'
  BY DEF Plans, AloneInDir, ExtractPlan, CpPlan, ServePlan, Fills, Pc

LEMMA WalkSet ==
  ASSUME NEW S \in SUBSET Paths
  PROVE  ToSet(Walk[S]) = S
<1>1. Walk[S] \in Seq(S) /\ \A path \in S : \E i \in DOMAIN Walk[S] : Walk[S][i] = path
  BY WalkAssumption
<1> QED
  BY <1>1 DEF ToSet

LEMMA TailSet ==
  ASSUME NEW S, NEW t \in Seq(S), t # <<>>, \A i, j \in DOMAIN t : t[i] = t[j] => i = j
  PROVE  /\ ToSet(Tail(t)) = ToSet(t) \ {Head(t)} /\ Head(t) \in ToSet(t)
         /\ \A i, j \in DOMAIN Tail(t) : Tail(t)[i] = Tail(t)[j] => i = j
<1>1. /\ Len(t) \in Nat /\ Len(t) # 0 /\ DOMAIN t = 1..Len(t) /\ Head(t) = t[1]
      /\ DOMAIN Tail(t) = 1..(Len(t) - 1) /\ \A i \in 1..(Len(t) - 1) : Tail(t)[i] = t[i + 1]
  BY HeadTailProperties, EmptySeq
<1>2. \A i \in 1..(Len(t) - 1) : i + 1 \in 1..Len(t) /\ i + 1 # 1
  BY <1>1
<1>3. \A i \in 1..Len(t) : i # 1 => i - 1 \in 1..(Len(t) - 1) /\ (i - 1) + 1 = i
  BY <1>1
<1>4. \A i, j \in 1..(Len(t) - 1) : i + 1 = j + 1 => i = j
  BY <1>1
<1>5. ASSUME NEW i \in DOMAIN Tail(t), NEW j \in DOMAIN Tail(t), Tail(t)[i] = Tail(t)[j]
      PROVE  i = j
  BY <1>1, <1>2, <1>4, <1>5
<1>6. 1 \in DOMAIN t
  BY <1>1
<1>7. ASSUME NEW x \in ToSet(t), x # Head(t) PROVE x \in ToSet(Tail(t))
  <2>1. PICK i \in DOMAIN t : t[i] = x
    BY <1>7 DEF ToSet
  <2>2. i # 1
    BY <1>1, <1>7, <2>1
  <2>3. i - 1 \in DOMAIN Tail(t) /\ Tail(t)[i - 1] = x
    <3>1. i - 1 \in 1..(Len(t) - 1) /\ (i - 1) + 1 = i
      BY <1>1, <1>3, <2>1, <2>2
    <3> QED
      BY <1>1, <2>1, <3>1
  <2> QED
    BY <2>3 DEF ToSet
<1>8. ASSUME NEW x \in ToSet(Tail(t)) PROVE x \in ToSet(t) /\ x # Head(t)
  <2>1. PICK i \in DOMAIN Tail(t) : Tail(t)[i] = x
    BY <1>8 DEF ToSet
  <2>2. i + 1 \in DOMAIN t /\ t[i + 1] = x /\ i + 1 # 1
    BY <1>1, <1>2, <2>1
  <2> QED
    BY <1>1, <1>6, <2>2 DEF ToSet
<1> QED
  BY <1>1, <1>5, <1>6, <1>7, <1>8 DEF ToSet

\* A process that begins to fill a directory has it to itself, if mixed does not get it.
LEMMA BeginsAlone ==
  ASSUME Sound, [Next]_vars, NEW p \in Procs, NEW d \in Dirs, Pc(p) = "started",
         NEW r \in ProcSet, proc' = [proc EXCEPT ![p] = r], r.exe = proc[p].exe, r.dir = d,
         mixed' = MixingDir(p, d)
  PROVE  /\ Own(p)' = Own(p)
         /\ AloneInDir(p)'
<1>1. proc'[p] = r /\ \A q \in Procs : q # p => proc'[q] = proc[q]
  BY DEF Sound, Typed
<1>2. PICK f : f = proc[p].exe
  OBVIOUS
<1>3. (f \in mixed' <=> f \in mixed) /\ ImageOf(f)' = ImageOf(f)
  BY <1>2, OwnStays
<1>4. Own(p)' = Own(p)
  <2>1. Own(p)' = ImageOf(f)' /\ Own(p) = ImageOf(f)
    BY <1>1, <1>2 DEF Own
  <2> QED
    BY <1>3, <2>1
<1>5. d \notin mixed' => f \notin mixed /\ \A q \in Procs : ~WritesDir(q, d)
  BY <1>2 DEF MixingDir, Mixing
<1>6. \A q \in Procs : q # p /\ WritesDir(q, d)' => WritesDir(q, d)
  BY <1>1 DEF WritesDir, Pc
<1>7. AloneInDir(p)'
  BY <1>1, <1>2, <1>3, <1>5, <1>6 DEF AloneInDir, Fills
<1> QED
  BY <1>4, <1>7

LEMMA PlansExtract ==
  ASSUME Sound, [Next]_vars, NEW p \in Procs, NEW d \in Dirs, Extract(p, d)
  PROVE  Plans(p)'
<1> DEFINE site == OwnFiles(p)
           t == Walk[DOMAIN site]
           r == [proc[p] EXCEPT !.pc = "extract", !.dir = d, !.site = site, !.todo = t]
<1>1. Pc(p) = "started" /\ dirs' = dirs /\ proc \in [Procs -> ProcSet]
  BY DEF Extract, Sound, Typed
<1>2. CASE Exit(p)
  BY <1>2, ExitEffect, IdleIsProc, NoPlan DEF Sound
<1>3. CASE ~Exit(p)
  <2>1. /\ Own(p) # {} /\ DOMAIN SiteOf(d) = {}
        /\ proc' = [proc EXCEPT ![p] = r]
        /\ mixed' = MixingDir(p, d)
    BY <1>3 DEF Extract
  <2>2. Own(p) = {site} /\ site \in SiteSet
    BY <2>1, OwnTyped DEF Sound
  <2>3. DOMAIN site \in SUBSET Paths
    BY <2>2, WalkOfSite
  <2>4. ToSet(t) = DOMAIN site /\ \A i, j \in DOMAIN t : t[i] = t[j] => i = j
    BY <2>3, WalkSet, WalkAssumption
  <2>5. DOMAIN dirs[d] = {}
    BY <2>1 DEF SiteOf
  <2> HIDE DEF site, t
  <2>6. /\ r.pc = "extract" /\ r.exe = proc[p].exe /\ r.dir = d /\ r.todo = t /\ r.site = site
        /\ proc'[p] = r
    BY <1>1, <2>1 DEF ProcSet
  <2> HIDE DEF r
  <2>7. r \in ProcSet
    BY <2>6, TypedStep DEF Sound, Typed
  <2>8. Own(p)' = {site} /\ AloneInDir(p)'
    BY <1>1, <2>1, <2>2, <2>6, <2>7, BeginsAlone
  <2>9. ExtractPlan(p)'
    BY <1>1, <2>4, <2>5, <2>6, <2>8 DEF ExtractPlan
  <2>10. CpPlan(p)' /\ ServePlan(p)'
    BY <2>6 DEF CpPlan, ServePlan, Pc
  <2> QED
    BY <2>8, <2>9, <2>10 DEF Plans
<1> QED
  BY <1>2, <1>3

LEMMA PlansCp ==
  ASSUME Sound, [Next]_vars, NEW p \in Procs, NEW d \in Dirs, NEW pick, Cp(p, d, pick)
  PROVE  Plans(p)'
<1> DEFINE own == OwnFiles(p)
           matched == UNION {FindMatchingFiles(s, pick) : s \in Own(p)}
           site == [path \in matched |-> own[path]]
           t == Walk[matched]
           r == [proc[p] EXCEPT !.pc = "cp", !.dir = d, !.site = site, !.todo = t]
<1>1. Pc(p) = "started" /\ dirs' = dirs /\ proc \in [Procs -> ProcSet]
  BY DEF Cp, Sound, Typed
<1>2. CASE Exit(p)
  BY <1>2, ExitEffect, IdleIsProc, NoPlan DEF Sound
<1>3. CASE ~Exit(p)
  <2>1. /\ matched # {}
        /\ proc' = [proc EXCEPT ![p] = r]
        /\ mixed' = MixingDir(p, d)
    BY <1>3 DEF Cp
  <2>2. Own(p) = {own} /\ own \in SiteSet
    BY <2>1, OwnTyped DEF Sound
  <2>3. \A path \in matched : path \in DOMAIN own /\ Head(path) = "html"
    BY <2>2 DEF FindMatchingFiles
  <2>4. matched \in SUBSET Paths
    BY <2>2, <2>3, WalkOfSite
  <2>5. ToSet(t) = matched
    BY <2>4, WalkSet
  <2> HIDE DEF matched, own
  <2>6. DOMAIN site = matched /\ \A path \in matched : site[path] = own[path]
    OBVIOUS
  <2> HIDE DEF site, t
  <2>7. /\ r.pc = "cp" /\ r.exe = proc[p].exe /\ r.dir = d /\ r.todo = t /\ r.site = site
        /\ proc'[p] = r
    BY <1>1, <2>1 DEF ProcSet
  <2> HIDE DEF r
  <2>8. r \in ProcSet
    BY <2>7, TypedStep DEF Sound, Typed
  <2>9. Own(p)' = {own} /\ AloneInDir(p)'
    BY <1>1, <2>1, <2>2, <2>7, <2>8, BeginsAlone
  <2>10. PartOfOwn(p)'
    BY <2>3, <2>6, <2>7, <2>9 DEF PartOfOwn
  <2>11. CpPlan(p)'
    BY <2>5, <2>6, <2>7, <2>10 DEF CpPlan
  <2>12. ExtractPlan(p)' /\ ServePlan(p)'
    BY <2>7 DEF ExtractPlan, ServePlan, Pc
  <2> QED
    BY <2>9, <2>11, <2>12 DEF Plans
<1> QED
  BY <1>2, <1>3

LEMMA PlansServe ==
  ASSUME Sound, [Next]_vars, NEW p \in Procs, NEW d, Serve(p, d)
  PROVE  Plans(p)'
<1> DEFINE site == IF d = None THEN OwnFiles(p) ELSE NoFiles
           r == [proc[p] EXCEPT !.pc = "serve", !.dir = d, !.site = site]
<1>1. Pc(p) = "started" /\ proc \in [Procs -> ProcSet]
  BY DEF Serve, Sound, Typed
<1>2. CASE Exit(p)
  BY <1>2, ExitEffect, IdleIsProc, NoPlan DEF Sound
<1>3. CASE ~Exit(p)
  <2>1. /\ d = None => Own(p) # {}
        /\ proc' = [proc EXCEPT ![p] = r]
    BY <1>3 DEF Serve
  <2>2. d = None => Own(p) = {site}
    BY <2>1, OwnTyped DEF Sound
  <2> HIDE DEF site
  <2>3. /\ r.pc = "serve" /\ r.exe = proc[p].exe /\ r.dir = d /\ r.site = site
        /\ proc'[p] = r
    BY <1>1, <2>1 DEF ProcSet
  <2> HIDE DEF r
  <2>4. PICK f : f = proc[p].exe
    OBVIOUS
  <2>5. Own(p)' = Own(p)
    <3>1. Own(p)' = ImageOf(f)' /\ Own(p) = ImageOf(f)
      BY <2>3, <2>4 DEF Own
    <3> QED
      BY <1>1, <2>4, <3>1, OwnStays
  <2>6. ServePlan(p)'
    BY <2>2, <2>3, <2>5 DEF ServePlan
  <2>7. AloneInDir(p)' /\ ExtractPlan(p)' /\ CpPlan(p)'
    BY <2>3 DEF AloneInDir, ExtractPlan, CpPlan, Fills, Pc
  <2> QED
    BY <2>6, <2>7 DEF Plans
<1> QED
  BY <1>2, <1>3

\* A process that fills a directory of its own goes on with the next file.
LEMMA GoesOn ==
  ASSUME Sound, Copied, [Next]_vars, NEW p \in Procs, Pc(p) \in {"extract", "cp"},
         NEW t, proc' = [proc EXCEPT ![p].todo = t], mixed' = mixed
  PROVE  /\ proc'[p].pc = Pc(p) /\ proc'[p].dir = proc[p].dir
         /\ proc'[p].site = proc[p].site /\ proc'[p].todo = t
         /\ Own(p)' = Own(p) /\ AloneInDir(p)' /\ (Fills(p)' <=> Fills(p))
<1>1. /\ proc'[p].pc = Pc(p) /\ proc'[p].dir = proc[p].dir /\ proc'[p].exe = proc[p].exe
      /\ proc'[p].site = proc[p].site /\ proc'[p].todo = t
      /\ \A q \in Procs : q # p => proc'[q] = proc[q]
  BY DEF Sound, Typed, ProcSet, Pc
<1>2. PICK f : f = proc[p].exe
  OBVIOUS
<1>3. Own(p)' = Own(p)
  <2>1. Own(p)' = ImageOf(f)' /\ Own(p) = ImageOf(f)
    BY <1>1, <1>2 DEF Own
  <2> QED
    BY <1>2, <2>1, OwnStays
<1>4. \A q \in Procs : \A d : WritesDir(q, d)' <=> WritesDir(q, d)
  BY <1>1 DEF WritesDir, Pc
<1>5. Fills(p)' <=> Fills(p)
  BY <1>1 DEF Fills, Pc
<1>6. AloneInDir(p)'
  BY <1>1, <1>4, <1>5 DEF AloneInDir, Copied, Plans
<1> QED
  BY <1>1, <1>3, <1>5, <1>6

\* extract has put one more file of its own site in the directory.
LEMMA ExtractedOne ==
  ASSUME Sound, Copied, NEW p \in Procs, ExtractZipFile(p), Fills(p)
  PROVE  LET r == proc[p]
         IN  /\ Own(p) = {r.site} /\ r.site[Head(r.todo)] # Corrupt
             /\ DOMAIN dirs'[r.dir] = DOMAIN r.site \ ToSet(Tail(r.todo))
             /\ \A path \in DOMAIN dirs'[r.dir] : dirs'[r.dir][path] = r.site[path]
             /\ \A i, j \in DOMAIN Tail(r.todo) : Tail(r.todo)[i] = Tail(r.todo)[j] => i = j
<1> DEFINE r == proc[p]
           d == r.dir
           t == r.todo
           head == Head(t)
<1>1. /\ Pc(p) = "extract" /\ t # <<>> /\ d \in Dirs /\ t \in Seq(DOMAIN r.site)
      /\ r.exe \in Files
  BY DEF ExtractZipFile, Sound, Typed, Equipped, FilesTyped
<1>2. /\ Own(p) = {r.site} /\ r.exe \notin mixed
      /\ \A i, j \in DOMAIN t : t[i] = t[j] => i = j
      /\ DOMAIN dirs[d] = DOMAIN r.site \ ToSet(t)
      /\ \A path \in DOMAIN dirs[d] : dirs[d][path] = r.site[path]
  BY <1>1 DEF Copied, Plans, ExtractPlan, AloneInDir
<1>3. CleanSite(r.site)
  BY <1>1, <1>2 DEF Copied, Clean, Own
<1>4. /\ ToSet(Tail(t)) = ToSet(t) \ {head} /\ head \in ToSet(t)
      /\ \A i, j \in DOMAIN Tail(t) : Tail(t)[i] = Tail(t)[j] => i = j
  BY <1>1, <1>2, TailSet
<1>5. head \in DOMAIN r.site
  BY <1>1, <1>4 DEF ToSet
<1>6. r.site[head] # Corrupt
  BY <1>3, <1>5 DEF CleanSite
<1>7. dirs' = Written(d, head, r.site[head])
  BY <1>6 DEF ExtractZipFile
<1>8. /\ DOMAIN dirs'[d] = DOMAIN dirs[d] \cup {head} /\ dirs'[d][head] = r.site[head]
      /\ \A q \in DOMAIN dirs[d] : q # head => dirs'[d][q] = dirs[d][q]
  <2>1. PICK e, h, x : e = d /\ h = head /\ x = r.site[head]
    OBVIOUS
  <2>2. e \in Dirs /\ Typed /\ dirs' = Written(e, h, x)
    BY <1>1, <1>7, <2>1 DEF Sound
  <2>3. /\ DOMAIN dirs'[e] = DOMAIN dirs[e] \cup {h} /\ dirs'[e][h] = x
        /\ \A q \in DOMAIN dirs[e] : q # h => dirs'[e][q] = dirs[e][q]
    BY <2>2, WrittenFile
  <2> QED
    BY <2>1, <2>3
<1> HIDE DEF head, t
<1>9. DOMAIN dirs'[d] = DOMAIN r.site \ ToSet(Tail(t))
  BY <1>2, <1>4, <1>5, <1>8
<1>10. \A path \in DOMAIN dirs'[d] : dirs'[d][path] = r.site[path]
  BY <1>2, <1>8
<1> QED
  BY <1>2, <1>4, <1>6, <1>9, <1>10 DEF head, t

LEMMA PlansExtractZipFile ==
  ASSUME Sound, Copied, [Next]_vars, NEW p \in Procs, ExtractZipFile(p)
  PROVE  Plans(p)'
<1>1. CASE Exit(p)
  BY <1>1, ExitEffect, IdleIsProc, NoPlan DEF Sound
<1>2. CASE ~Exit(p)
  <2>1. Pc(p) = "extract" /\ proc' = [proc EXCEPT ![p].todo = Tail(proc[p].todo)] /\ mixed' = mixed
    BY <1>2 DEF ExtractZipFile
  <2>2. /\ proc'[p].pc = "extract" /\ proc'[p].dir = proc[p].dir
        /\ proc'[p].site = proc[p].site /\ proc'[p].todo = Tail(proc[p].todo)
        /\ Own(p)' = Own(p) /\ AloneInDir(p)' /\ (Fills(p)' <=> Fills(p))
    BY <2>1, GoesOn
  <2>3. ExtractPlan(p)'
    <3> SUFFICES ASSUME Fills(p)' PROVE ExtractPlan(p)'
      BY DEF ExtractPlan
    <3> QED
      BY <2>2, ExtractedOne DEF ExtractPlan
  <2>4. CpPlan(p)' /\ ServePlan(p)'
    BY <2>2 DEF CpPlan, ServePlan, Pc
  <2> QED
    BY <2>2, <2>3, <2>4 DEF Plans
<1> QED
  BY <1>1, <1>2

\* What cp has at hand can be read.
LEMMA PartIsClean ==
  ASSUME Sound, Copied, NEW p \in Procs, Pc(p) = "cp", Fills(p), NEW path \in DOMAIN proc[p].site
  PROVE  proc[p].site[path] # Corrupt
<1>1. proc[p].exe \in Files \ mixed
  BY DEF Copied, Plans, AloneInDir, Sound, Typed, Equipped, FilesTyped
<1>2. PICK own \in Own(p) : path \in DOMAIN own /\ proc[p].site[path] = own[path]
  BY DEF Copied, Plans, CpPlan, PartOfOwn
<1>3. CleanSite(own)
  BY <1>1, <1>2 DEF Copied, Clean, Own
<1> QED
  BY <1>2, <1>3 DEF CleanSite

\* A file stays in the directory when another is put there; one of its name takes its place.
LEMMA CopiedOne ==
  ASSUME Typed, NEW p \in Procs, Pc(p) = "cp", NEW path \in DOMAIN proc[p].site,
         NEW d, d = proc[p].dir, dirs' = Written(d, <<Last(path)>>, proc[p].site[path]),
         NEW q \in DOMAIN proc[p].site, q = path \/ Landed(p, q)
  PROVE  /\ <<Last(q)>> \in DOMAIN dirs'[d]
         /\ \E s \in DOMAIN proc[p].site :
              Last(s) = Last(q) /\ dirs'[d][<<Last(q)>>] = proc[p].site[s]
<1>1. d \in Dirs
  BY DEF Typed, Equipped
<1>2. PICK a, b : a = <<Last(path)>> /\ b = <<Last(q)>>
  OBVIOUS
<1>3. a = b => Last(path) = Last(q)
  BY <1>2
<1>4. /\ DOMAIN dirs'[d] = DOMAIN dirs[d] \cup {a} /\ dirs'[d][a] = proc[p].site[path]
      /\ \A x \in DOMAIN dirs[d] : x # a => dirs'[d][x] = dirs[d][x]
  BY <1>1, <1>2, WrittenFile
<1>5. CASE a = b
  BY <1>2, <1>3, <1>4, <1>5
<1>6. CASE a # b
  <2>1. Landed(p, q)
    BY <1>2, <1>6
  <2> QED
    BY <1>2, <1>4, <1>6, <2>1 DEF Landed
<1> QED
  BY <1>5, <1>6

\* cp has put one more of its files in the directory.
Copies(p, path) ==
  LET r == proc[p]
      rest == Walk[ToSet(r.todo) \ {path}]
  IN  /\ (rest = <<>> /\ Exit(p)) \/ proc' = [proc EXCEPT ![p].todo = rest]
      /\ \A q \in DOMAIN r.site \ (ToSet(r.todo) \ {path}) :
           /\ <<Last(q)>> \in DOMAIN dirs'[r.dir]
           /\ \E s \in DOMAIN r.site : Last(s) = Last(q) /\ dirs'[r.dir][<<Last(q)>>] = r.site[s]

LEMMA CopyFileStep ==
  ASSUME Sound, Copied, NEW p \in Procs, CopyFile(p), Fills(p)
  PROVE  \E path \in ToSet(proc[p].todo) : Copies(p, path)
<1> DEFINE r == proc[p]
<1>1. /\ Pc(p) = "cp" /\ r.todo \in Seq(DOMAIN r.site)
  BY DEF CopyFile, Sound, Typed, Equipped
<1>2. PICK path \in ToSet(r.todo) :
        /\ dirs' = Written(r.dir, <<Last(path)>>, IF r.site[path] = Corrupt THEN Torn ELSE r.site[path])
        /\ IF r.site[path] = Corrupt \/ Walk[ToSet(r.todo) \ {path}] = <<>> THEN Exit(p)
           ELSE proc' = [proc EXCEPT ![p].todo = Walk[ToSet(r.todo) \ {path}]]
  BY DEF CopyFile
<1>3. path \in DOMAIN r.site
  BY <1>1 DEF ToSet
<1>4. r.site[path] # Corrupt
  BY <1>1, <1>3, PartIsClean
<1>5. dirs' = Written(r.dir, <<Last(path)>>, r.site[path])
  BY <1>2, <1>4
<1>6. \A q \in DOMAIN r.site \ ToSet(r.todo) : Landed(p, q)
  BY <1>1 DEF Copied, Plans, CpPlan
<1>7. ASSUME NEW q \in DOMAIN r.site \ (ToSet(r.todo) \ {path})
      PROVE  /\ <<Last(q)>> \in DOMAIN dirs'[r.dir]
             /\ \E s \in DOMAIN r.site : Last(s) = Last(q) /\ dirs'[r.dir][<<Last(q)>>] = r.site[s]
  <2>1. q = path \/ Landed(p, q)
    BY <1>6
  <2> QED
    BY <1>1, <1>3, <1>5, <2>1, CopiedOne DEF Sound
<1>8. \/ Walk[ToSet(r.todo) \ {path}] = <<>> /\ Exit(p)
      \/ proc' = [proc EXCEPT ![p].todo = Walk[ToSet(r.todo) \ {path}]]
  BY <1>2, <1>4
<1> QED
  BY <1>7, <1>8 DEF Copies

LEMMA PlansCopyFile ==
  ASSUME Sound, Copied, [Next]_vars, NEW p \in Procs, CopyFile(p)
  PROVE  Plans(p)'
<1>1. CASE Exit(p)
  BY <1>1, ExitEffect, IdleIsProc, NoPlan DEF Sound
<1>2. CASE ~Exit(p)
  <2>1. Pc(p) = "cp" /\ mixed' = mixed
    BY DEF CopyFile
  <2>2. PICK t : proc' = [proc EXCEPT ![p].todo = t]
    BY <1>2 DEF CopyFile
  <2>3. /\ proc'[p].pc = "cp" /\ proc'[p].dir = proc[p].dir
        /\ proc'[p].site = proc[p].site /\ proc'[p].todo = t
        /\ Own(p)' = Own(p) /\ AloneInDir(p)' /\ (Fills(p)' <=> Fills(p))
    BY <2>1, <2>2, GoesOn
  <2>4. CpPlan(p)'
    <3> SUFFICES ASSUME Fills(p)' PROVE CpPlan(p)'
      BY DEF CpPlan
    <3>1. Fills(p)
      BY <2>3
    <3>2. PICK path \in ToSet(proc[p].todo) : Copies(p, path)
      BY <3>1, CopyFileStep
    <3>3. ToSet(t) = ToSet(proc[p].todo) \ {path}
      <4>1. t = Walk[ToSet(proc[p].todo) \ {path}]
        BY <1>2, <2>3, <3>2 DEF Copies, Sound, Typed, ProcSet
      <4>2. ToSet(proc[p].todo) \subseteq Paths
        <5>1. proc[p].todo \in Seq(DOMAIN proc[p].site) /\ proc[p].site \in SiteSet
          BY <2>1 DEF Sound, Typed, Equipped, ProcSet
        <5> QED
          BY <5>1, WalkOfSite DEF ToSet
      <4> QED
        BY <4>1, <4>2, WalkSet
    <3>4. PartOfOwn(p)'
      BY <2>1, <2>3 DEF Copied, Plans, CpPlan, PartOfOwn
    <3>5. \A q \in DOMAIN proc[p].site \ ToSet(t) : Landed(p, q)'
      BY <2>3, <3>2, <3>3 DEF Copies, Landed
    <3> QED
      BY <2>3, <3>4, <3>5 DEF CpPlan
  <2>5. ExtractPlan(p)' /\ ServePlan(p)'
    BY <2>3 DEF ExtractPlan, ServePlan, Pc
  <2> QED
    BY <2>3, <2>4, <2>5 DEF Plans
<1> QED
  BY <1>1, <1>2

LEMMA OwnPlans ==
  ASSUME Sound, Copied, [Next]_vars, NEW p \in Procs,
         \/ \E f \in Files : Run(p, f)
         \/ Command(p)
         \/ WriteCell(p) \/ Pack(p) \/ BundleEnds(p)
         \/ ExtractZipFile(p) \/ CopyFile(p)
         \/ Stop(p) \/ StopServing(p)
  PROVE  Plans(p)'
<1>0. proc \in [Procs -> ProcSet]
  BY DEF Sound, Typed
<1>1. CASE Exit(p)
  BY <1>1, ExitEffect, IdleIsProc, NoPlan DEF Sound
<1>2. ASSUME NEW f \in Files, Run(p, f) PROVE Plans(p)'
  <2>1. proc'[p].pc = "started"
    BY <1>0, <1>2 DEF Run, Idle
  <2> QED
    BY <2>1, NoPlan
<1>3. ASSUME NEW d \in Dirs, NEW out \in Files, CreateBundle(p, d, out), ~Exit(p) PROVE Plans(p)'
  <2>1. \E size, todo :
          proc' = [proc EXCEPT ![p].pc = "copy", ![p].out = out, ![p].dir = d,
                     ![p].size = size, ![p].todo = todo]
    BY <1>3 DEF CreateBundle
  <2>2. proc'[p].pc = "copy"
    BY <1>0, <2>1 DEF ProcSet
  <2> QED
    BY <2>2, NoPlan
<1>4. CASE WriteCell(p)
  <2>1. proc'[p].pc \in {"copy", "write"}
    BY <1>0, <1>4 DEF WriteCell, ProcSet, Pc
  <2> QED
    BY <2>1, NoPlan
<1>5. CASE Pack(p) /\ ~Exit(p)
  <2>1. proc'[p].pc = "write"
    BY <1>0, <1>5 DEF Pack, ProcSet
  <2> QED
    BY <2>1, NoPlan
<1>6. BundleEnds(p) \/ Stop(p) \/ StopServing(p) => Exit(p)
  BY DEF BundleEnds, Stop, StopServing
<1> QED
  BY <1>1, <1>2, <1>3, <1>4, <1>5, <1>6, PlansExtract, PlansCp, PlansServe, PlansExtractZipFile,
     PlansCopyFile DEF Command

LEMMA CopiedStep == Sound /\ Copied /\ [Next]_vars => Copied'
<1> SUFFICES ASSUME Sound, Copied, [Next]_vars PROVE Copied'
  OBVIOUS
<1>1. Clean'
  BY CleanStep DEF Copied
<1>2. ASSUME NEW p \in Procs PROVE Plans(p)'
  <2>1. CASE UNCHANGED vars
    BY <2>1, PlansOfOthers DEF vars
  <2>2. CASE \E d \in Dirs : Clear(d)
    <3>1. proc'[p] = proc[p]
      BY <2>2 DEF Clear
    <3> QED
      BY <2>2, <3>1, PlansOfOthers
  <2>3. ASSUME NEW q \in Procs,
               \/ \E f \in Files : Run(q, f)
               \/ Command(q)
               \/ WriteCell(q) \/ Pack(q) \/ BundleEnds(q)
               \/ ExtractZipFile(q) \/ CopyFile(q)
               \/ Stop(q) \/ StopServing(q)
        PROVE  Plans(p)'
    <3>1. CASE q = p
      BY <2>3, <3>1, OwnPlans
    <3>2. CASE q # p
      <4>1. Effect(q)
        BY <2>3, StepEffect DEF Sound
      <4>2. proc'[p] = proc[p]
        BY <3>2, <4>1 DEF Effect
      <4> QED
        BY <3>2, <4>1, <4>2, PlansOfOthers
    <3> QED
      BY <3>1, <3>2
  <2> QED
    BY <2>1, <2>2, <2>3 DEF Next
<1> QED
  BY <1>1, <1>2 DEF Copied

LEMMA CopiedAlways == Spec => [](Sound /\ Copied)
<1>1. Sound /\ Copied /\ [Next]_vars => (Sound /\ Copied)'
  BY SoundStep, CopiedStep
<1>2. Init => Sound /\ Copied
  BY SoundInit, CopiedInit
<1> QED
  BY <1>1, <1>2, PTL DEF Spec

-----------------------------------------------------------------------------
(* What follows. *)

\* When extract ends well, the directory holds the site of the binary, all of it and nothing
\* else, whatever the runs before it had left; when cp ends well, each file it matched is
\* there under its name, as the binary carries it, or another it carries of that name is.
THEOREM CopiedOutCorrect == Spec => CopiedOut
<1> DEFINE Right(p) ==
             /\ ExtractZipFile(p) => Own(p) = {dirs'[proc[p].dir]}
             /\ CopyFile(p) =>
                  \A path \in DOMAIN proc[p].site :
                    /\ <<Last(path)>> \in DOMAIN dirs'[proc[p].dir]
                    /\ \E site \in Own(p) : \E q \in DOMAIN site :
                         /\ Head(q) = "html" /\ Last(q) = Last(path)
                         /\ dirs'[proc[p].dir][<<Last(path)>>] = site[q]
           Change == \A p \in Procs : proc'[p] = Idle /\ proc[p].dir \notin mixed => Right(p)
<1>1. ASSUME Sound, Copied, [Next]_vars,
             NEW p \in Procs, proc'[p] = Idle, proc[p].dir \notin mixed
      PROVE  Right(p)
  <2>0. Typed' /\ proc[p] \in ProcSet /\ proc'[p].pc = "idle"
    BY <1>1, TypedStep, IdleIsProc DEF Sound, Typed
  <2>1. ASSUME ExtractZipFile(p) PROVE Own(p) = {dirs'[proc[p].dir]}
    <3> DEFINE r == proc[p]
    <3>1. /\ Pc(p) = "extract" /\ Fills(p) /\ r.todo # <<>> /\ r.dir \in Dirs
          /\ r.todo \in Seq(DOMAIN r.site)
      BY <1>1, <2>1 DEF ExtractZipFile, Fills, Sound, Typed, Equipped
    <3>2. /\ Own(p) = {r.site} /\ r.site[Head(r.todo)] # Corrupt
          /\ DOMAIN dirs'[r.dir] = DOMAIN r.site \ ToSet(Tail(r.todo))
          /\ \A path \in DOMAIN dirs'[r.dir] : dirs'[r.dir][path] = r.site[path]
      BY <1>1, <2>1, <3>1, ExtractedOne
    <3>3. Len(r.todo) = 1
      <4> SUFFICES ASSUME Len(r.todo) # 1 PROVE FALSE
        OBVIOUS
      <4>1. proc' = [proc EXCEPT ![p].todo = Tail(@)]
        BY <2>1, <3>2 DEF ExtractZipFile
      <4> QED
        BY <2>0, <3>1, <4>1 DEF ProcSet, Pc, Sound, Typed
    <3>4. ToSet(Tail(r.todo)) = {}
      <4>1. Tail(r.todo) \in Seq(DOMAIN r.site) /\ Len(Tail(r.todo)) = Len(r.todo) - 1
        BY <3>1, HeadTailProperties
      <4> DEFINE t == Tail(r.todo)
      <4>2. t \in Seq(DOMAIN r.site) /\ Len(t) = 0
        BY <3>3, <4>1
      <4> HIDE DEF t
      <4>3. t = <<>>
        BY <4>2, EmptySeq
      <4> QED
        BY <4>3 DEF ToSet, t
    <3>5. dirs'[r.dir] \in SiteSet /\ r.site \in SiteSet
      BY <2>0, <3>1 DEF Typed, ProcSet
    <3>6. dirs'[r.dir] = r.site
      BY <3>2, <3>4, <3>5 DEF SiteSet
    <3> QED
      BY <3>2, <3>6
  <2>2. ASSUME CopyFile(p), NEW path \in DOMAIN proc[p].site
        PROVE  /\ <<Last(path)>> \in DOMAIN dirs'[proc[p].dir]
               /\ \E site \in Own(p) : \E q \in DOMAIN site :
                    /\ Head(q) = "html" /\ Last(q) = Last(path)
                    /\ dirs'[proc[p].dir][<<Last(path)>>] = site[q]
    <3>1. /\ Pc(p) = "cp" /\ Fills(p) /\ proc[p].site \in SiteSet
          /\ proc[p].todo \in Seq(DOMAIN proc[p].site)
      BY <1>1, <2>0, <2>2 DEF CopyFile, Fills, Sound, Typed, Equipped, ProcSet
    <3>2. PICK last \in ToSet(proc[p].todo) : Copies(p, last)
      BY <1>1, <2>2, <3>1, CopyFileStep
    <3> DEFINE left == ToSet(proc[p].todo) \ {last}
    <3>3. Walk[left] = <<>>
      <4> SUFFICES ASSUME Walk[left] # <<>> PROVE FALSE
        OBVIOUS
      <4>1. proc' = [proc EXCEPT ![p].todo = Walk[left]]
        BY <3>2 DEF Copies
      <4> QED
        BY <2>0, <3>1, <4>1 DEF ProcSet, Pc, Sound, Typed
    <3>4. left = {}
      <4>1. left \in SUBSET Paths
        BY <3>1, WalkOfSite DEF ToSet
      <4>2. ToSet(Walk[left]) = left
        BY <4>1, WalkSet
      <4> QED
        BY <3>3, <4>2 DEF ToSet
    <3>5. /\ <<Last(path)>> \in DOMAIN dirs'[proc[p].dir]
          /\ \E s \in DOMAIN proc[p].site :
               Last(s) = Last(path) /\ dirs'[proc[p].dir][<<Last(path)>>] = proc[p].site[s]
      BY <3>2, <3>4 DEF Copies
    <3>6. PICK own \in Own(p) : \A q \in DOMAIN proc[p].site :
            q \in DOMAIN own /\ Head(q) = "html" /\ proc[p].site[q] = own[q]
      BY <1>1, <3>1 DEF Copied, Plans, CpPlan, PartOfOwn
    <3> QED
      BY <3>5, <3>6
  <2> QED
    BY <2>1, <2>2
<1>2. Sound /\ Copied /\ [Next]_vars => [Change]_vars
  BY <1>1
<1> QED
  BY <1>2, CopiedAlways, PTL DEF Spec, CopiedOut

\* Of a site with an index, a browser sees the same page or error whether the binary serves it
\* or it lies in a directory, for every URL that names no directory below html/.
THEOREM ServedAlikeCorrect == Spec => []ServedAlike
<1>1. ASSUME Sound, Copied PROVE ServedAlike
  <2> SUFFICES ASSUME NEW p \in Procs, FromBinary(p), NEW url \in Urls,
                      ~NestedDirectory(proc[p].site, url.path)
               PROVE  Browse(TRUE, proc[p].site, url) = Browse(FALSE, proc[p].site, url)
    BY DEF ServedAlike
  <2>1. Own(p) = {proc[p].site} /\ proc[p].exe \notin mixed /\ Index \in DOMAIN proc[p].site
    BY <1>1 DEF FromBinary, Copied, Plans, ServePlan
  <2>2. proc[p].exe \in Files /\ proc[p].site \in SiteSet
    BY <1>1 DEF FromBinary, Sound, Typed, Equipped, FilesTyped, ProcSet
  <2>3. CleanSite(proc[p].site)
    BY <1>1, <2>1, <2>2 DEF Copied, Clean, Own
  <2>4. url \in [path : Seq(STRING), slash : BOOLEAN]
    BY UrlsAssumption
  <2> QED
    BY <2>1, <2>2, <2>3, <2>4, ServedSame
<1> QED
  BY <1>1, CopiedAlways, PTL
=============================================================================
