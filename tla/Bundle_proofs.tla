---------------------------- MODULE Bundle_proofs ----------------------------
(***************************************************************************)
(* What is proved of Bundle for every number of binaries, directories and  *)
(* processes, every site, and programs started any number of times: a file *)
(* that says it is bundled is whole, and its site appears at once.         *)
(***************************************************************************)
EXTENDS Bundle, SequenceTheorems, TLAPS

SiteSet == UNION {[S -> Bytes] : S \in SUBSET Paths}

Cells == {Magic, Zero} \cup ({"exe", "offset", "size"} \X Nat)
           \cup ({"entry"} \X Paths \X Bytes)
           \cup {<<"directory", Walk[DOMAIN s], s>> : s \in SiteSet}

Plain(cells) == \A i \in 1..Len(cells) : cells[i] # Magic

\* What CreateBundle writes of an executable part and a site.
Image(part, site) == part \o ZipOf(site) \o Footer(Len(part), Len(ZipOf(site)))

Whole(cells) ==
  \E part \in Seq(Cells), site \in SiteSet :
    Executable(part) /\ Plain(part) /\ cells = Image(part, site)

-----------------------------------------------------------------------------
(* Lemmas about cells. *)

LEMMA SiteIsSite == \A s : IsSite(s) <=> s \in SiteSet
  BY DEF IsSite, SiteSet

LEMMA WalkOfSite ==
  ASSUME NEW s \in SiteSet
  PROVE  /\ Walk[DOMAIN s] \in Seq(DOMAIN s)
         /\ Walk[DOMAIN s] \in Seq(Paths)
         /\ DOMAIN s \subseteq Paths
         /\ s \in [DOMAIN s -> Bytes]
<1>1. DOMAIN s \in SUBSET Paths /\ s \in [DOMAIN s -> Bytes]
  BY DEF SiteSet
<1>2. Walk[DOMAIN s] \in Seq(DOMAIN s)
  BY <1>1, WalkAssumption
<1> QED
  BY <1>1, <1>2

LEMMA ZipCells ==
  ASSUME NEW s \in SiteSet
  PROVE  /\ ZipOf(s) \in Seq(Cells)
         /\ Len(ZipOf(s)) = Len(Walk[DOMAIN s]) + 1
         /\ \A i \in 1..Len(Walk[DOMAIN s]) :
              ZipOf(s)[i] = <<"entry", Walk[DOMAIN s][i], s[Walk[DOMAIN s][i]]>>
         /\ ZipOf(s)[Len(ZipOf(s))] = <<"directory", Walk[DOMAIN s], s>>
         /\ Plain(ZipOf(s))
<1> DEFINE names == Walk[DOMAIN s]
           entries == [i \in DOMAIN names |-> <<"entry", names[i], s[names[i]]>>]
           dir == <<"directory", names, s>>
<1>1. names \in Seq(DOMAIN s) /\ DOMAIN s \subseteq Paths /\ s \in [DOMAIN s -> Bytes]
  BY WalkOfSite
<1>2. \A i \in 1..Len(names) : names[i] \in DOMAIN s /\ s[names[i]] \in Bytes
  BY <1>1
<1>3. \A i \in 1..Len(names) : <<"entry", names[i], s[names[i]]>> \in Cells
  <2> TAKE i \in 1..Len(names)
  <2>1. names[i] \in Paths /\ s[names[i]] \in Bytes
    BY <1>1, <1>2
  <2> QED
    BY <2>1 DEF Cells
<1>4. DOMAIN names = 1..Len(names) /\ Len(names) \in Nat
  BY <1>1
<1>5. entries \in Seq(Cells) /\ Len(entries) = Len(names)
  BY <1>3, <1>4
<1>6. dir \in Cells
  BY DEF Cells
<1>7. ZipOf(s) = Append(entries, dir)
  BY DEF ZipOf
<1>8. /\ Append(entries, dir) \in Seq(Cells)
      /\ Len(Append(entries, dir)) = Len(entries) + 1
      /\ \A i \in 1..Len(entries) : Append(entries, dir)[i] = entries[i]
      /\ Append(entries, dir)[Len(entries) + 1] = dir
  BY <1>5, <1>6, AppendProperties
<1>9. \A i \in 1..Len(names) : entries[i] = <<"entry", names[i], s[names[i]]>>
  BY <1>4
<1>10. /\ ZipOf(s) \in Seq(Cells)
       /\ Len(ZipOf(s)) = Len(names) + 1
       /\ \A i \in 1..Len(names) : ZipOf(s)[i] = <<"entry", names[i], s[names[i]]>>
       /\ ZipOf(s)[Len(ZipOf(s))] = dir
  BY <1>5, <1>7, <1>8, <1>9
<1>11. Plain(ZipOf(s))
  <2> SUFFICES ASSUME NEW i \in 1..Len(ZipOf(s)) PROVE ZipOf(s)[i] # Magic
    BY DEF Plain
  <2>1. CASE i \in 1..Len(names)
    <3>1. ZipOf(s)[i] = <<"entry", names[i], s[names[i]]>>
      BY <2>1, <1>10
    <3> QED
      BY <3>1 DEF Magic
  <2>2. CASE i = Len(ZipOf(s))
    <3>1. ZipOf(s)[i] = dir
      BY <2>2, <1>10
    <3> QED
      BY <3>1 DEF Magic
  <2> QED
    BY <2>1, <2>2, <1>10, <1>4
<1> QED
  BY <1>10, <1>11

LEMMA FooterCells ==
  ASSUME NEW n \in Nat, NEW m \in Nat
  PROVE  /\ Footer(n, m) \in Seq(Cells)
         /\ Len(Footer(n, m)) = 3
         /\ Footer(n, m)[1] = <<"offset", n>> /\ Footer(n, m)[2] = <<"size", m>>
         /\ Footer(n, m)[3] = Magic
         /\ Footer(n, m)[1] # Magic /\ Footer(n, m)[2] # Magic
<1>1. <<"offset", n>> \in Cells /\ <<"size", m>> \in Cells /\ Magic \in Cells
  BY DEF Cells
<1>2. <<"offset", n>> # Magic /\ <<"size", m>> # Magic
  BY DEF Magic
<1> QED
  BY <1>1, <1>2 DEF Footer

\* The cells of an image, and where its magic marker is.
LEMMA ImageCells ==
  ASSUME NEW part \in Seq(Cells), NEW s \in SiteSet
  PROVE  LET c == Image(part, s)
             p == Len(part)
             z == Len(ZipOf(s))
         IN  /\ c \in Seq(Cells) /\ p \in Nat /\ z \in Nat /\ z > 0
             /\ Len(c) = p + z + 3
             /\ \A i \in 1..p : c[i] = part[i]
             /\ \A i \in 1..z : c[p + i] = ZipOf(s)[i]
             /\ c[p + z + 1] = <<"offset", p>>
             /\ c[p + z + 2] = <<"size", z>>
             /\ c[p + z + 3] = Magic
             /\ Plain(part) => \A i \in 1..(p + z + 2) : c[i] # Magic
<1> DEFINE p == Len(part)
           z == Len(ZipOf(s))
           f == Footer(p, z)
           c == Image(part, s)
<1>1. ZipOf(s) \in Seq(Cells) /\ p \in Nat /\ z \in Nat /\ z > 0 /\ Plain(ZipOf(s))
  <2>1. Len(Walk[DOMAIN s]) \in Nat
    BY WalkOfSite
  <2> QED
    BY <2>1, ZipCells
<1>2. /\ f \in Seq(Cells) /\ Len(f) = 3
      /\ f[1] = <<"offset", p>> /\ f[2] = <<"size", z>> /\ f[3] = Magic
      /\ f[1] # Magic /\ f[2] # Magic
  BY <1>1, FooterCells
<1> DEFINE h == part \o ZipOf(s)
<1> HIDE DEF f, p, z
<1>3. /\ h \in Seq(Cells) /\ Len(h) = p + z
      /\ \A i \in 1..p : h[i] = part[i]
      /\ \A i \in 1..z : h[p + i] = ZipOf(s)[i]
  BY <1>1 DEF p, z
<1>4. c = h \o f
  BY DEF Image, p, z, f
<1> HIDE DEF h, c
<1>5. /\ c \in Seq(Cells) /\ Len(c) = p + z + 3
      /\ \A i \in 1..(p + z) : c[i] = h[i]
      /\ \A i \in 1..3 : c[p + z + i] = f[i]
  <2>1. Len(h) \in Nat /\ Len(f) \in Nat /\ Len(h) = p + z /\ Len(f) = 3
    BY <1>1, <1>2, <1>3
  <2>2. h \in Seq(Cells) /\ f \in Seq(Cells)
    BY <1>2, <1>3
  <2>3. c \in Seq(Cells) /\ Len(c) = Len(h) + Len(f)
    BY <2>2, <1>4
  <2>4. \A i \in 1..Len(h) : c[i] = h[i]
    BY <2>2, <1>4
  <2>5. \A i \in 1..Len(f) : c[Len(h) + i] = f[i]
    BY <2>2, <1>4
  <2> QED
    BY <2>1, <2>3, <2>4, <2>5
<1>6. \A i \in 1..p : c[i] = part[i]
  BY <1>1, <1>3, <1>5
<1>7. \A i \in 1..z : c[p + i] = ZipOf(s)[i]
  BY <1>1, <1>3, <1>5
<1>8. c[p + z + 1] = <<"offset", p>> /\ c[p + z + 2] = <<"size", z>> /\ c[p + z + 3] = Magic
  BY <1>1, <1>2, <1>5
<1>9. ASSUME Plain(part), NEW i \in 1..(p + z + 2) PROVE c[i] # Magic
  <2>1. CASE i \in 1..p
    BY <2>1, <1>6, <1>9 DEF Plain, p
  <2>2. CASE i \in (p + 1)..(p + z)
    <3>1. i - p \in 1..z /\ i = p + (i - p)
      BY <2>2, <1>1
    <3>2. c[i] = ZipOf(s)[i - p]
      BY <3>1, <1>7
    <3> QED
      BY <3>1, <3>2, <1>1 DEF Plain, z
  <2>3. CASE i = p + z + 1 \/ i = p + z + 2
    <3>1. c[p + z + 1] = f[1] /\ c[p + z + 2] = f[2]
      BY <1>5
    <3> QED
      BY <2>3, <3>1, <1>2
  <2> QED
    BY <2>1, <2>2, <2>3, <1>1
<1> QED
  BY <1>1, <1>5, <1>6, <1>7, <1>8, <1>9 DEF p, z, c

-----------------------------------------------------------------------------
(* Lemmas about reading a file. *)

LEMMA PlainReads ==
  ASSUME NEW c \in Seq(Cells), Plain(c)
  PROVE  ~IsBundled(c) /\ GetBundleReader(c) = {} /\ GetBinarySize(c) = {Len(c)}
<1>1. ~IsBundled(c)
  BY DEF IsBundled, FooterSize, Plain, Last
<1> QED
  BY <1>1 DEF GetBundleReader, GetBinarySize

\* A reader of an image finds the site it was made of.
LEMMA ImageReads ==
  ASSUME NEW part \in Seq(Cells), NEW s \in SiteSet
  PROVE  LET c == Image(part, s)
         IN  /\ IsBundled(c)
             /\ GetBinarySize(c) = {Len(part)}
             /\ SubSeq(c, 1, Len(part)) = part
             /\ GetBundleReader(c) = {s}
<1> DEFINE c == Image(part, s)
           p == Len(part)
           z == Len(ZipOf(s))
           names == Walk[DOMAIN s]
<1>1. /\ c \in Seq(Cells) /\ p \in Nat /\ z \in Nat /\ z > 0
      /\ Len(c) = p + z + 3
      /\ \A i \in 1..p : c[i] = part[i]
      /\ \A i \in 1..z : c[p + i] = ZipOf(s)[i]
      /\ c[p + z + 1] = <<"offset", p>>
      /\ c[p + z + 2] = <<"size", z>>
      /\ c[p + z + 3] = Magic
  BY ImageCells
<1>2. /\ ZipOf(s) \in Seq(Cells) /\ z = Len(names) + 1
      /\ \A i \in 1..Len(names) : ZipOf(s)[i] = <<"entry", names[i], s[names[i]]>>
      /\ ZipOf(s)[z] = <<"directory", names, s>>
  BY ZipCells
<1>3. names \in Seq(DOMAIN s) /\ DOMAIN s \subseteq Paths /\ s \in [DOMAIN s -> Bytes]
  BY WalkOfSite
<1> HIDE DEF c, p, z, names
<1>4. IsBundled(c)
  BY <1>1 DEF IsBundled, FooterSize, Last
<1>5. c[Len(c) - 2] = <<"offset", p>> /\ c[Len(c) - 1] = <<"size", z>>
  <2>1. Len(c) - 2 = p + z + 1 /\ Len(c) - 1 = p + z + 2
    BY <1>1
  <2> QED
    BY <2>1, <1>1
<1>6. GetBinarySize(c) = {p}
  BY <1>4, <1>5 DEF GetBinarySize
<1>7. SubSeq(c, 1, p) = part
  <2>1. \A i \in 1..p : c[i] \in Cells
    BY <1>1
  <2>2. /\ SubSeq(c, 1, p) \in Seq(Cells)
        /\ Len(SubSeq(c, 1, p)) = p
        /\ \A i \in 1..p : SubSeq(c, 1, p)[i] = c[i]
    BY <2>1, <1>1, SubSeqProperties
  <2> QED
    BY <2>2, <1>1 DEF p
<1>8. FooterInRange(c)
  BY <1>1, <1>5 DEF FooterInRange
<1>9. ZipData(c) = ZipOf(s)
  <2>1. ZipData(c) = SubSeq(c, p + 1, p + z)
    <3>1. c[Len(c) - 2][2] = p /\ c[Len(c) - 1][2] = z
      BY <1>5
    <3> QED
      BY <3>1 DEF ZipData
  <2>2. \A i \in (p + 1)..(p + z) : c[i] \in Cells
    BY <1>1
  <2>3. /\ SubSeq(c, p + 1, p + z) \in Seq(Cells)
        /\ Len(SubSeq(c, p + 1, p + z)) = z
        /\ \A i \in 1..z : SubSeq(c, p + 1, p + z)[i] = c[p + i]
    <3>1. p + 1 \in Int /\ p + z \in Int /\ (p + z) - (p + 1) + 1 = z /\ p + 1 <= p + z
      BY <1>1
    <3>2. /\ SubSeq(c, p + 1, p + z) \in Seq(Cells)
          /\ Len(SubSeq(c, p + 1, p + z)) = (p + z) - (p + 1) + 1
          /\ \A i \in 1..((p + z) - (p + 1) + 1) :
               SubSeq(c, p + 1, p + z)[i] = c[(p + 1) + i - 1]
      BY <3>1, <2>2, SubSeqProperties
    <3>3. \A i \in 1..z : (p + 1) + i - 1 = p + i
      BY <1>1
    <3> QED
      BY <3>1, <3>2, <3>3
  <2> QED
    BY <2>1, <2>3, <1>1, <1>2 DEF z
<1> DEFINE d == ZipOf(s)
<1>10. Len(d) = z /\ Last(d) = <<"directory", names, s>>
  BY <1>2 DEF z, Last
<1>11. Len(names) \in Nat
  BY <1>3
<1>12. ZipOpens(d)
  BY <1>1, <1>2, <1>10, <1>11 DEF ZipOpens
<1>13. ZipFiles(d) = s
  <2>1. ToSet(names) = DOMAIN s
    <3>1. \A path \in DOMAIN s : \E i \in DOMAIN names : names[i] = path
      BY <1>3, WalkAssumption DEF names
    <3>2. \A i \in DOMAIN names : names[i] \in DOMAIN s
      BY <1>3
    <3>3. ToSet(names) = {names[i] : i \in DOMAIN names}
      BY DEF ToSet
    <3> QED
      BY <3>1, <3>2, <3>3
  <2>2. ASSUME NEW path \in DOMAIN s
        PROVE  LET i == CHOOSE i \in DOMAIN names : names[i] = path
               IN  d[Len(d) - 1 - Len(names) + i] = <<"entry", path, s[path]>>
    <3> DEFINE i == CHOOSE i \in DOMAIN names : names[i] = path
    <3>1. \E j \in DOMAIN names : names[j] = path
      BY <1>3, WalkAssumption DEF names
    <3>2. i \in DOMAIN names /\ names[i] = path
      BY <3>1
    <3>3. i \in 1..Len(names)
      BY <3>2, <1>3
    <3> HIDE DEF i
    <3>4. Len(d) - 1 - Len(names) + i = i
      BY <3>3, <1>2, <1>10, <1>11
    <3>5. d[i] = <<"entry", path, s[path]>>
      BY <3>2, <3>3, <1>2
    <3> QED
      BY <3>4, <3>5 DEF i
  <2>3. ZipFiles(d) = [path \in DOMAIN s |-> s[path]]
    <3>1. Last(d)[2] = names /\ Last(d)[3] = s
      BY <1>10
    <3>2. ZipFiles(d) = [path \in DOMAIN s |->
                           LET i == CHOOSE i \in DOMAIN names : names[i] = path
                           IN  IF d[Len(d) - 1 - Len(names) + i] = <<"entry", path, s[path]>>
                               THEN s[path] ELSE Corrupt]
      BY <3>1, <2>1 DEF ZipFiles
    <3> QED
      BY <3>2, <2>2
  <2> QED
    BY <2>3, <1>3
<1> QED
  BY <1>4, <1>6, <1>7, <1>8, <1>9, <1>12, <1>13 DEF GetBundleReader, c, p

\* A file cut off before the end of the image is plain.
LEMMA PrefixPlain ==
  ASSUME NEW part \in Seq(Cells), NEW s \in SiteSet, Plain(part),
         NEW c \in Seq(Cells), NEW t \in Seq(Cells), t # <<>>, c \o t = Image(part, s)
  PROVE  Plain(c)
<1> DEFINE i == Image(part, s)
<1>1. i \in Seq(Cells) /\ \A j \in 1..(Len(i) - 1) : i[j] # Magic
  <2>1. /\ i \in Seq(Cells) /\ Len(part) \in Nat /\ Len(ZipOf(s)) \in Nat
        /\ Len(i) = Len(part) + Len(ZipOf(s)) + 3
        /\ \A j \in 1..(Len(part) + Len(ZipOf(s)) + 2) : i[j] # Magic
    BY ImageCells
  <2> HIDE DEF i
  <2> QED
    BY <2>1
<1> HIDE DEF i
<1>2. c \o t = i
  BY DEF i
<1>3. Len(i) = Len(c) + Len(t) /\ Len(t) > 0 /\ Len(c) \in Nat /\ Len(t) \in Nat
  BY <1>2
<1>4. \A j \in 1..Len(c) : i[j] = c[j]
  BY <1>2
<1> QED
  BY <1>1, <1>3, <1>4 DEF Plain

\* The executable part that CreateBundle copies of a sound file is plain and runs.
LEMMA PartOf ==
  ASSUME NEW c \in Seq(Cells), Plain(c) \/ Whole(c), Executable(c), NEW n \in GetBinarySize(c)
  PROVE  /\ n \in 0..Len(c)
         /\ SubSeq(c, 1, n) \in Seq(Cells) /\ Len(SubSeq(c, 1, n)) = n
         /\ Plain(SubSeq(c, 1, n)) /\ Executable(SubSeq(c, 1, n))
<1>1. CASE Plain(c)
  <2>1. n = Len(c)
    BY <1>1, PlainReads
  <2>2. SubSeq(c, 1, n) = c
    BY <2>1, SubSeqFull
  <2>3. Len(c) \in Nat
    OBVIOUS
  <2>4. Plain(SubSeq(c, 1, n)) /\ Executable(SubSeq(c, 1, n))
    BY <1>1, <2>2, Zenon
  <2> QED
    BY <2>1, <2>2, <2>3, <2>4
<1>2. CASE Whole(c)
  <2>1. PICK part \in Seq(Cells), s \in SiteSet :
          Executable(part) /\ Plain(part) /\ c = Image(part, s)
    BY <1>2 DEF Whole
  <2>2. n = Len(part) /\ SubSeq(c, 1, n) = part
    BY <2>1, ImageReads
  <2>3. Len(part) \in Nat /\ Len(part) <= Len(c)
    <3>1. /\ Len(part) \in Nat /\ Len(ZipOf(s)) \in Nat
          /\ Len(Image(part, s)) = Len(part) + Len(ZipOf(s)) + 3
      BY ImageCells
    <3> QED
      BY <3>1, <2>1
  <2>4. Plain(SubSeq(c, 1, n)) /\ Executable(SubSeq(c, 1, n))
    BY <2>1, <2>2, Zenon
  <2>5. n \in 0..Len(c)
    BY <2>2, <2>3
  <2> QED
    BY <2>1, <2>2, <2>4, <2>5
<1> QED
  BY <1>1, <1>2

LEMMA CellKinds ==
  ASSUME NEW x \in Cells
  PROVE  /\ x[1] \in Kinds
         /\ x[1] \in {"offset", "size"} => x[2] \in Nat
         /\ x[1] = "directory" => \E s \in SiteSet : x = <<"directory", Walk[DOMAIN s], s>>
<1>1. CASE x \in {Magic, Zero}
  BY <1>1 DEF Magic, Zero, Kinds
<1>2. CASE x \in {"exe", "offset", "size"} \X Nat
  BY <1>2 DEF Kinds
<1>3. CASE x \in {"entry"} \X Paths \X Bytes
  BY <1>3 DEF Kinds
<1>4. CASE x \in {<<"directory", Walk[DOMAIN s], s>> : s \in SiteSet}
  <2>1. PICK s \in SiteSet : x = <<"directory", Walk[DOMAIN s], s>>
    BY <1>4
  <2>2. x[1] = "directory"
    BY <2>1
  <2> QED
    BY <2>1, <2>2 DEF Kinds
<1> QED
  BY <1>1, <1>2, <1>3, <1>4 DEF Cells

LEMMA SizesAreNat ==
  ASSUME NEW c \in Seq(Cells), NEW n \in GetBinarySize(c)
  PROVE  n \in Nat
<1>1. Len(c) \in Nat
  OBVIOUS
<1>2. CASE ~IsBundled(c)
  BY <1>1, <1>2 DEF GetBinarySize
<1>3. CASE IsBundled(c) /\ c[Len(c) - 2][1] = "offset"
  <2>1. c[Len(c) - 2] \in Cells
    BY <1>3 DEF IsBundled, FooterSize
  <2>2. c[Len(c) - 2][2] \in Nat
    BY <1>3, <2>1, CellKinds
  <2> QED
    BY <1>3, <2>2 DEF GetBinarySize
<1>4. CASE IsBundled(c) /\ c[Len(c) - 2][1] # "offset"
  BY <1>1, <1>4 DEF GetBinarySize
<1> QED
  BY <1>2, <1>3, <1>4

\* Whatever a reader finds is a site, even in a file two processes wrote.
LEMMA ReaderSite ==
  ASSUME NEW c \in Seq(Cells), NEW s \in GetBundleReader(c)
  PROVE  s \in SiteSet
<1>1. IsBundled(c) /\ FooterInRange(c) /\ ZipOpens(ZipData(c)) /\ s = ZipFiles(ZipData(c))
  BY DEF GetBundleReader
<1> DEFINE o == c[Len(c) - 2][2]
           z == c[Len(c) - 1][2]
           d == ZipData(c)
<1>2. Len(c) \in Nat /\ Len(c) >= 3
  BY <1>1 DEF IsBundled, FooterSize
<1>3. o \in Nat /\ z \in Nat /\ o + z <= Len(c)
  <2>1. c[Len(c) - 2] \in Cells /\ c[Len(c) - 1] \in Cells
    BY <1>2
  <2> QED
    BY <1>1, <2>1, CellKinds DEF FooterInRange
<1>4. d \in Seq(Cells)
  <2>1. \A i \in (o + 1)..(o + z) : c[i] \in Cells
    BY <1>2, <1>3
  <2>2. d = SubSeq(c, o + 1, o + z)
    BY DEF ZipData
  <2> HIDE DEF o, z, d
  <2>3. SubSeq(c, o + 1, o + z) \in Seq(Cells)
    <3>1. o + 1 \in Int /\ o + z \in Int
      BY <1>3
    <3> QED
      BY <2>1, <3>1, SubSeqProperties
  <2> QED
    BY <2>2, <2>3
<1>5. Last(d) \in Cells /\ Last(d)[1] = "directory"
  <2> HIDE DEF d
  <2>1. Len(d) > 0 /\ Last(d)[1] = "directory"
    BY <1>1 DEF ZipOpens, d
  <2> QED
    BY <2>1, <1>4 DEF Last
<1>6. PICK t \in SiteSet : Last(d) = <<"directory", Walk[DOMAIN t], t>>
  BY <1>5, CellKinds
<1>7. Last(d)[2] = Walk[DOMAIN t] /\ Last(d)[3] = t
  BY <1>6
<1>8. /\ Walk[DOMAIN t] \in Seq(DOMAIN t) /\ DOMAIN t \subseteq Paths
      /\ t \in [DOMAIN t -> Bytes]
  BY WalkOfSite
<1>9. \A path \in DOMAIN t : t[path] \in Bytes
  BY <1>8
<1> DEFINE S == ToSet(Walk[DOMAIN t])
<1>10. S \subseteq DOMAIN t
  BY <1>8 DEF ToSet
<1> HIDE DEF d, S
<1>11. s = [path \in S |->
              LET i == CHOOSE i \in DOMAIN Walk[DOMAIN t] : Walk[DOMAIN t][i] = path
              IN  IF d[Len(d) - 1 - Len(Walk[DOMAIN t]) + i] = <<"entry", path, t[path]>>
                  THEN t[path] ELSE Corrupt]
  BY <1>1, <1>7 DEF ZipFiles, S, d
<1>12. s \in [S -> Bytes]
  <2> DEFINE I(path) == CHOOSE i \in DOMAIN Walk[DOMAIN t] : Walk[DOMAIN t][i] = path
             Intact(path) == d[Len(d) - 1 - Len(Walk[DOMAIN t]) + I(path)]
                               = <<"entry", path, t[path]>>
             V(path) == IF Intact(path) THEN t[path] ELSE Corrupt
  <2>1. ASSUME NEW path \in S PROVE V(path) \in {t[path], Corrupt}
    <3> HIDE DEF Intact
    <3>1. CASE Intact(path)
      BY <3>1
    <3>2. CASE ~Intact(path)
      BY <3>2
    <3> QED
      BY <3>1, <3>2
  <2>2. ASSUME NEW path \in S PROVE t[path] \in Bytes /\ Corrupt \in Bytes
    <3>1. path \in DOMAIN t
      BY <1>10
    <3>2. t[path] \in Bytes
      BY <3>1, <1>9
    <3>3. Corrupt \in Bytes
      BY BytesAssumption
    <3> QED
      BY <3>2, <3>3
  <2>3. s = [path \in S |-> V(path)]
    BY <1>11
  <2> HIDE DEF V
  <2> QED
    BY <2>1, <2>2, <2>3
<1>13. S \in SUBSET Paths
  BY <1>8, <1>10
<1> QED
  BY <1>12, <1>13 DEF SiteSet

LEMMA PutCells ==
  ASSUME NEW c \in Seq(Cells), NEW n \in Nat, NEW x \in Cells
  PROVE  Put(c, n, x) \in Seq(Cells)
<1>1. CASE n < Len(c)
  <2>1. [c EXCEPT ![n + 1] = x] \in Seq(Cells)
    BY <1>1
  <2> QED
    BY <1>1, <2>1 DEF Put
<1>2. CASE ~(n < Len(c))
  <2> DEFINE gap == [i \in 1..(n - Len(c)) |-> Zero]
  <2>1. Zero \in Cells
    BY DEF Cells
  <2>2. n - Len(c) \in Nat
    BY <1>2
  <2>3. gap \in Seq(Cells)
    BY <2>1, <2>2
  <2> HIDE DEF gap
  <2>4. c \o gap \in Seq(Cells)
    BY <2>3
  <2>5. Append(c \o gap, x) \in Seq(Cells)
    BY <2>4, AppendProperties
  <2> QED
    BY <1>2, <2>5 DEF Put, gap
<1> QED
  BY <1>1, <1>2

\* A write at the end of the file appends.
LEMMA PutAtEnd ==
  ASSUME NEW c \in Seq(Cells), NEW x \in Cells
  PROVE  Put(c, Len(c), x) = Append(c, x)
<1> DEFINE gap == [i \in 1..(Len(c) - Len(c)) |-> Zero]
<1>1. Len(c) \in Nat
  OBVIOUS
<1>2. gap = <<>>
  <2>1. 1..(Len(c) - Len(c)) = {}
    BY <1>1
  <2>2. gap \in Seq(Cells) /\ Len(gap) = 0
    BY <2>1, <1>1 DEF Cells
  <2> QED
    BY <2>2
<1>3. c \o gap = c
  BY <1>2, ConcatEmptySeq
<1>4. Put(c, Len(c), x) = Append(c \o gap, x)
  BY <1>1 DEF Put
<1> QED
  BY <1>3, <1>4

LEMMA WriteSplit ==
  ASSUME NEW c \in Seq(Cells), NEW t \in Seq(Cells), t # <<>>
  PROVE  /\ Head(t) \in Cells /\ Tail(t) \in Seq(Cells)
         /\ Append(c, Head(t)) \in Seq(Cells)
         /\ Len(Append(c, Head(t))) = Len(c) + 1
         /\ Append(c, Head(t)) \o Tail(t) = c \o t
  OBVIOUS

-----------------------------------------------------------------------------
(* Types. *)

ProcSet == [pc : Stages, exe : Files \cup {None}, out : Files \cup {None},
            dir : Dirs \cup {None}, size : Nat, pos : Nat,
            todo : Seq(Cells) \cup Seq(Paths), site : SiteSet]

\* What a process has at hand in each stage.
Equipped(p) ==
  /\ Pc(p) # "idle" => proc[p].exe \in DOMAIN disk
  /\ Pc(p) \in {"copy", "write"} =>
       /\ proc[p].out \in DOMAIN disk
       /\ proc[p].todo \in Seq(Cells)
       /\ proc[p].dir \in Dirs
  /\ Pc(p) \in {"extract", "cp"} =>
       /\ proc[p].dir \in Dirs
       /\ proc[p].todo \in Seq(DOMAIN proc[p].site) /\ proc[p].todo # <<>>

FilesTyped == DOMAIN disk \subseteq Files /\ \A f \in DOMAIN disk : disk[f] \in Seq(Cells)

Typed ==
  /\ FilesTyped
  /\ dirs \in [Dirs -> SiteSet]
  /\ proc \in [Procs -> ProcSet]
  /\ \A p \in Procs : Equipped(p)
  /\ runs \in 0..MaxRuns
  /\ mixed \subseteq Files \cup Dirs

LEMMA NoFilesIsSite == NoFiles \in SiteSet
<1>1. NoFiles \in [{} -> Bytes] /\ {} \in SUBSET Paths
  BY DEF NoFiles
<1> QED
  BY <1>1 DEF SiteSet

LEMMA IdleIsProc == Idle \in ProcSet /\ Idle.pc = "idle"
<1>1. <<>> \in Seq(Cells)
  OBVIOUS
<1> QED
  BY <1>1, NoFilesIsSite DEF Idle, ProcSet, Stages

LEMMA ExeIsCells == Exe \in Seq(Cells) /\ Len(Exe) = ExeSize /\ Plain(Exe) /\ Executable(Exe)
<1>1. ExeSize \in Nat
  BY SizeAssumption
<1>2. \A i \in 1..ExeSize : <<"exe", i>> \in Cells /\ <<"exe", i>> # Magic
  BY <1>1 DEF Cells, Magic
<1>3. Exe \in Seq(Cells) /\ Len(Exe) = ExeSize
  BY <1>1, <1>2 DEF Exe
<1>4. Plain(Exe)
  <2>1. \A i \in 1..ExeSize : Exe[i] = <<"exe", i>>
    BY DEF Exe
  <2> QED
    BY <1>2, <1>3, <2>1 DEF Plain
<1>5. Executable(Exe)
  <2>1. SubSeq(Exe, 1, Len(Exe)) = Exe
    BY <1>3, SubSeqFull
  <2>2. ExeSize >= ExeSize
    BY <1>1
  <2> QED
    BY <1>3, <2>1, <2>2 DEF Executable
<1> QED
  BY <1>3, <1>4, <1>5

LEMMA TypedInit == Init => Typed
<1> SUFFICES ASSUME Init PROVE Typed
  OBVIOUS
<1>1. FilesTyped
  BY ExeIsCells, FilesAssumption DEF Init, FilesTyped
<1>2. dirs \in [Dirs -> SiteSet]
  BY StartAssumption, SiteIsSite DEF Init
<1>3. proc \in [Procs -> ProcSet] /\ \A p \in Procs : Equipped(p)
  BY IdleIsProc DEF Init, Equipped, Pc
<1>4. runs \in 0..MaxRuns /\ mixed \subseteq Files \cup Dirs
  BY SizeAssumption DEF Init
<1> QED
  BY <1>1, <1>2, <1>3, <1>4 DEF Typed

LEMMA SiteOfTyped ==
  ASSUME Typed, NEW d \in Dirs
  PROVE  SiteOf(d) \in SiteSet
<1> DEFINE B == {f \in Files : Home[f] = d /\ f \in DOMAIN disk}
           S == DOMAIN dirs[d] \cup {<<Name[f]>> : f \in B}
<1>1. DOMAIN dirs[d] \subseteq Paths /\ dirs[d] \in [DOMAIN dirs[d] -> Bytes]
  BY SiteIsSite DEF Typed, IsSite
<1>2. S \in SUBSET Paths
  BY <1>1, PathsAssumption
<1>3. SiteOf(d) \in [S -> Bytes]
  BY <1>1, BytesAssumption DEF SiteOf
<1> QED
  BY <1>2, <1>3 DEF SiteSet

LEMMA WrittenTyped ==
  ASSUME Typed, NEW d \in Dirs, NEW path \in Paths, NEW content \in Bytes
  PROVE  Written(d, path, content) \in [Dirs -> SiteSet]
<1> DEFINE S == DOMAIN dirs[d] \cup {path}
           w == [q \in S |-> IF q = path THEN content ELSE dirs[d][q]]
<1>1. DOMAIN dirs[d] \subseteq Paths /\ dirs[d] \in [DOMAIN dirs[d] -> Bytes]
  BY SiteIsSite DEF Typed, IsSite
<1>2. w \in [S -> Bytes] /\ S \in SUBSET Paths
  BY <1>1
<1>3. w \in SiteSet
  BY <1>2 DEF SiteSet
<1>4. Written(d, path, content) = [dirs EXCEPT ![d] = w]
  BY DEF Written, Typed
<1> QED
  BY <1>3, <1>4 DEF Typed

LEMMA OwnTyped ==
  ASSUME Typed, NEW p \in Procs, Own(p) # {}
  PROVE  Own(p) = {OwnFiles(p)} /\ OwnFiles(p) \in SiteSet
<1>1. OwnFiles(p) \in Own(p)
  BY DEF OwnFiles
<1>2. proc[p].exe \in DOMAIN disk /\ Own(p) = GetBundleReader(disk[proc[p].exe])
  BY DEF Own, ImageOf
<1>3. OwnFiles(p) \in SiteSet
  BY <1>1, <1>2, ReaderSite DEF Typed, FilesTyped
<1>4. Own(p) = {ZipFiles(ZipData(disk[proc[p].exe]))}
  BY <1>2 DEF GetBundleReader
<1> QED
  BY <1>1, <1>3, <1>4

\* What is left to show of a step of p that makes no file disappear.
LEMMA TypedByOne ==
  ASSUME Typed, NEW p \in Procs, NEW r \in ProcSet, proc' = [proc EXCEPT ![p] = r],
         FilesTyped', DOMAIN disk \subseteq DOMAIN disk', Equipped(p)',
         dirs' \in [Dirs -> SiteSet], runs' \in 0..MaxRuns, mixed' \subseteq Files \cup Dirs
  PROVE  Typed'
<1>1. proc' \in [Procs -> ProcSet]
  BY DEF Typed
<1>2. ASSUME NEW q \in Procs, q # p PROVE Equipped(q)'
  <2>1. proc'[q] = proc[q]
    BY <1>2 DEF Typed
  <2> QED
    BY <2>1, <1>2 DEF Typed, Equipped, Pc
<1> QED
  BY <1>1, <1>2 DEF Typed

LEMMA ExitTyped ==
  ASSUME Typed, NEW p \in Procs, Exit(p), FilesTyped', DOMAIN disk \subseteq DOMAIN disk',
         dirs' \in [Dirs -> SiteSet], runs' \in 0..MaxRuns, mixed' \subseteq Files \cup Dirs
  PROVE  Typed'
<1>1. proc' = [proc EXCEPT ![p] = Idle]
  BY DEF Exit
<1>2. proc'[p] = Idle
  BY <1>1 DEF Typed
<1>3. Equipped(p)'
  BY <1>2, IdleIsProc DEF Equipped, Pc
<1> QED
  BY <1>1, <1>3, IdleIsProc, TypedByOne

LEMMA TypedRun ==
  ASSUME Typed, NEW p \in Procs, NEW f \in Files, Run(p, f)
  PROVE  Typed'
<1> DEFINE r == [Idle EXCEPT !.pc = "started", !.exe = f]
<1>1. r \in ProcSet /\ r.pc = "started" /\ r.exe = f
  BY IdleIsProc DEF ProcSet, Stages
<1> HIDE DEF r
<1>2. proc' = [proc EXCEPT ![p] = r]
  BY DEF Run, r
<1>3. proc'[p] = r /\ f \in DOMAIN disk /\ disk' = disk
  BY <1>2 DEF Typed, Run
<1>4. Equipped(p)'
  BY <1>1, <1>3 DEF Equipped, Pc
<1>5. FilesTyped' /\ dirs' \in [Dirs -> SiteSet] /\ mixed' \subseteq Files \cup Dirs
  BY <1>3 DEF Typed, FilesTyped, Run
<1>6. runs' \in 0..MaxRuns
  BY SizeAssumption DEF Typed, Run
<1> QED
  BY <1>1, <1>2, <1>3, <1>4, <1>5, <1>6, TypedByOne

LEMMA MixingTyped ==
  ASSUME Typed, NEW x \in Files \cup Dirs, NEW f, NEW others
  PROVE  Mixing(x, f, others) \subseteq Files \cup Dirs
  BY DEF Mixing, Typed

LEMMA TypedCreateBundle ==
  ASSUME Typed, NEW p \in Procs, NEW d \in Dirs, NEW out \in Files, CreateBundle(p, d, out)
  PROVE  Typed'
<1>1. Pc(p) = "started" /\ dirs' = dirs /\ runs' = runs
  BY DEF CreateBundle
<1>2. CASE Exit(p) /\ UNCHANGED <<disk, mixed>>
  BY <1>1, <1>2, ExitTyped DEF Typed, FilesTyped
<1>3. CASE ~(Exit(p) /\ UNCHANGED <<disk, mixed>>)
  <2> DEFINE c == disk[proc[p].exe]
             todo(n) == SubSeq(c, 1, IF n <= Len(c) THEN n ELSE Len(c))
             r(n) == [proc[p] EXCEPT !.pc = "copy", !.out = out, !.dir = d, !.size = n,
                                     !.todo = todo(n)]
  <2>1. PICK n \in GetBinarySize(c) :
          /\ proc' = [proc EXCEPT ![p].pc = "copy", ![p].out = out, ![p].dir = d,
                        ![p].size = n, ![p].todo = todo(n)]
          /\ disk' = [f \in DOMAIN disk \cup {out} |-> IF f = out THEN <<>> ELSE disk[f]]
          /\ mixed' = Mixing(out, proc[p].exe, \E q \in Procs : WritesFile(q, out))
    BY <1>3 DEF CreateBundle
  <2>2. proc[p] \in ProcSet /\ proc[p].exe \in DOMAIN disk /\ c \in Seq(Cells)
    BY <1>1 DEF Typed, FilesTyped, Equipped
  <2>3. n \in Nat
    BY <2>2, SizesAreNat
  <2>4. todo(n) \in Seq(Cells)
    <3> DEFINE m == IF n <= Len(c) THEN n ELSE Len(c)
    <3>1. m \in Int /\ \A i \in 1..m : c[i] \in Cells
      BY <2>2, <2>3
    <3> HIDE DEF m, c
    <3>2. SubSeq(c, 1, m) \in Seq(Cells)
      BY <3>1, SubSeqProperties
    <3> QED
      BY <3>2 DEF m
  <2> HIDE DEF todo
  <2>5. r(n) \in ProcSet
    BY <2>2, <2>3, <2>4 DEF ProcSet, Stages
  <2>6. proc' = [proc EXCEPT ![p] = r(n)]
    BY <2>1
  <2>7. proc'[p] = r(n)
    BY <2>6 DEF Typed
  <2>8. FilesTyped' /\ DOMAIN disk \subseteq DOMAIN disk' /\ out \in DOMAIN disk'
    <3>1. DOMAIN disk' = DOMAIN disk \cup {out}
      BY <2>1
    <3>2. \A f \in DOMAIN disk' : disk'[f] \in Seq(Cells)
      BY <2>1, <3>1 DEF Typed, FilesTyped
    <3> QED
      BY <3>1, <3>2 DEF Typed, FilesTyped
  <2>9. Equipped(p)'
    <3>1. /\ r(n).pc = "copy" /\ r(n).out = out /\ r(n).dir = d /\ r(n).todo = todo(n)
          /\ r(n).exe = proc[p].exe
      BY <2>2 DEF ProcSet
    <3> QED
      BY <3>1, <2>2, <2>4, <2>7, <2>8 DEF Equipped, Pc
  <2>10. mixed' \subseteq Files \cup Dirs
    BY <2>1, MixingTyped
  <2> QED
    BY <1>1, <2>5, <2>6, <2>8, <2>9, <2>10, TypedByOne DEF Typed
<1> QED
  BY <1>2, <1>3

LEMMA TypedWriteCell ==
  ASSUME Typed, NEW p \in Procs, WriteCell(p)
  PROVE  Typed'
<1> DEFINE out == proc[p].out
           todo == proc[p].todo
           r == [proc[p] EXCEPT !.pos = @ + 1, !.todo = Tail(@)]
<1>1. /\ Pc(p) \in {"copy", "write"} /\ todo # <<>>
      /\ disk' = [disk EXCEPT ![out] = Put(@, proc[p].pos, Head(todo))]
      /\ proc' = [proc EXCEPT ![p] = r]
      /\ dirs' = dirs /\ runs' = runs /\ mixed' = mixed
  BY DEF WriteCell
<1>2. /\ proc[p] \in ProcSet /\ proc[p].pos \in Nat /\ out \in DOMAIN disk
      /\ todo \in Seq(Cells) /\ proc[p].dir \in Dirs
      /\ proc[p].exe \in DOMAIN disk
  BY <1>1 DEF Typed, Equipped, ProcSet
<1>3. Head(todo) \in Cells /\ Tail(todo) \in Seq(Cells)
  BY <1>1, <1>2
<1>4. Put(disk[out], proc[p].pos, Head(todo)) \in Seq(Cells)
  BY <1>2, <1>3, PutCells DEF Typed, FilesTyped
<1>5. FilesTyped' /\ DOMAIN disk' = DOMAIN disk
  BY <1>1, <1>4 DEF Typed, FilesTyped
<1>6. r \in ProcSet
  <2> DEFINE n == proc[p].pos + 1
             t == Tail(todo)
  <2>1. n \in Nat /\ t \in Seq(Cells)
    <3>1. n \in Nat
      BY <1>2
    <3> QED
      BY <3>1, <1>3
  <2>2. r = [proc[p] EXCEPT !.pos = n, !.todo = t]
    OBVIOUS
  <2> HIDE DEF n, t
  <2>3. [proc[p] EXCEPT !.pos = n, !.todo = t] \in ProcSet
    BY <1>2, <2>1 DEF ProcSet
  <2> QED
    BY <2>2, <2>3
<1>7. /\ r.pc = Pc(p) /\ r.exe = proc[p].exe /\ r.out = out /\ r.dir = proc[p].dir
      /\ r.todo = Tail(todo)
  BY <1>2 DEF ProcSet, Pc
<1>8. proc'[p] = r
  BY <1>1 DEF Typed
<1>9. Equipped(p)'
  BY <1>1, <1>2, <1>3, <1>5, <1>7, <1>8 DEF Equipped, Pc
<1> QED
  BY <1>1, <1>5, <1>6, <1>9, TypedByOne DEF Typed

\* A step that changes the directories, the history and its own process only.
LEMMA TypedOwnStep ==
  ASSUME Typed, NEW p \in Procs, NEW r \in ProcSet, proc' = [proc EXCEPT ![p] = r],
         disk' = disk, runs' = runs, dirs' \in [Dirs -> SiteSet],
         mixed' \subseteq Files \cup Dirs, Pc(p) # "idle", r.exe = proc[p].exe,
         r.pc \in {"write"} => /\ r.out \in DOMAIN disk /\ r.dir \in Dirs
                               /\ r.todo \in Seq(Cells),
         r.pc \in {"extract", "cp"} => /\ r.dir \in Dirs
                                       /\ r.todo \in Seq(DOMAIN r.site) /\ r.todo # <<>>,
         r.pc # "copy"
  PROVE  Typed'
<1>1. proc'[p] = r
  BY DEF Typed
<1>2. Equipped(p)'
  BY <1>1 DEF Equipped, Pc, Typed
<1>3. FilesTyped' /\ DOMAIN disk \subseteq DOMAIN disk' /\ runs' \in 0..MaxRuns
  BY DEF Typed, FilesTyped
<1> QED
  BY <1>2, <1>3, TypedByOne

LEMMA TypedPack ==
  ASSUME Typed, NEW p \in Procs, Pack(p)
  PROVE  Typed'
<1> DEFINE site == SiteOf(proc[p].dir)
           t == ZipOf(site) \o Footer(proc[p].size, Len(ZipOf(site)))
           r == [proc[p] EXCEPT !.pc = "write", !.site = site, !.todo = t]
<1>1. Pc(p) = "copy" /\ UNCHANGED <<disk, dirs, runs, mixed>>
  BY DEF Pack
<1>2. proc[p] \in ProcSet /\ proc[p].out \in DOMAIN disk /\ proc[p].dir \in Dirs
  BY <1>1 DEF Typed, Equipped
<1>3. site \in SiteSet
  BY <1>2, SiteOfTyped
<1>4. t \in Seq(Cells)
  <2>1. ZipOf(site) \in Seq(Cells) /\ Len(ZipOf(site)) \in Nat
    BY <1>3, ZipCells
  <2>2. Footer(proc[p].size, Len(ZipOf(site))) \in Seq(Cells)
    BY <1>2, <2>1, FooterCells DEF ProcSet
  <2> QED
    BY <2>1, <2>2
<1> HIDE DEF site, t
<1>5. r \in ProcSet
  BY <1>2, <1>3, <1>4 DEF ProcSet, Stages
<1>6. /\ r.pc = "write" /\ r.exe = proc[p].exe /\ r.out = proc[p].out
      /\ r.dir = proc[p].dir /\ r.todo = t
  BY <1>2 DEF ProcSet
<1>7. CASE Exit(p)
  BY <1>1, <1>7, ExitTyped DEF Typed, FilesTyped
<1>8. CASE ~Exit(p)
  <2>1. proc' = [proc EXCEPT ![p] = r]
    BY <1>8 DEF Pack, site, t
  <2> QED
    BY <1>1, <1>2, <1>4, <1>5, <1>6, <2>1, TypedOwnStep DEF Typed
<1> QED
  BY <1>7, <1>8

\* The files matched by cp or to extract, and the order in which they are written.
LEMMA WalkTyped ==
  ASSUME NEW S \in SUBSET Paths, S # {}
  PROVE  Walk[S] \in Seq(S) /\ Walk[S] \in Seq(Paths) /\ Walk[S] # <<>>
<1>1. Walk[S] \in Seq(S) /\ \A path \in S : \E i \in DOMAIN Walk[S] : Walk[S][i] = path
  BY WalkAssumption
<1> QED
  BY <1>1

LEMMA TypedExtract ==
  ASSUME Typed, NEW p \in Procs, NEW d \in Dirs, Extract(p, d)
  PROVE  Typed'
<1> DEFINE site == OwnFiles(p)
           t == Walk[DOMAIN site]
           r == [proc[p] EXCEPT !.pc = "extract", !.dir = d, !.site = site, !.todo = t]
<1>1. Pc(p) = "started" /\ UNCHANGED <<disk, dirs, runs>> /\ proc[p] \in ProcSet
  BY DEF Extract, Typed
<1>2. CASE Exit(p) /\ UNCHANGED mixed
  BY <1>1, <1>2, ExitTyped DEF Typed, FilesTyped
<1>3. CASE ~(Exit(p) /\ UNCHANGED mixed)
  <2>1. /\ Own(p) # {} /\ DOMAIN site # {}
        /\ proc' = [proc EXCEPT ![p] = r]
        /\ mixed' = MixingDir(p, d)
    BY <1>3 DEF Extract
  <2>2. site \in SiteSet
    BY <2>1, OwnTyped
  <2>3. DOMAIN site \in SUBSET Paths
    BY <2>2, WalkOfSite
  <2>4. t \in Seq(DOMAIN site) /\ t \in Seq(Paths) /\ t # <<>>
    BY <2>1, <2>3, WalkTyped
  <2>5. mixed' \subseteq Files \cup Dirs
    BY <2>1, MixingTyped DEF MixingDir
  <2> HIDE DEF site, t
  <2>6. r \in ProcSet
    BY <1>1, <2>2, <2>4 DEF ProcSet, Stages
  <2>7. r.pc = "extract" /\ r.exe = proc[p].exe /\ r.dir = d /\ r.todo = t /\ r.site = site
    BY <1>1 DEF ProcSet
  <2> QED
    BY <1>1, <2>1, <2>4, <2>5, <2>6, <2>7, TypedOwnStep DEF Typed
<1> QED
  BY <1>2, <1>3

LEMMA TypedCp ==
  ASSUME Typed, NEW p \in Procs, NEW d \in Dirs, NEW pick, Cp(p, d, pick)
  PROVE  Typed'
<1> DEFINE own == OwnFiles(p)
           matched == UNION {FindMatchingFiles(s, pick) : s \in Own(p)}
           site == [path \in matched |-> own[path]]
           t == Walk[matched]
           r == [proc[p] EXCEPT !.pc = "cp", !.dir = d, !.site = site, !.todo = t]
<1>1. Pc(p) = "started" /\ UNCHANGED <<disk, dirs, runs>> /\ proc[p] \in ProcSet
  BY DEF Cp, Typed
<1>2. CASE Exit(p) /\ UNCHANGED mixed
  BY <1>1, <1>2, ExitTyped DEF Typed, FilesTyped
<1>3. CASE ~(Exit(p) /\ UNCHANGED mixed)
  <2>1. /\ matched # {}
        /\ proc' = [proc EXCEPT ![p] = r]
        /\ mixed' = MixingDir(p, d)
    BY <1>3 DEF Cp
  <2>2. Own(p) # {}
    BY <2>1
  <2>3. Own(p) = {own} /\ own \in SiteSet
    BY <2>2, OwnTyped
  <2>4. matched \subseteq DOMAIN own
    BY <2>3 DEF FindMatchingFiles
  <2>5. DOMAIN own \subseteq Paths /\ own \in [DOMAIN own -> Bytes]
    BY <2>3, WalkOfSite
  <2> HIDE DEF matched, own
  <2>6. site \in [matched -> Bytes] /\ matched \in SUBSET Paths
    BY <2>4, <2>5
  <2>7. site \in SiteSet /\ DOMAIN site = matched
    BY <2>6 DEF SiteSet
  <2>8. t \in Seq(DOMAIN site) /\ t \in Seq(Paths) /\ t # <<>>
    BY <2>1, <2>6, <2>7, WalkTyped
  <2>9. mixed' \subseteq Files \cup Dirs
    BY <2>1, MixingTyped DEF MixingDir
  <2> HIDE DEF site, t
  <2>10. r \in ProcSet
    BY <1>1, <2>7, <2>8 DEF ProcSet, Stages
  <2>11. r.pc = "cp" /\ r.exe = proc[p].exe /\ r.dir = d /\ r.todo = t /\ r.site = site
    BY <1>1 DEF ProcSet
  <2> QED
    BY <1>1, <2>1, <2>8, <2>9, <2>10, <2>11, TypedOwnStep DEF Typed
<1> QED
  BY <1>2, <1>3

LEMMA TypedServe ==
  ASSUME Typed, NEW p \in Procs, NEW d \in Dirs \cup {None}, Serve(p, d)
  PROVE  Typed'
<1> DEFINE site == IF d = None THEN OwnFiles(p) ELSE NoFiles
           r == [proc[p] EXCEPT !.pc = "serve", !.dir = d, !.site = site]
<1>1. Pc(p) = "started" /\ UNCHANGED <<disk, dirs, runs, mixed>> /\ proc[p] \in ProcSet
  BY DEF Serve, Typed
<1>2. CASE Exit(p)
  BY <1>1, <1>2, ExitTyped DEF Typed, FilesTyped
<1>3. CASE ~Exit(p)
  <2>1. /\ (d = None /\ Own(p) # {}) \/ d # None
        /\ proc' = [proc EXCEPT ![p] = r]
    BY <1>3 DEF Serve
  <2>2. site \in SiteSet
    BY <2>1, OwnTyped, NoFilesIsSite
  <2> HIDE DEF site
  <2>3. r \in ProcSet
    BY <1>1, <2>2 DEF ProcSet, Stages
  <2>4. r.pc = "serve" /\ r.exe = proc[p].exe
    BY <1>1 DEF ProcSet
  <2> QED
    BY <1>1, <2>1, <2>3, <2>4, TypedOwnStep DEF Typed
<1> QED
  BY <1>2, <1>3

\* A file of the site at hand can be written to a directory under its path or its name.
LEMMA WritingTyped ==
  ASSUME Typed, NEW p \in Procs, Pc(p) \in {"extract", "cp"},
         NEW path \in ToSet(proc[p].todo)
  PROVE  /\ path \in DOMAIN proc[p].site /\ path \in Paths /\ <<Last(path)>> \in Paths
         /\ \A x \in {proc[p].site[path], Torn} :
              /\ Written(proc[p].dir, path, x) \in [Dirs -> SiteSet]
              /\ Written(proc[p].dir, <<Last(path)>>, x) \in [Dirs -> SiteSet]
<1>1. /\ proc[p].dir \in Dirs /\ proc[p].site \in SiteSet
      /\ proc[p].todo \in Seq(DOMAIN proc[p].site)
  BY DEF Typed, Equipped, ProcSet
<1>2. path \in DOMAIN proc[p].site
  BY <1>1 DEF ToSet
<1>3. /\ DOMAIN proc[p].site \subseteq Paths
      /\ proc[p].site \in [DOMAIN proc[p].site -> Bytes]
  BY <1>1, WalkOfSite
<1>4. path \in Paths /\ <<Last(path)>> \in Paths
  BY <1>2, <1>3, PathsAssumption
<1>5. {proc[p].site[path], Torn} \subseteq Bytes
  BY <1>2, <1>3, BytesAssumption
<1> QED
  BY <1>1, <1>2, <1>4, <1>5, WrittenTyped

LEMMA TypedExtractZipFile ==
  ASSUME Typed, NEW p \in Procs, ExtractZipFile(p)
  PROVE  Typed'
<1> DEFINE t == proc[p].todo
           r == [proc[p] EXCEPT !.todo = Tail(t)]
<1>1. /\ Pc(p) = "extract" /\ t # <<>> /\ UNCHANGED <<disk, runs, mixed>>
      /\ \E x \in {proc[p].site[Head(t)], Torn} : dirs' = Written(proc[p].dir, Head(t), x)
      /\ Exit(p) \/ (Len(t) # 1 /\ proc' = [proc EXCEPT ![p] = r])
  BY DEF ExtractZipFile
<1>2. /\ t \in Seq(DOMAIN proc[p].site) /\ proc[p].dir \in Dirs /\ proc[p] \in ProcSet
      /\ DOMAIN proc[p].site \subseteq Paths
  BY <1>1, WalkOfSite DEF Typed, Equipped, ProcSet
<1>3. Head(t) \in ToSet(t)
  BY <1>1, <1>2 DEF ToSet
<1>4. dirs' \in [Dirs -> SiteSet]
  <2>1. PICK x \in {proc[p].site[Head(t)], Torn} : dirs' = Written(proc[p].dir, Head(t), x)
    BY <1>1
  <2>2. Pc(p) \in {"extract", "cp"}
    BY <1>1
  <2>3. \A y \in {proc[p].site[Head(t)], Torn} :
          Written(proc[p].dir, Head(t), y) \in [Dirs -> SiteSet]
    BY <2>2, <1>3, WritingTyped
  <2> QED
    BY <2>1, <2>3
<1>5. CASE Exit(p)
  BY <1>1, <1>4, <1>5, ExitTyped DEF Typed, FilesTyped
<1>6. CASE Len(t) # 1 /\ proc' = [proc EXCEPT ![p] = r]
  <2>1. Tail(t) \in Seq(DOMAIN proc[p].site) /\ Tail(t) # <<>>
    <3> DEFINE S == DOMAIN proc[p].site
    <3>1. t \in Seq(S) /\ t # <<>> /\ Len(t) # 1
      BY <1>1, <1>2, <1>6
    <3> HIDE DEF t, S
    <3>2. Tail(t) \in Seq(S) /\ Len(Tail(t)) = Len(t) - 1 /\ Len(t) \in Nat /\ Len(t) # 0
      BY <3>1, HeadTailProperties, EmptySeq
    <3>3. Len(Tail(t)) # 0
      BY <3>1, <3>2
    <3>4. Tail(t) # <<>>
      BY <3>3, EmptySeq
    <3> QED
      BY <3>2, <3>4 DEF S
  <2>2. Tail(t) \in Seq(Paths)
    BY <2>1, <1>2
  <2>3. /\ r \in ProcSet /\ r.pc = "extract" /\ r.exe = proc[p].exe /\ r.dir = proc[p].dir
        /\ r.site = proc[p].site /\ r.todo = Tail(t)
    BY <1>1, <1>2, <2>2 DEF ProcSet, Pc
  <2> QED
    BY <1>1, <1>2, <1>4, <1>6, <2>1, <2>3, TypedOwnStep DEF Typed
<1> QED
  BY <1>1, <1>5, <1>6

LEMMA TypedCopyFile ==
  ASSUME Typed, NEW p \in Procs, CopyFile(p)
  PROVE  Typed'
<1> DEFINE t == proc[p].todo
<1>1. PICK path \in ToSet(t) :
        LET rest == Walk[ToSet(t) \ {path}]
        IN  /\ \E x \in {proc[p].site[path], Torn} :
                 dirs' = Written(proc[p].dir, <<Last(path)>>, x)
            /\ Exit(p) \/ (rest # <<>> /\ proc' = [proc EXCEPT ![p].todo = rest])
  BY DEF CopyFile
<1> DEFINE rest == Walk[ToSet(t) \ {path}]
           r == [proc[p] EXCEPT !.todo = rest]
<1>2. Pc(p) = "cp" /\ UNCHANGED <<disk, runs, mixed>>
  BY DEF CopyFile
<1>3. /\ t \in Seq(DOMAIN proc[p].site) /\ proc[p].dir \in Dirs /\ proc[p] \in ProcSet
      /\ DOMAIN proc[p].site \subseteq Paths
  BY <1>2, WalkOfSite DEF Typed, Equipped, ProcSet
<1>4. dirs' \in [Dirs -> SiteSet]
  BY <1>1, <1>2, WritingTyped
<1>5. CASE Exit(p)
  BY <1>2, <1>4, <1>5, ExitTyped DEF Typed, FilesTyped
<1>6. CASE rest # <<>> /\ proc' = [proc EXCEPT ![p].todo = rest]
  <2>1. ToSet(t) \ {path} \subseteq DOMAIN proc[p].site
    BY <1>3 DEF ToSet
  <2>2. rest \in Seq(ToSet(t) \ {path})
    BY <2>1, <1>3, WalkAssumption
  <2>3. rest \in Seq(DOMAIN proc[p].site) /\ rest \in Seq(Paths)
    BY <2>1, <2>2, <1>3
  <2> HIDE DEF rest
  <2>4. /\ r \in ProcSet /\ r.pc = "cp" /\ r.exe = proc[p].exe /\ r.dir = proc[p].dir
        /\ r.site = proc[p].site /\ r.todo = rest
    BY <1>2, <1>3, <2>3 DEF ProcSet, Pc
  <2> QED
    BY <1>2, <1>3, <1>4, <1>6, <2>3, <2>4, TypedOwnStep DEF Typed
<1> QED
  BY <1>1, <1>5, <1>6

LEMMA TypedStop ==
  ASSUME Typed, NEW p \in Procs, Stop(p)
  PROVE  Typed'
<1>1. Exit(p) /\ UNCHANGED <<disk, runs, mixed>>
  BY DEF Stop
<1>2. dirs' \in [Dirs -> SiteSet]
  <2>1. CASE UNCHANGED dirs
    BY <2>1 DEF Typed
  <2>2. CASE Pc(p) = "extract" /\ dirs' = Written(proc[p].dir, Head(proc[p].todo), Torn)
    <3>1. Head(proc[p].todo) \in ToSet(proc[p].todo)
      BY <2>2 DEF Typed, Equipped, ToSet
    <3> QED
      BY <2>2, <3>1, WritingTyped
  <2>3. CASE Pc(p) = "cp" /\ \E path \in ToSet(proc[p].todo) :
                               dirs' = Written(proc[p].dir, <<Last(path)>>, Torn)
    BY <2>3, WritingTyped
  <2> QED
    BY <2>1, <2>2, <2>3 DEF Stop
<1> QED
  BY <1>1, <1>2, ExitTyped DEF Typed, FilesTyped

LEMMA TypedStep == Typed /\ [Next]_vars => Typed'
<1> SUFFICES ASSUME Typed, [Next]_vars PROVE Typed'
  OBVIOUS
<1>1. CASE UNCHANGED vars
  BY <1>1 DEF Typed, FilesTyped, Equipped, Pc, vars
<1>2. ASSUME NEW d \in Dirs, Clear(d) PROVE Typed'
  <2>1. dirs' = [dirs EXCEPT ![d] = NoFiles] /\ UNCHANGED <<disk, proc, runs, mixed>>
    BY <1>2 DEF Clear, NoFiles
  <2> QED
    BY <2>1, NoFilesIsSite DEF Typed, FilesTyped, Equipped, Pc
<1>3. ASSUME NEW p \in Procs, BundleEnds(p) \/ StopServing(p) PROVE Typed'
  <2>1. Exit(p) /\ UNCHANGED <<disk, dirs, runs, mixed>>
    BY <1>3 DEF BundleEnds, StopServing
  <2> QED
    BY <2>1, ExitTyped DEF Typed, FilesTyped
<1>4. ASSUME NEW p \in Procs, Command(p) PROVE Typed'
  BY <1>4, TypedCreateBundle, TypedExtract, TypedCp, TypedServe DEF Command
<1> QED
  BY <1>1, <1>2, <1>3, <1>4, TypedRun, TypedWriteCell, TypedPack, TypedExtractZipFile,
     TypedCopyFile, TypedStop DEF Next

LEMMA TypedAlways == Spec => []Typed
  BY TypedInit, TypedStep, PTL DEF Spec

\* Every file is made of cells, every directory holds known paths, and a process that writes
\* has a place to write to and something left to write.
THEOREM TypeCorrect == Spec => []TypeOK
<1>1. ASSUME Typed PROVE TypeOK
  <2>1. \A f \in DOMAIN disk : \A i \in DOMAIN disk[f] : disk[f][i][1] \in Kinds
    BY <1>1, CellKinds DEF Typed, FilesTyped
  <2>2. DOMAIN dirs = Dirs /\ \A d \in Dirs : IsSite(dirs[d])
    BY <1>1, SiteIsSite DEF Typed
  <2>3. ASSUME NEW p \in Procs
        PROVE  /\ Pc(p) \in Stages /\ proc[p].pos \in Nat /\ proc[p].size \in Nat
               /\ Equipped(p)
    BY <1>1 DEF Typed, ProcSet, Pc
  <2> QED
    BY <1>1, <2>1, <2>2, <2>3 DEF TypeOK, Typed, FilesTyped, Equipped
<1> QED
  BY <1>1, TypedAlways, PTL

-----------------------------------------------------------------------------
(* What is on disk.  The executable part that a process copies runs and is   *)
(* plain; as it writes at the end of its file, what the file holds and what  *)
(* is left to write make the whole at all times, unless another process      *)
(* writes the file too, which mixed remembers.                               *)

Intact(f) == f \notin mixed => Plain(disk[f]) \/ Whole(disk[f])

\* The file a process runs stays as it is.
Undisturbed(p) ==
  Pc(p) # "idle" => /\ Executable(disk[proc[p].exe])
                    /\ \A q \in Procs : ~WritesFile(q, proc[p].exe)

Alone(p) ==
  Pc(p) \in {"copy", "write"} /\ proc[p].out \notin mixed =>
    \A q \in Procs : WritesFile(q, proc[p].out) => q = p

Planned(p) == disk[proc[p].out] \o proc[p].todo

CopyPlan(p) ==
  Pc(p) = "copy" /\ proc[p].out \notin mixed =>
    /\ proc[p].pos = Len(disk[proc[p].out])
    /\ Plain(Planned(p)) /\ Executable(Planned(p))
    /\ proc[p].size = Len(Planned(p))

WritePlan(p) ==
  Pc(p) = "write" /\ proc[p].out \notin mixed =>
    /\ proc[p].pos = Len(disk[proc[p].out])
    /\ \E part \in Seq(Cells) :
         Executable(part) /\ Plain(part) /\ Planned(p) = Image(part, proc[p].site)

Fresh(p) == Pc(p) = "started" => proc[p].pos = 0

SoundProc(p) == Fresh(p) /\ Undisturbed(p) /\ Alone(p) /\ CopyPlan(p) /\ WritePlan(p)

Sound ==
  /\ Typed
  /\ \A f \in DOMAIN disk : Intact(f)
  /\ \A p \in Procs : SoundProc(p)

LEMMA SoundInit == Init => Sound
<1> SUFFICES ASSUME Init PROVE Sound
  OBVIOUS
<1>1. \A f \in DOMAIN disk : Intact(f)
  BY ExeIsCells DEF Init, Intact
<1>2. ASSUME NEW p \in Procs PROVE SoundProc(p)
  <2>1. Pc(p) = "idle"
    BY IdleIsProc DEF Init, Pc
  <2> QED
    BY <2>1 DEF SoundProc, Fresh, Undisturbed, Alone, CopyPlan, WritePlan
<1> QED
  BY <1>1, <1>2, TypedInit DEF Sound

\* A step after which the process writes no binary, and no binary has changed.
LEMMA SoundQuiet ==
  ASSUME Sound, Typed', NEW p \in Procs, NEW r \in ProcSet, proc' = [proc EXCEPT ![p] = r],
         disk' = disk, \A f \in Files : f \in mixed' <=> f \in mixed,
         r.pc \notin {"copy", "write"}, r.pc = "started" => r.pos = 0,
         r.pc # "idle" => /\ r.exe \in DOMAIN disk /\ Executable(disk[r.exe])
                          /\ \A q \in Procs : ~WritesFile(q, r.exe)
  PROVE  Sound'
<1>1. proc'[p] = r /\ \A q \in Procs : q # p => proc'[q] = proc[q]
  BY DEF Sound, Typed
<1>2. \A q \in Procs : \A f : WritesFile(q, f)' => q # p /\ WritesFile(q, f)
  BY <1>1 DEF WritesFile, Pc
<1>3. \A f \in DOMAIN disk' : Intact(f)'
  BY DEF Sound, Intact, Typed, FilesTyped
<1>4. ASSUME NEW q \in Procs, q # p PROVE SoundProc(q)'
  <2>1. proc'[q] = proc[q] /\ SoundProc(q) /\ Equipped(q)
    BY <1>1, <1>4 DEF Sound, Typed
  <2>2. Undisturbed(q)' /\ Fresh(q)'
    BY <1>2, <2>1 DEF SoundProc, Undisturbed, Fresh, Pc
  <2>3. Pc(q) \in {"copy", "write"} => proc[q].out \in Files
    BY <2>1 DEF Equipped, Sound, Typed, FilesTyped
  <2>4. Alone(q)'
    BY <1>2, <2>1, <2>3 DEF SoundProc, Alone, Pc
  <2>5. CopyPlan(q)' /\ WritePlan(q)'
    BY <2>1, <2>3 DEF SoundProc, CopyPlan, WritePlan, Planned, Pc
  <2> QED
    BY <2>2, <2>4, <2>5 DEF SoundProc
<1>5. SoundProc(p)'
  BY <1>1, <1>2 DEF SoundProc, Fresh, Undisturbed, Alone, CopyPlan, WritePlan, Pc
<1> QED
  BY <1>3, <1>4, <1>5 DEF Sound

\* The process ends.
LEMMA SoundExit ==
  ASSUME Sound, Typed', NEW p \in Procs, Exit(p), disk' = disk, mixed' = mixed
  PROVE  Sound'
  BY SoundQuiet, IdleIsProc DEF Exit

LEMMA SoundRun ==
  ASSUME Sound, Typed', NEW p \in Procs, NEW f \in Files, Run(p, f)
  PROVE  Sound'
<1> DEFINE r == [Idle EXCEPT !.pc = "started", !.exe = f]
<1>1. r \in ProcSet /\ r.pc = "started" /\ r.exe = f
  BY IdleIsProc DEF ProcSet, Stages
<1>2. r.pos = 0
  BY DEF Idle
<1>3. proc' = [proc EXCEPT ![p] = r]
  BY DEF Run
<1> HIDE DEF r
<1>4. /\ disk' = disk /\ mixed' = mixed /\ f \in DOMAIN disk /\ Executable(disk[f])
      /\ \A q \in Procs : ~WritesFile(q, f)
  BY DEF Run
<1> QED
  BY <1>1, <1>3, <1>4, <1>2, SoundQuiet

\* A directory is not a binary.
LEMMA MixingDirs ==
  ASSUME NEW p \in Procs, NEW d \in Dirs, mixed' = MixingDir(p, d)
  PROVE  \A f \in Files : f \in mixed' <=> f \in mixed
  BY FilesAssumption DEF MixingDir, Mixing

\* What is left to show of a step of p that changes no binary.
LEMMA SoundOwnStep ==
  ASSUME Sound, Typed', NEW p \in Procs, NEW r \in ProcSet, proc' = [proc EXCEPT ![p] = r],
         disk' = disk, \A f \in Files : f \in mixed' <=> f \in mixed,
         Pc(p) # "idle", r.exe = proc[p].exe, r.pc \notin {"started", "copy", "write"}
  PROVE  Sound'
<1>1. SoundProc(p) /\ Equipped(p)
  BY DEF Sound, Typed
<1>2. /\ r.exe \in DOMAIN disk /\ Executable(disk[r.exe])
      /\ \A q \in Procs : ~WritesFile(q, r.exe)
  BY <1>1 DEF SoundProc, Undisturbed, Equipped
<1> QED
  BY <1>2, SoundQuiet

LEMMA SoundDirectories ==
  ASSUME Sound, Typed', NEW p \in Procs,
         \/ \E d \in Dirs : Extract(p, d)
         \/ \E d \in Dirs, pick \in Picks : Cp(p, d, pick)
         \/ \E d \in Dirs \cup {None} : Serve(p, d)
         \/ ExtractZipFile(p) \/ CopyFile(p)
  PROVE  Sound'
<1>1. /\ disk' = disk /\ Pc(p) # "idle"
      /\ Exit(p) \/ \E r : /\ proc' = [proc EXCEPT ![p] = r]
                           /\ r.exe = proc[p].exe /\ r.pc \notin {"started", "copy", "write"}
      /\ \A f \in Files : f \in mixed' <=> f \in mixed
  <2>1. CASE \E d \in Dirs : Extract(p, d)
    <3>1. PICK d \in Dirs : Extract(p, d)
      BY <2>1
    <3> DEFINE r == [proc[p] EXCEPT !.pc = "extract", !.dir = d, !.site = OwnFiles(p),
                                    !.todo = Walk[DOMAIN OwnFiles(p)]]
    <3>2. r.exe = proc[p].exe /\ r.pc = "extract"
      BY DEF Sound, Typed, ProcSet
    <3>3. mixed' = mixed \/ mixed' = MixingDir(p, d)
      BY <3>1 DEF Extract
    <3>4. Exit(p) \/ proc' = [proc EXCEPT ![p] = r]
      BY <3>1 DEF Extract
    <3>5. disk' = disk /\ Pc(p) = "started"
      BY <3>1 DEF Extract
    <3> HIDE DEF r
    <3> QED
      BY <3>2, <3>3, <3>4, <3>5, MixingDirs
  <2>2. CASE \E d \in Dirs, pick \in Picks : Cp(p, d, pick)
    <3>1. PICK d \in Dirs, pick \in Picks : Cp(p, d, pick)
      BY <2>2
    <3> DEFINE matched == UNION {FindMatchingFiles(s, pick) : s \in Own(p)}
               r == [proc[p] EXCEPT !.pc = "cp", !.dir = d,
                                    !.site = [path \in matched |-> OwnFiles(p)[path]],
                                    !.todo = Walk[matched]]
    <3>2. r.exe = proc[p].exe /\ r.pc = "cp"
      BY DEF Sound, Typed, ProcSet
    <3>3. mixed' = mixed \/ mixed' = MixingDir(p, d)
      BY <3>1 DEF Cp
    <3>4. Exit(p) \/ proc' = [proc EXCEPT ![p] = r]
      BY <3>1 DEF Cp
    <3>5. disk' = disk /\ Pc(p) = "started"
      BY <3>1 DEF Cp
    <3> HIDE DEF r
    <3> QED
      BY <3>2, <3>3, <3>4, <3>5, MixingDirs
  <2>3. CASE \E d \in Dirs \cup {None} : Serve(p, d)
    <3>1. PICK d \in Dirs \cup {None} : Serve(p, d)
      BY <2>3
    <3> DEFINE r == [proc[p] EXCEPT !.pc = "serve", !.dir = d,
                                    !.site = IF d = None THEN OwnFiles(p) ELSE NoFiles]
    <3>2. r.exe = proc[p].exe /\ r.pc = "serve"
      BY DEF Sound, Typed, ProcSet
    <3>3. Exit(p) \/ proc' = [proc EXCEPT ![p] = r]
      BY <3>1 DEF Serve
    <3>4. disk' = disk /\ mixed' = mixed /\ Pc(p) = "started"
      BY <3>1 DEF Serve
    <3> HIDE DEF r
    <3> QED
      BY <3>2, <3>3, <3>4
  <2>4. CASE ExtractZipFile(p)
    <3> DEFINE r == [proc[p] EXCEPT !.todo = Tail(proc[p].todo)]
    <3>1. disk' = disk /\ mixed' = mixed /\ Pc(p) = "extract"
      BY <2>4 DEF ExtractZipFile
    <3>2. r.exe = proc[p].exe /\ r.pc = Pc(p)
      BY DEF Sound, Typed, ProcSet, Pc
    <3>3. Exit(p) \/ proc' = [proc EXCEPT ![p] = r]
      BY <2>4 DEF ExtractZipFile
    <3> HIDE DEF r
    <3> QED
      BY <3>1, <3>2, <3>3
  <2>5. CASE CopyFile(p)
    <3>1. PICK path \in ToSet(proc[p].todo) :
            Exit(p) \/ proc' = [proc EXCEPT ![p].todo = Walk[ToSet(proc[p].todo) \ {path}]]
      BY <2>5 DEF CopyFile
    <3> DEFINE r == [proc[p] EXCEPT !.todo = Walk[ToSet(proc[p].todo) \ {path}]]
    <3>2. disk' = disk /\ mixed' = mixed /\ Pc(p) = "cp"
      BY <2>5 DEF CopyFile
    <3>3. r.exe = proc[p].exe /\ r.pc = Pc(p)
      BY DEF Sound, Typed, ProcSet, Pc
    <3>4. Exit(p) \/ proc' = [proc EXCEPT ![p] = r]
      BY <3>1
    <3> HIDE DEF r
    <3> QED
      BY <3>2, <3>3, <3>4
  <2> QED
    BY <2>1, <2>2, <2>3, <2>4, <2>5
<1>2. CASE Exit(p)
  BY <1>1, <1>2, IdleIsProc, SoundQuiet DEF Exit
<1>3. CASE ~Exit(p)
  <2>1. PICK r : proc' = [proc EXCEPT ![p] = r] /\ r.exe = proc[p].exe
                 /\ r.pc \notin {"started", "copy", "write"}
    BY <1>1, <1>3
  <2>2. r \in ProcSet
    BY <2>1 DEF Sound, Typed
  <2> QED
    BY <1>1, <2>1, <2>2, SoundOwnStep
<1> QED
  BY <1>2, <1>3

\* The output becomes a file of its one writer, unless its source is mixed or another
\* process writes it.
LEMMA MixingOut ==
  ASSUME NEW out \in Files, NEW f, NEW others \in BOOLEAN, mixed' = Mixing(out, f, others)
  PROVE  /\ out \notin mixed' => ~others /\ f \notin mixed
         /\ \A g : g # out => (g \in mixed' <=> g \in mixed)
  BY DEF Mixing

LEMMA SoundCreateBundle ==
  ASSUME Sound, Typed', NEW p \in Procs, NEW d \in Dirs, NEW out \in Files,
         CreateBundle(p, d, out)
  PROVE  Sound'
<1> DEFINE exe == proc[p].exe
           c == disk[exe]
           todo(n) == SubSeq(c, 1, IF n <= Len(c) THEN n ELSE Len(c))
           r(n) == [proc[p] EXCEPT !.pc = "copy", !.out = out, !.dir = d, !.size = n,
                                   !.todo = todo(n)]
<1>1. Pc(p) = "started" /\ proc[p] \in ProcSet /\ exe \in DOMAIN disk /\ c \in Seq(Cells)
  <2>1. Pc(p) = "started"
    BY DEF CreateBundle
  <2> QED
    BY <2>1 DEF Sound, Typed, Equipped, FilesTyped
<1>2. CASE Exit(p) /\ UNCHANGED <<disk, mixed>>
  BY <1>2, SoundExit
<1>3. CASE ~(Exit(p) /\ UNCHANGED <<disk, mixed>>)
  <2>1. /\ \A q \in Procs : ~Runs(q, out)
        /\ \E n \in GetBinarySize(c) :
             /\ proc' = [proc EXCEPT ![p].pc = "copy", ![p].out = out, ![p].dir = d,
                           ![p].size = n, ![p].todo = todo(n)]
             /\ disk' = [f \in DOMAIN disk \cup {out} |-> IF f = out THEN <<>> ELSE disk[f]]
             /\ mixed' = Mixing(out, exe, \E q \in Procs : WritesFile(q, out))
    BY <1>3 DEF CreateBundle
  <2>2. PICK n \in GetBinarySize(c) :
          /\ proc' = [proc EXCEPT ![p] = r(n)]
          /\ disk' = [f \in DOMAIN disk \cup {out} |-> IF f = out THEN <<>> ELSE disk[f]]
          /\ mixed' = Mixing(out, exe, \E q \in Procs : WritesFile(q, out))
    BY <2>1
  <2>3. /\ r(n).pc = "copy" /\ r(n).out = out /\ r(n).todo = todo(n) /\ r(n).size = n
        /\ r(n).exe = exe /\ r(n).pos = proc[p].pos
    BY <1>1 DEF ProcSet
  <2>4. proc'[p] = r(n) /\ \A q \in Procs : q # p => proc'[q] = proc[q]
    BY <2>2 DEF Sound, Typed
  <2>5. /\ out \notin mixed' => /\ \A q \in Procs : ~WritesFile(q, out)
                                /\ exe \notin mixed
        /\ \A g : g # out => (g \in mixed' <=> g \in mixed)
    BY <2>2, MixingOut
  <2>6. /\ disk'[out] = <<>>
        /\ \A f \in DOMAIN disk : f # out => f \in DOMAIN disk' /\ disk'[f] = disk[f]
        /\ \A f \in DOMAIN disk' : f # out => f \in DOMAIN disk
    BY <2>2
  <2> HIDE DEF r, todo, c, exe
  <2>7. \A f \in DOMAIN disk' : Intact(f)'
    <3>1. Plain(disk'[out])
      BY <2>6 DEF Plain
    <3> QED
      BY <3>1, <2>5, <2>6 DEF Intact, Sound
  <2>8. \A q \in Procs : \A f : q # p => (WritesFile(q, f)' <=> WritesFile(q, f))
    BY <2>4 DEF WritesFile, Pc
  <2>9. \A f : WritesFile(p, f)' <=> f = out
    BY <2>3, <2>4 DEF WritesFile, Pc
  <2>10. \A q \in Procs : Pc(q) # "idle" => proc[q].exe # out
    BY <2>1 DEF Runs
  <2>11. ASSUME NEW q \in Procs, q # p PROVE SoundProc(q)'
    <3>1. proc'[q] = proc[q] /\ SoundProc(q) /\ Equipped(q)
      BY <2>4, <2>11 DEF Sound, Typed
    <3>2. Undisturbed(q)' /\ Fresh(q)'
      <4>1. ASSUME Pc(q) # "idle"
            PROVE  /\ disk'[proc[q].exe] = disk[proc[q].exe]
                   /\ \A e : e = proc[q].exe => \A w \in Procs : ~WritesFile(w, e)'
        <5>1. proc[q].exe # out /\ proc[q].exe \in DOMAIN disk
          BY <4>1, <2>10, <3>1 DEF Equipped
        <5>2. \A w \in Procs : ~WritesFile(w, proc[q].exe)
          BY <4>1, <3>1 DEF SoundProc, Undisturbed
        <5> QED
          BY <5>1, <5>2, <2>6, <2>8, <2>9
      <4> QED
        BY <3>1, <4>1 DEF SoundProc, Undisturbed, Fresh, Pc
    <3>3. CASE Pc(q) \in {"copy", "write"}
      <4>1. WritesFile(q, proc[q].out) /\ proc[q].out \in DOMAIN disk
        BY <3>1, <3>3 DEF WritesFile, Equipped
      <4>2. CASE proc[q].out = out
        <5>1. out \in mixed'
          BY <4>1, <4>2, <2>5
        <5> QED
          BY <3>1, <3>2, <4>2, <5>1 DEF SoundProc, Alone, CopyPlan, WritePlan, Pc
      <4>3. CASE proc[q].out # out
        <5>1. /\ disk'[proc[q].out] = disk[proc[q].out]
              /\ proc[q].out \in mixed' <=> proc[q].out \in mixed
          BY <4>1, <4>3, <2>5, <2>6
        <5>2. \A o : o = proc[q].out =>
                \A w \in Procs : WritesFile(w, o)' => WritesFile(w, o)
          BY <4>3, <2>8, <2>9
        <5>3. Alone(q)'
          BY <3>1, <5>1, <5>2 DEF SoundProc, Alone, Pc
        <5>4. CopyPlan(q)' /\ WritePlan(q)'
          BY <3>1, <5>1 DEF SoundProc, CopyPlan, WritePlan, Planned, Pc
        <5> QED
          BY <3>2, <5>3, <5>4 DEF SoundProc
      <4> QED
        BY <4>2, <4>3
    <3>4. CASE Pc(q) \notin {"copy", "write"}
      BY <3>1, <3>2, <3>4 DEF SoundProc, Alone, CopyPlan, WritePlan, Pc
    <3> QED
      BY <3>3, <3>4
  <2>12. SoundProc(p)'
    <3>1. /\ Executable(c) /\ exe # out
          /\ \A q \in Procs : ~WritesFile(q, exe)
      BY <1>1, <2>10 DEF Sound, SoundProc, Undisturbed, c, exe
    <3>2. Undisturbed(p)'
      <4>1. proc'[p].exe = exe /\ disk'[exe] = c
        BY <1>1, <2>3, <2>4, <2>6, <3>1 DEF c
      <4>2. \A e : e = exe => \A w \in Procs : ~WritesFile(w, e)'
        BY <3>1, <2>8, <2>9
      <4> QED
        BY <3>1, <4>1, <4>2 DEF Undisturbed
    <3>3. Alone(p)'
      BY <2>3, <2>4, <2>5, <2>8 DEF Alone
    <3>4. CopyPlan(p)'
      <4> SUFFICES ASSUME out \notin mixed'
                   PROVE  /\ r(n).pos = Len(disk'[out])
                          /\ Plain(disk'[out] \o todo(n)) /\ Executable(disk'[out] \o todo(n))
                          /\ n = Len(disk'[out] \o todo(n))
        BY <2>3, <2>4 DEF CopyPlan, Planned
      <4>1. Plain(c) \/ Whole(c)
        BY <1>1, <2>5 DEF Sound, Intact, c
      <4>2. /\ n \in 0..Len(c) /\ SubSeq(c, 1, n) \in Seq(Cells) /\ Len(SubSeq(c, 1, n)) = n
            /\ Plain(SubSeq(c, 1, n)) /\ Executable(SubSeq(c, 1, n))
        BY <1>1, <3>1, <4>1, PartOf
      <4>3. todo(n) = SubSeq(c, 1, n)
        BY <1>1, <4>2 DEF todo
      <4>4. disk'[out] \o todo(n) = todo(n)
        BY <2>6, <4>2, <4>3, ConcatEmptySeq
      <4>5. r(n).pos = 0
        BY <1>1, <2>3 DEF Sound, SoundProc, Fresh
      <4>6. Len(disk'[out]) = 0
        BY <2>6
      <4> QED
        BY <4>2, <4>3, <4>4, <4>5, <4>6
    <3>5. WritePlan(p)' /\ Fresh(p)'
      BY <2>3, <2>4 DEF WritePlan, Fresh, Pc
    <3> QED
      BY <3>2, <3>3, <3>4, <3>5 DEF SoundProc
  <2> QED
    BY <2>7, <2>11, <2>12 DEF Sound
<1> QED
  BY <1>2, <1>3

LEMMA PlainPrefix ==
  ASSUME NEW c \in Seq(Cells), NEW t \in Seq(Cells), Plain(c \o t)
  PROVE  Plain(c)
<1>1. Len(c \o t) = Len(c) + Len(t) /\ Len(c) \in Nat /\ Len(t) \in Nat
  OBVIOUS
<1>2. \A i \in 1..Len(c) : (c \o t)[i] = c[i]
  OBVIOUS
<1> HIDE DEF Plain
<1>3. \A i \in 1..Len(c) : (c \o t)[i] # Magic
  BY <1>1 DEF Plain
<1> QED
  BY <1>2, <1>3 DEF Plain

\* A cell written to a file that no other process writes: the file is plain before, and
\* after it plain or, with the last cell, the image of the site.
LEMMA WriteOutcome ==
  ASSUME Sound, NEW p \in Procs, WriteCell(p), proc[p].out \notin mixed
  PROVE  LET out == proc[p].out
             todo == proc[p].todo
         IN  /\ Plain(disk[out])
             /\ disk'[out] \in Seq(Cells) /\ Len(disk'[out]) = proc[p].pos + 1
             /\ disk'[out] \o Tail(todo) = Planned(p)
             /\ \/ Plain(disk'[out])
                \/ /\ Pc(p) = "write"
                   /\ \E part \in Seq(Cells) :
                        Executable(part) /\ Plain(part) /\ disk'[out] = Image(part, proc[p].site)
<1> DEFINE out == proc[p].out
           c == disk[out]
           t == proc[p].todo
           c1 == Append(c, Head(t))
<1>1. /\ Pc(p) \in {"copy", "write"} /\ t # <<>>
      /\ disk' = [disk EXCEPT ![out] = Put(@, proc[p].pos, Head(t))]
  BY DEF WriteCell
<1>2. out \in DOMAIN disk /\ c \in Seq(Cells) /\ t \in Seq(Cells) /\ proc[p].site \in SiteSet
  BY <1>1 DEF Sound, Typed, Equipped, FilesTyped, ProcSet
<1>3. proc[p].pos = Len(c) /\ Planned(p) = c \o t
  BY <1>1 DEF Sound, SoundProc, CopyPlan, WritePlan, Planned
<1>4. /\ Head(t) \in Cells /\ Tail(t) \in Seq(Cells) /\ c1 \in Seq(Cells)
      /\ Len(c1) = Len(c) + 1 /\ c1 \o Tail(t) = c \o t
  BY <1>1, <1>2, WriteSplit
<1>5. disk'[out] = c1
  BY <1>1, <1>2, <1>3, <1>4, PutAtEnd
<1> HIDE DEF c1
<1>6. CASE Pc(p) = "copy"
  <2>1. Plain(c \o t)
    BY <1>3, <1>6 DEF Sound, SoundProc, CopyPlan
  <2>2. Plain(c)
    BY <1>2, <2>1, PlainPrefix
  <2>3. Plain(c1)
    BY <1>4, <2>1, PlainPrefix
  <2> QED
    BY <1>3, <1>4, <1>5, <2>2, <2>3
<1>7. CASE Pc(p) = "write"
  <2>1. PICK part \in Seq(Cells) :
          Executable(part) /\ Plain(part) /\ c \o t = Image(part, proc[p].site)
    BY <1>3, <1>7 DEF Sound, SoundProc, WritePlan
  <2>2. Plain(c)
    BY <1>1, <1>2, <2>1, PrefixPlain
  <2>3. CASE Tail(t) = <<>>
    <3>1. c1 = Image(part, proc[p].site)
      BY <2>1, <2>3, <1>4, ConcatEmptySeq
    <3> QED
      BY <1>3, <1>4, <1>5, <1>7, <2>1, <2>2, <3>1
  <2>4. CASE Tail(t) # <<>>
    <3>1. Plain(c1)
      BY <1>2, <1>4, <2>1, <2>4, PrefixPlain
    <3> QED
      BY <1>3, <1>4, <1>5, <2>2, <3>1
  <2> QED
    BY <2>3, <2>4
<1> QED
  BY <1>1, <1>6, <1>7

LEMMA SoundWriteCell ==
  ASSUME Sound, Typed', NEW p \in Procs, WriteCell(p)
  PROVE  Sound'
<1> DEFINE out == proc[p].out
           t == proc[p].todo
           r == [proc[p] EXCEPT !.pos = @ + 1, !.todo = Tail(@)]
<1>1. /\ Pc(p) \in {"copy", "write"} /\ WritesFile(p, out)
      /\ disk' = [disk EXCEPT ![out] = Put(@, proc[p].pos, Head(t))]
      /\ proc' = [proc EXCEPT ![p] = r] /\ mixed' = mixed
  BY DEF WriteCell, WritesFile
<1>2. proc[p] \in ProcSet /\ out \in DOMAIN disk
  BY <1>1 DEF Sound, Typed, Equipped
<1>3. /\ r.pc = Pc(p) /\ r.exe = proc[p].exe /\ r.out = out /\ r.pos = proc[p].pos + 1
      /\ r.todo = Tail(t) /\ r.site = proc[p].site /\ r.size = proc[p].size
  BY <1>2 DEF ProcSet, Pc
<1>4. proc'[p] = r /\ \A q \in Procs : q # p => proc'[q] = proc[q]
  BY <1>1 DEF Sound, Typed
<1>5. \A f : f # out => disk'[f] = disk[f]
  BY <1>1
<1>6. DOMAIN disk' = DOMAIN disk
  BY <1>1
<1>7. \A q \in Procs : \A f : WritesFile(q, f)' <=> WritesFile(q, f)
  BY <1>3, <1>4 DEF WritesFile, Pc
<1>8. \A f \in DOMAIN disk' : Intact(f)'
  <2>1. ASSUME out \notin mixed PROVE Plain(disk'[out]) \/ Whole(disk'[out])
    <3>1. proc[p].site \in SiteSet
      BY <1>2 DEF ProcSet
    <3>2. \/ Plain(disk'[out])
          \/ \E part \in Seq(Cells) :
               Executable(part) /\ Plain(part) /\ disk'[out] = Image(part, proc[p].site)
      BY <2>1, WriteOutcome
    <3> QED
      BY <3>1, <3>2 DEF Whole
  <2> QED
    BY <2>1, <1>1, <1>5, <1>6 DEF Sound, Intact
<1> HIDE DEF r, t
<1>9. ASSUME NEW q \in Procs, q # p PROVE SoundProc(q)'
  <2>1. proc'[q] = proc[q] /\ SoundProc(q) /\ Pc(q)' = Pc(q)
    BY <1>4, <1>9 DEF Sound, Pc
  <2>2. Undisturbed(q)' /\ Fresh(q)'
    <3>1. Pc(q) # "idle" => proc[q].exe # out
      BY <1>1, <2>1 DEF SoundProc, Undisturbed
    <3> QED
      BY <1>5, <1>7, <2>1, <3>1 DEF SoundProc, Undisturbed, Fresh
  <2>3. Alone(q)'
    BY <1>1, <1>7, <2>1 DEF SoundProc, Alone
  <2>4. CopyPlan(q)' /\ WritePlan(q)'
    <3>1. CASE Pc(q) \in {"copy", "write"} /\ proc[q].out \notin mixed
      <4>1. proc[q].out # out
        BY <1>1, <1>9, <2>1, <3>1 DEF SoundProc, Alone
      <4>2. disk'[proc[q].out] = disk[proc[q].out]
        BY <1>5, <4>1
      <4>3. Planned(q)' = Planned(q)
        BY <2>1, <4>2 DEF Planned
      <4> QED
        BY <1>1, <2>1, <4>2, <4>3 DEF SoundProc, CopyPlan, WritePlan
    <3>2. CASE ~(Pc(q) \in {"copy", "write"} /\ proc[q].out \notin mixed)
      BY <1>1, <2>1, <3>2 DEF CopyPlan, WritePlan
    <3> QED
      BY <3>1, <3>2
  <2> QED
    BY <2>2, <2>3, <2>4 DEF SoundProc
<1>10. SoundProc(p)'
  <2>1. SoundProc(p) /\ Pc(p)' = Pc(p)
    BY <1>3, <1>4 DEF Sound, Pc
  <2>2. Undisturbed(p)' /\ Fresh(p)'
    <3>1. proc[p].exe # out /\ Pc(p) # "idle" /\ Pc(p) # "started"
      BY <1>1, <2>1 DEF SoundProc, Undisturbed
    <3> QED
      BY <1>3, <1>4, <1>5, <1>7, <2>1, <3>1 DEF SoundProc, Undisturbed, Fresh
  <2>3. Alone(p)'
    BY <1>1, <1>3, <1>4, <1>7, <2>1 DEF SoundProc, Alone
  <2>4. CopyPlan(p)' /\ WritePlan(p)'
    <3>1. CASE out \notin mixed
      <4>1. Len(disk'[out]) = proc[p].pos + 1 /\ disk'[out] \o Tail(t) = Planned(p)
        BY <3>1, WriteOutcome DEF t
      <4>2. Planned(p)' = Planned(p)
        BY <1>3, <1>4, <4>1 DEF Planned
      <4> QED
        BY <1>1, <1>3, <1>4, <2>1, <3>1, <4>1, <4>2 DEF SoundProc, CopyPlan, WritePlan
    <3>2. CASE out \in mixed
      BY <1>1, <1>3, <1>4, <3>2 DEF CopyPlan, WritePlan
    <3> QED
      BY <3>1, <3>2
  <2> QED
    BY <2>2, <2>3, <2>4 DEF SoundProc
<1> QED
  BY <1>8, <1>9, <1>10 DEF Sound

LEMMA SoundPack ==
  ASSUME Sound, Typed', NEW p \in Procs, Pack(p)
  PROVE  Sound'
<1> DEFINE out == proc[p].out
           c == disk[out]
           site == SiteOf(proc[p].dir)
           t == ZipOf(site) \o Footer(proc[p].size, Len(ZipOf(site)))
           r == [proc[p] EXCEPT !.pc = "write", !.site = site, !.todo = t]
<1>1. Pc(p) = "copy" /\ proc[p].todo = <<>> /\ UNCHANGED <<disk, dirs, runs, mixed>>
  BY DEF Pack
<1>2. CASE Exit(p)
  BY <1>1, <1>2, SoundExit
<1>3. CASE ~Exit(p)
  <2>1. proc' = [proc EXCEPT ![p] = r]
    BY <1>3 DEF Pack
  <2>2. /\ proc[p] \in ProcSet /\ proc[p].dir \in Dirs /\ out \in DOMAIN disk
        /\ c \in Seq(Cells)
    BY <1>1 DEF Sound, Typed, Equipped, FilesTyped
  <2>3. site \in SiteSet
    BY <2>2, SiteOfTyped DEF Sound
  <2>4. /\ r.pc = "write" /\ r.exe = proc[p].exe /\ r.out = out /\ r.pos = proc[p].pos
        /\ r.todo = t /\ r.site = site
    BY <2>2 DEF ProcSet
  <2>5. proc'[p] = r /\ \A q \in Procs : q # p => proc'[q] = proc[q]
    BY <2>1 DEF Sound, Typed
  <2> HIDE DEF r, t, site
  <2>6. \A q \in Procs : \A f : WritesFile(q, f)' <=> WritesFile(q, f)
    BY <1>1, <2>4, <2>5 DEF WritesFile, Pc
  <2>7. \A f \in DOMAIN disk' : Intact(f)'
    BY <1>1 DEF Sound, Intact
  <2>8. ASSUME NEW q \in Procs PROVE Undisturbed(q)' /\ Fresh(q)' /\ Alone(q)'
    <3>1. SoundProc(q)
      BY DEF Sound
    <3>2. CASE q = p
      BY <1>1, <2>4, <2>5, <2>6, <3>1, <3>2 DEF SoundProc, Undisturbed, Fresh, Alone, Pc
    <3>3. CASE q # p
      BY <1>1, <2>5, <2>6, <3>1, <3>3 DEF SoundProc, Undisturbed, Fresh, Alone, Pc
    <3> QED
      BY <3>2, <3>3
  <2>9. ASSUME NEW q \in Procs, q # p PROVE CopyPlan(q)' /\ WritePlan(q)'
    BY <1>1, <2>5, <2>9 DEF Sound, SoundProc, CopyPlan, WritePlan, Planned, Pc
  <2>10. CopyPlan(p)' /\ WritePlan(p)'
    <3>1. CopyPlan(p)'
      BY <2>4, <2>5 DEF CopyPlan, Pc
    <3>2. WritePlan(p)'
      <4> SUFFICES ASSUME out \notin mixed
                   PROVE  /\ r.pos = Len(c)
                          /\ Executable(c) /\ Plain(c) /\ c \o t = Image(c, site)
        BY <1>1, <2>2, <2>4, <2>5 DEF WritePlan, Planned, Pc
      <4>1. Planned(p) = c
        BY <1>1, <2>2, ConcatEmptySeq DEF Planned
      <4>2. /\ proc[p].pos = Len(c) /\ Plain(c) /\ Executable(c) /\ proc[p].size = Len(c)
        BY <1>1, <4>1 DEF Sound, SoundProc, CopyPlan
      <4>3. ZipOf(site) \in Seq(Cells) /\ Len(ZipOf(site)) \in Nat /\ Len(c) \in Nat
        BY <2>2, <2>3, ZipCells
      <4>4. Footer(Len(c), Len(ZipOf(site))) \in Seq(Cells)
        BY <4>3, FooterCells
      <4>5. c \o (ZipOf(site) \o Footer(Len(c), Len(ZipOf(site)))) = Image(c, site)
        <5> DEFINE z == ZipOf(site)
                   foot == Footer(Len(c), Len(z))
        <5>1. c \in Seq(Cells) /\ z \in Seq(Cells) /\ foot \in Seq(Cells)
          BY <2>2, <4>3, <4>4
        <5>2. Image(c, site) = (c \o z) \o foot
          BY DEF Image
        <5> HIDE DEF c, z, foot
        <5>3. c \o (z \o foot) = (c \o z) \o foot
          BY <5>1, ConcatAssociative
        <5> QED
          BY <5>2, <5>3 DEF z, foot
      <4> QED
        BY <2>4, <4>2, <4>5 DEF t
    <3> QED
      BY <3>1, <3>2
  <2> QED
    BY <2>7, <2>8, <2>9, <2>10 DEF Sound, SoundProc
<1> QED
  BY <1>2, <1>3

LEMMA SoundStep == Sound /\ [Next]_vars => Sound'
<1> SUFFICES ASSUME Sound, [Next]_vars PROVE Sound'
  OBVIOUS
<1>1. Typed'
  BY TypedStep DEF Sound
<1>2. CASE UNCHANGED <<disk, proc, mixed>>
  BY <1>1, <1>2 DEF Sound, SoundProc, Intact, Fresh, Undisturbed, Alone, CopyPlan, WritePlan,
                    Planned, WritesFile, Pc
<1>3. ASSUME NEW d \in Dirs, Clear(d) PROVE Sound'
  BY <1>2, <1>3 DEF Clear
<1>4. ASSUME NEW p \in Procs, BundleEnds(p) \/ StopServing(p) \/ Stop(p) PROVE Sound'
  BY <1>1, <1>4, SoundExit DEF BundleEnds, StopServing, Stop
<1>5. ASSUME NEW p \in Procs, Command(p) PROVE Sound'
  BY <1>1, <1>5, SoundCreateBundle, SoundDirectories DEF Command
<1>6. ASSUME NEW p \in Procs, ExtractZipFile(p) \/ CopyFile(p) PROVE Sound'
  BY <1>1, <1>6, SoundDirectories
<1>7. CASE UNCHANGED vars
  BY <1>2, <1>7 DEF vars
<1> QED
  BY <1>1, <1>3, <1>4, <1>5, <1>6, <1>7, SoundRun, SoundWriteCell, SoundPack DEF Next

LEMMA SoundAlways == Spec => []Sound
  BY SoundInit, SoundStep, PTL DEF Spec

-----------------------------------------------------------------------------
(* What follows of the files on disk. *)

\* A file that says it is bundled is an executable part that runs and is not bundled itself,
\* the ZIP of the site that a reader finds in it, and a footer that fits them: wherever its
\* writer was stopped, whatever it copied, and however often the file was written anew.
THEOREM BundledFilesAreWhole == Spec => []BundledIsWhole
<1>1. ASSUME Sound PROVE BundledIsWhole
  <2> SUFFICES ASSUME NEW f \in DOMAIN disk \ mixed, IsBundled(disk[f])
               PROVE  \E site \in ImageOf(f) :
                        LET offset == Len(disk[f]) - FooterSize - Len(ZipOf(site))
                            part == SubSeq(disk[f], 1, offset)
                        IN  /\ disk[f] = part \o ZipOf(site) \o Footer(offset, Len(ZipOf(site)))
                            /\ Executable(part)
                            /\ ~IsBundled(part)
    BY DEF BundledIsWhole
  <2>1. Whole(disk[f])
    BY <1>1, PlainReads DEF Sound, Intact, Typed, FilesTyped
  <2>2. PICK part \in Seq(Cells), site \in SiteSet :
          Executable(part) /\ Plain(part) /\ disk[f] = Image(part, site)
    BY <2>1 DEF Whole
  <2>3. site \in ImageOf(f) /\ SubSeq(disk[f], 1, Len(part)) = part
    BY <2>2, ImageReads DEF ImageOf
  <2>4. Len(disk[f]) - FooterSize - Len(ZipOf(site)) = Len(part)
    <3>1. /\ Len(part) \in Nat /\ Len(ZipOf(site)) \in Nat
          /\ Len(Image(part, site)) = Len(part) + Len(ZipOf(site)) + 3
      BY ImageCells
    <3> QED
      BY <2>2, <3>1 DEF FooterSize
  <2>5. ~IsBundled(part)
    BY <2>2, PlainReads
  <2> QED
    BY <2>2, <2>3, <2>4, <2>5 DEF Image
<1> QED
  BY <1>1, SoundAlways, PTL

\* How a step changes the site of a file that only one process writes.
LEMMA SiteChange ==
  ASSUME Sound, [Next]_vars, NEW f \in Files, f \notin mixed, f \notin mixed',
         ImageOf(f)' # ImageOf(f)
  PROVE  \/ ImageOf(f)' = {} /\ disk'[f] = <<>>
         \/ /\ ImageOf(f) = {}
            /\ \E p \in Procs : WritesFile(p, f) /\ ImageOf(f)' = {proc[p].site}
<1>1. disk' # disk
  BY DEF ImageOf
<1>2. CASE \E p \in Procs, d \in Dirs, out \in Files : CreateBundle(p, d, out)
  <2>1. PICK p \in Procs, d \in Dirs, out \in Files : CreateBundle(p, d, out)
    BY <1>2
  <2>2. disk' = [g \in DOMAIN disk \cup {out} |-> IF g = out THEN <<>> ELSE disk[g]]
    BY <1>1, <2>1 DEF CreateBundle
  <2>3. f = out
    BY <2>2 DEF ImageOf
  <2>4. disk'[f] = <<>> /\ f \in DOMAIN disk'
    BY <2>2, <2>3
  <2>5. GetBundleReader(<<>>) = {}
    <3>1. <<>> \in Seq(Cells) /\ Len(<<>>) = 0
      OBVIOUS
    <3>2. Plain(<<>>)
      BY <3>1 DEF Plain
    <3> QED
      BY <3>1, <3>2, PlainReads
  <2> QED
    BY <2>4, <2>5 DEF ImageOf
<1>3. CASE \E p \in Procs : WriteCell(p)
  <2>1. PICK p \in Procs : WriteCell(p)
    BY <1>3
  <2>2. /\ Pc(p) \in {"copy", "write"}
        /\ disk' = [disk EXCEPT ![proc[p].out] = Put(@, proc[p].pos, Head(proc[p].todo))]
    BY <2>1 DEF WriteCell
  <2>3. DOMAIN disk' = DOMAIN disk /\ \A g : g # proc[p].out => disk'[g] = disk[g]
    BY <2>2
  <2>4. f = proc[p].out
    BY <2>3 DEF ImageOf
  <2>5. /\ WritesFile(p, f) /\ f \in DOMAIN disk /\ disk[f] \in Seq(Cells)
        /\ proc[p].site \in SiteSet
    BY <2>2, <2>4 DEF WritesFile, Sound, Typed, Equipped, FilesTyped, ProcSet
  <2>6. /\ Plain(disk[f]) /\ disk'[f] \in Seq(Cells)
        /\ \/ Plain(disk'[f])
           \/ \E part \in Seq(Cells) :
                Executable(part) /\ Plain(part) /\ disk'[f] = Image(part, proc[p].site)
    BY <2>1, <2>4, WriteOutcome
  <2>7. ImageOf(f) = {} /\ (ImageOf(f)' = {} \/ ImageOf(f)' = {proc[p].site})
    <3>1. ImageOf(f) = {} /\ ImageOf(f)' = GetBundleReader(disk'[f])
      BY <2>3, <2>5, <2>6, PlainReads DEF ImageOf
    <3>2. CASE Plain(disk'[f])
      BY <2>6, <3>1, <3>2, PlainReads
    <3>3. CASE \E part \in Seq(Cells) : disk'[f] = Image(part, proc[p].site)
      BY <2>5, <3>1, <3>3, ImageReads
    <3> QED
      BY <2>6, <3>1, <3>2, <3>3
  <2> QED
    BY <2>5, <2>7
<1>4. ASSUME NEW p \in Procs, NEW d \in Dirs, Extract(p, d) PROVE FALSE
  BY <1>1, <1>4 DEF Extract
<1>5. ASSUME NEW p \in Procs, NEW d \in Dirs, NEW pick, Cp(p, d, pick) PROVE FALSE
  BY <1>1, <1>5 DEF Cp
<1>6. ASSUME NEW p \in Procs, NEW d, Serve(p, d) \/ Run(p, d) PROVE FALSE
  BY <1>1, <1>6 DEF Serve, Run
<1>7. ASSUME NEW p \in Procs, ExtractZipFile(p) \/ CopyFile(p) \/ Stop(p) \/ StopServing(p)
                                \/ BundleEnds(p) \/ Pack(p)
      PROVE FALSE
  BY <1>1, <1>7 DEF ExtractZipFile, CopyFile, Stop, StopServing, BundleEnds, Pack
<1>8. ASSUME NEW d \in Dirs, Clear(d) PROVE FALSE
  BY <1>1, <1>8 DEF Clear
<1> QED
  BY <1>1, <1>2, <1>3, <1>4, <1>5, <1>6, <1>7, <1>8 DEF Next, Command, vars

\* A site appears in its file with the last cell of the process that writes it, and is the
\* one that process packed; it goes only when the file is opened to be written anew.
THEOREM SitesArePublishedWhole == Spec => PublishedWhole
<1> DEFINE Change == \A f \in Files \ (mixed \cup mixed') :
                       ImageOf(f)' # ImageOf(f) =>
                         \/ ImageOf(f)' = {} /\ disk'[f] = <<>>
                         \/ /\ ImageOf(f) = {}
                            /\ \E p \in Procs : WritesFile(p, f) /\ ImageOf(f)' = {proc[p].site}
<1>1. Sound /\ [Next]_vars => [Change]_vars
  BY SiteChange
<1> QED
  BY <1>1, SoundAlways, PTL DEF Spec, PublishedWhole
=============================================================================
