---------------------- MODULE TranscriptTrackingProofs ----------------------
(***************************************************************************)
(* What holds of the reader's place in a transcript for every number of    *)
(* changes, lines, refreshes, seals and crashes, when none of the hazards  *)
(* of the module happens.  One session at most tracks the file.  It is     *)
(* either on track: its caches are of what is now in the file, so that the *)
(* checks of a read find nothing wrong; or off track: the file was         *)
(* replaced since, nothing is owed or on its way, and the next checks will *)
(* find out before a line of the new content passes for news.              *)
(***************************************************************************)
EXTENDS TranscriptTracking, FiniteSetTheorems, SequenceTheorems, TLAPS

Bodies == Seq(1..MaxLines)
Files == [gen : Nat, ctime : 0..MaxChanges, mtime : 0..MaxChanges, next : 1..(MaxLines + 1), body : Bodies]
Caches == [gen : Int, ctime : Int, mtime : Int, prefix : Bodies, known : BOOLEAN,
           mpos : Int, mval : Int, bsize : Int, bgen : Int]
Marks == [last : Nat \union {-1}, parsed : (Nat \ {0}) \union {-1}]
Steps == {"idle", "read", "check", "collected", "commit"}
Tries == [pc : Steps, sid : Sids \union {NoSid}, own : Marks, sealed : BOOLEAN, try : 0..2,
          start : Nat, before : Nat \X Nat, lines : Bodies]
Sent == [sid : Sids \union {NoSid}, lines : SUBSET (1..MaxLines), cp : Int, done : BOOLEAN]

TrackingTypes ==
  /\ trMap \in Sids \union {NoSid} /\ replay \in BOOLEAN /\ unnoticed \in BOOLEAN
  /\ tracked \in [Sids -> Marks] /\ seen \in [Sids -> Caches]
  /\ rd \in Tries /\ rd.sealed = FALSE
  /\ batches \in Seq(Sent) /\ disk \in [Sids -> Nat \union {-1}]
  /\ owed \subseteq 1..MaxLines /\ committed \subseteq 1..MaxLines /\ history \subseteq 1..MaxLines
  /\ \A s \in Sids : IF tracked[s] = None THEN seen[s] = NoCache ELSE tracked[s].last >= 0

(* A transcript holds consecutive lines of two halves each; the last may   *)
(* have only the first half                                                *)
Halved(body, next) ==
  /\ Len(body) >= 2
  /\ \A i \in 1..Len(body) : i \in {2 * (body[i] - body[1]) + 1, 2 * (body[i] - body[1]) + 2}
  /\ 2 * (next - body[1]) \in {Len(body), Len(body) + 1}
FileInLines == file \in Files /\ Halved(file.body, file.next)

First == file.body[1]
Held(l) == l \in First..(file.next - 1)
(* A line of the file begins after an offset; it ends by one               *)
Ahead(l, o) == Held(l) /\ 2 * (l - First) + 1 > o
Within(l, o) == 2 * (l - First) + 2 <= o

(* A cache is of the file, or of what it was before it was replaced        *)
MarkOf(p, o) == IF o = 0 THEN 0 ELSE IF o > Len(p) THEN -1 ELSE p[o]
CacheOfOne(c) ==
  IF c.known
  THEN /\ Len(c.prefix) >= 2 /\ c.mpos >= 0 /\ c.mval = MarkOf(c.prefix, c.mpos)
       /\ \A i \in 1..Len(c.prefix) : c.prefix[i] < file.next
       /\ PrefixIs(c.prefix) \/ (\A i \in 1..Len(c.prefix) : c.prefix[i] < First)
  ELSE c = NoCache
CachesOfOne == \A s \in Sids : CacheOfOne(seen[s])

(* Whatever is tracked: nothing is known of lines not yet written          *)
LinesSoFar ==
  /\ \A l \in owed : Held(l)
  /\ \A l \in committed \union history : l < file.next
  /\ \A i \in DOMAIN batches : /\ \A l \in batches[i].lines : Held(l)
                               /\ batches[i].done => batches[i].lines \subseteq sent
  /\ \A l \in ToSet(rd.lines) : Held(l)
ReadIsReal ==
  /\ rd.pc \in {"idle", "read", "commit"} => rd.lines = <<>>
  /\ rd.pc = "check" => rd.before[2] <= file.ctime
(* Delivered batches come first, and so do those of ids that are gone      *)
OldestFirst ==
  \A i, j \in DOMAIN batches : i < j =>
    /\ batches[j].sid = NoSid => batches[i].sid = NoSid
    /\ batches[j].done => batches[i].done
Ground ==
  /\ TrackingTypes /\ FileInLines /\ CachesOfOne /\ LinesSoFar /\ ReadIsReal /\ OldestFirst
  /\ NothingHandledIsQueued

(* No session tracks the file                                              *)
Nothing == \A s \in Sids : tracked[s] = None
Untracked ==
  /\ Nothing /\ owed = {} /\ rd.pc \in {"idle", "commit"}
  /\ \A s \in Sids : disk[s] = -1
  /\ \A i \in DOMAIN batches : batches[i].sid = NoSid
  /\ replay => trMap # NoSid /\ \A l \in committed : ~Held(l)

(* One does, and its watermark is the one on disk                          *)
Only(u) == u \in Sids /\ tracked[u] # None /\ \A s \in Sids : s # u => tracked[s] = None
OnDisk(u) == \E d \in Sids : disk[d] = tracked[u].last /\ \A e \in Sids : e # d => disk[e] = -1
Named(u) ==
  /\ trMap # NoSid
  /\ trMap # u => rd.pc \in {"idle", "commit"} /\ ~replay /\ tracked[u].last <= Pos(tracked[u])
  /\ rd.pc \in {"read", "check", "collected"} => rd.sid = u
  /\ rd.pc \in {"check", "collected"} => tracked[u].parsed > 0

(* What the read in progress has found is new                              *)
ReadIsNews(u) == \A l \in ToSet(rd.lines) : Within(l, Pos(tracked[u])) /\ l \notin history
QuietAhead(u) == \A l \in history : ~Ahead(l, Pos(tracked[u]))
OnTrack(u) ==
  LET c == seen[u]  t == tracked[u] IN
  /\ PrefixIs(c.prefix) /\ (c.known => c.mpos <= Len(c.prefix))
  /\ c.bsize >= 0 => c.bgen = file.gen /\ c.bsize <= Size
  /\ Pos(t) <= Size
  /\ IF rd.pc = "check"
     THEN IF rd.start = 0 THEN rd.before = <<file.gen, file.ctime>>
                          ELSE c.known /\ rd.start <= Len(c.prefix)
     ELSE Pos(t) = 0 \/ (c.known /\ Pos(t) <= Len(c.prefix))
  /\ ~c.known => t.last = 0
  /\ t.last = 0 /\ c.known => c.prefix = file.body /\ c.gen = file.gen /\ c.ctime = file.ctime
  /\ t.last <= Pos(t) \/ (owed = {} /\ \A l \in committed : ~Held(l))
  /\ ReadIsNews(u) /\ QuietAhead(u)

(* The file was replaced, or was found shorter than its watermark at a     *)
(* start: then the marker is past what the cache is of                     *)
WillNotice(u) ==
  LET c == seen[u]  t == tracked[u] IN
  /\ rd.pc = "read" => \/ c.bsize < 0 /\ QuietAhead(u)
                       \/ c.mpos = Pos(t) /\ (c.mpos <= Len(c.prefix) \/ c.bsize < 0)
  /\ rd.pc = "check" => \/ rd.before # <<file.gen, file.ctime>>
                        \/ c.mpos = rd.start /\ (c.mpos <= Len(c.prefix) \/ rd.start <= Size)
                        \/ ReadIsNews(u) /\ QuietAhead(u) /\ c.bsize < 0 /\ Pos(t) <= Size
WasShort(u) ==
  LET c == seen[u]  t == tracked[u] IN
  /\ c.mpos > Len(c.prefix) /\ QuietAhead(u)
  /\ c.bsize >= 0 => rd.pc = "idle" /\ t.parsed = -1 /\ t.last = c.mpos
  /\ rd.pc = "check" => ReadIsNews(u) /\ Pos(t) <= Size
OffTrack(u) ==
  LET c == seen[u]  t == tracked[u] IN
  /\ c.known /\ unnoticed /\ t.last # 0
  /\ owed = {} /\ batches = <<>> /\ \A l \in committed : ~Held(l)
  /\ rd.pc = "collected" => rd.lines = <<>>
  /\ rd.pc = "check" => rd.start > 0
  /\ IF PrefixIs(c.prefix) THEN WasShort(u) ELSE WillNotice(u)
InPlace(u) == (OnTrack(u) \/ OffTrack(u)) /\ (~unnoticed => OnTrack(u))

(* The batches on their way lie behind the position, in order              *)
BehindPlace(u) ==
  /\ \A i \in DOMAIN batches : batches[i].sid # NoSid =>
       LET b == batches[i]  t == tracked[u] IN
       /\ b.sid = u /\ t.parsed > 0 /\ b.cp > 0 /\ b.cp <= Pos(t)
       /\ \A l \in b.lines : Within(l, b.cp) /\ l \notin history
       /\ \A l \in committed \union b.lines : ~Ahead(l, b.cp)
       /\ \A l \in ToSet(rd.lines) : Ahead(l, b.cp)
  /\ \A i, j \in DOMAIN batches : i < j /\ batches[i].sid # NoSid =>
       batches[i].cp <= batches[j].cp /\ \A l \in batches[j].lines : Ahead(l, batches[i].cp)
(* A line that is owed and not yet sent is somewhere ahead of the watermark *)
OwedReached(u) ==
  LET t == tracked[u] IN
  /\ \A l \in committed : ~Ahead(l, t.last) /\ ~Ahead(l, Pos(t)) /\ l \notin ToSet(rd.lines)
  /\ \A l \in owed \ sent :
       /\ Ahead(l, t.last)
       /\ Ahead(l, Pos(t)) \/ l \in ToSet(rd.lines) \/ \E i \in DOMAIN batches : batches[i].sid = u /\ l \in batches[i].lines
Placed(u) == Only(u) /\ OnDisk(u) /\ Named(u) /\ InPlace(u) /\ BehindPlace(u) /\ OwedReached(u)

TrackingInOrder == Ground /\ (Untracked \/ \E u \in Sids : Placed(u))

----------------------------------------------------------------------------
(* The lines of the file.                                                   *)

(* A half line belongs to a line of the file                               *)
LEMMA HalfOfLine ==
  ASSUME NEW i \in Int, NEW x \in Int, NEW f \in Int, NEW n \in Int, NEW z \in Int,
         1 <= i, i <= z, i \in {2 * (x - f) + 1, 2 * (x - f) + 2}, 2 * (n - f) \in {z, z + 1}
  PROVE  f <= x /\ x <= n - 1
  OBVIOUS

(* The first half of every line of the file is in it                       *)
LEMMA LineOfHalf ==
  ASSUME NEW x \in Int, NEW f \in Int, NEW n \in Int, NEW z \in Int,
         f <= x, x <= n - 1, 2 * (n - f) \in {z, z + 1}
  PROVE  1 <= 2 * (x - f) + 1 /\ 2 * (x - f) + 1 <= z
  OBVIOUS

(* The halves of a file and its lines, by number                           *)
LEMMA LinesOfFile ==
  ASSUME FileInLines
  PROVE  /\ Size \in Nat /\ Size >= 2 /\ First \in 1..MaxLines /\ First < file.next
         /\ file.next \in 1..(MaxLines + 1) /\ file.body \in Bodies /\ MaxLines \in Nat
         /\ \A i \in 1..Size : /\ Held(file.body[i])
                               /\ i \in {2 * (file.body[i] - First) + 1, 2 * (file.body[i] - First) + 2}
         /\ \A l : Held(l) => /\ l \in 1..MaxLines
                              /\ 2 * (l - First) + 1 \in 1..Size
                              /\ file.body[2 * (l - First) + 1] = l
<1>1. /\ MaxLines \in Nat /\ file.body \in Seq(1..MaxLines) /\ file.next \in 1..(MaxLines + 1)
      /\ Size = Len(file.body) /\ First = file.body[1]
  BY TrackingAssumption DEF FileInLines, Files, Bodies, Size, First
<1>2. /\ Size >= 2 /\ Size \in Nat
      /\ \A i \in 1..Size : i \in {2 * (file.body[i] - First) + 1, 2 * (file.body[i] - First) + 2}
      /\ 2 * (file.next - First) \in {Size, Size + 1}
  BY <1>1 DEF FileInLines, Halved
<1>3. \A i \in 1..Size : file.body[i] \in 1..MaxLines
  BY <1>1
<1>4. First \in 1..MaxLines /\ First < file.next
  BY <1>1, <1>2, <1>3
<1>5. ASSUME NEW i \in 1..Size
      PROVE  Held(file.body[i])
  <2>1. file.body[i] \in Int /\ First \in Int /\ file.next \in Int /\ i \in Int /\ 1 <= i /\ i <= Size
    BY <1>1, <1>2, <1>3, <1>4
  <2>2. First <= file.body[i] /\ file.body[i] <= file.next - 1
    BY <2>1, <1>2, HalfOfLine
  <2> QED
    BY <2>1, <2>2 DEF Held
<1>6. ASSUME NEW l, Held(l)
      PROVE  /\ l \in 1..MaxLines /\ 2 * (l - First) + 1 \in 1..Size
             /\ file.body[2 * (l - First) + 1] = l
  <2>1. /\ l \in Int /\ First <= l /\ l <= file.next - 1 /\ First \in Int /\ First >= 1
        /\ file.next \in Int /\ file.next <= MaxLines + 1 /\ MaxLines \in Int
    BY <1>1, <1>4, <1>6 DEF Held
  <2>2. 1 <= 2 * (l - First) + 1 /\ 2 * (l - First) + 1 <= Size
    BY <2>1, <1>2, LineOfHalf
  <2>5. l \in 1..MaxLines /\ 2 * (l - First) + 1 \in 1..Size
    BY <2>1, <2>2, <1>2
  <2> DEFINE j == 2 * (l - First) + 1
  <2>3. j \in {2 * (file.body[j] - First) + 1, 2 * (file.body[j] - First) + 2} /\ file.body[j] \in 1..MaxLines
    BY <2>5, <1>2, <1>3
  <2>4. file.body[j] = l
    <3> DEFINE x == file.body[j]
    <3>1. j \in Int /\ x \in Int
      BY <2>5, <2>3
    <3>2. j \in {2 * (x - First) + 1, 2 * (x - First) + 2} /\ j = 2 * (l - First) + 1
      BY <2>3
    <3>4. l \in Int /\ First \in Int
      BY <2>1
    <3> HIDE DEF j, x
    <3>3. x = l
      BY <3>1, <3>2, <3>4
    <3> QED
      BY <3>3 DEF x
  <2> QED
    BY <2>5, <2>4
<1>7. \A i \in 1..Size : Held(file.body[i])
  BY <1>5
<1>8. \A l : Held(l) => /\ l \in 1..MaxLines /\ 2 * (l - First) + 1 \in 1..Size
                       /\ file.body[2 * (l - First) + 1] = l
  BY <1>6
<1> HIDE DEF Held
<1> QED
  BY <1>1, <1>2, <1>4, <1>7, <1>8 DEF Bodies

(* StartFrom(o) holds the lines that begin after the offset o              *)
LEMMA StartFromIs ==
  ASSUME FileInLines, NEW o \in Int
  PROVE  \A l : l \in StartFrom(o) <=> Ahead(l, o)
<1>1. ASSUME NEW l, l \in StartFrom(o)
      PROVE  Ahead(l, o)
  <2>1. PICK i \in 1..Size : i % 2 = 1 /\ i > o /\ l = file.body[i]
    BY <1>1 DEF StartFrom
  <2>2. Held(l) /\ i \in {2 * (l - First) + 1, 2 * (l - First) + 2} /\ l \in Int /\ First \in Int
    BY <2>1, LinesOfFile
  <2>3. i = 2 * (l - First) + 1
    BY <2>1, <2>2
  <2> QED
    BY <2>1, <2>2, <2>3 DEF Ahead
<1>2. ASSUME NEW l, Ahead(l, o)
      PROVE  l \in StartFrom(o)
  <2>1. /\ Held(l) /\ l \in Int /\ First \in Int /\ 2 * (l - First) + 1 \in 1..Size
        /\ file.body[2 * (l - First) + 1] = l /\ 2 * (l - First) + 1 > o
    BY <1>2, LinesOfFile DEF Ahead
  <2> DEFINE j == 2 * (l - First) + 1
  <2>2. j \in 1..Size /\ j % 2 = 1 /\ j > o /\ file.body[j] = l
    BY <2>1
  <2> QED
    BY <2>2 DEF StartFrom
<1> QED
  BY <1>1, <1>2

(* EndBy holds lines of the file                                           *)
LEMMA EndByIs ==
  ASSUME FileInLines
  PROVE  \A l \in EndBy(Size) : Held(l)
  BY LinesOfFile DEF EndBy

(* The content is the lines from the first to the last begun               *)
LEMMA BodyIs ==
  ASSUME FileInLines
  PROVE  \A l : l \in ToSet(file.body) <=> Held(l)
<1>1. DOMAIN file.body = 1..Size
  BY LinesOfFile DEF Bodies, Size
<1> QED
  BY <1>1, LinesOfFile DEF ToSet

(* Odd sizes end in half a line                                            *)
LEMMA Parity ==
  ASSUME NEW z \in Int, NEW a \in Int
  PROVE  /\ z % 2 = 1 /\ z \in {2 * a + 1, 2 * a + 2} => z = 2 * a + 1
         /\ z % 2 = 1 /\ 2 * a \in {z, z + 1} => 2 * a = z + 1
         /\ z % 2 = 0 /\ 2 * a \in {z, z + 1} => 2 * a = z
  OBVIOUS

(* One line more, or the second half of the last                           *)
LEMMA HalvesAppended ==
  ASSUME NEW b \in Seq(Int), NEW n \in Int, Halved(b, n), NEW b2 \in Seq(Int), NEW n2 \in Int,
         \A i \in 1..Len(b) : b2[i] = b[i],
         \/ /\ Len(b2) = Len(b) + 1 /\ b2[Len(b) + 1] = b[Len(b)] /\ n2 = n
            /\ Len(b) % 2 = 1
         \/ /\ Len(b2) \in {Len(b) + 1, Len(b) + 2} /\ n2 = n + 1 /\ Len(b) % 2 = 0
            /\ \A i \in (Len(b) + 1)..Len(b2) : b2[i] = n
  PROVE  /\ Halved(b2, n2) /\ b2[1] = b[1]
         /\ n2 = n + 1 => 2 * (n - b[1]) = Len(b)
<1> DEFINE z == Len(b)  f == b[1]
<1>1. /\ z \in Int /\ z >= 2 /\ f \in Int /\ b2[1] = f /\ 2 * (n - f) \in {z, z + 1}
      /\ \A i \in 1..z : b[i] \in Int /\ i \in {2 * (b[i] - f) + 1, 2 * (b[i] - f) + 2}
  BY DEF Halved
<1>2. CASE Len(b2) = z + 1 /\ b2[z + 1] = b[z] /\ n2 = n /\ z % 2 = 1
  <2> DEFINE x == b[z]
  <2>6. z \in 1..z
    BY <1>1
  <2>1. x \in Int /\ z \in {2 * (x - f) + 1, 2 * (x - f) + 2}
    BY <1>1, <2>6
  <2>2. z + 1 = 2 * (x - f) + 2 /\ 2 * (n - f) = z + 1
    <3>1. x - f \in Int /\ n - f \in Int
      <4>1. x \in Int /\ f \in Int
        BY <1>1, <2>1
      <4> HIDE DEF x, f
      <4> QED
        BY <4>1
    <3>2. z = 2 * (x - f) + 1 /\ 2 * (n - f) = z + 1
      BY <3>1, <1>1, <1>2, <2>1, Parity
    <3> QED
      BY <3>1, <3>2
  <2>3. ASSUME NEW i \in 1..(z + 1)
        PROVE  i \in {2 * (b2[i] - f) + 1, 2 * (b2[i] - f) + 2}
    <3>1. CASE i \in 1..z
      BY <3>1, <1>1
    <3>2. CASE i = z + 1
      BY <3>2, <1>2, <2>2
    <3> HIDE DEF z, f, x
    <3> QED
      BY <3>1, <3>2, <1>1
  <2>4. 2 * (n2 - f) \in {z + 1, z + 2}
    BY <1>2, <2>2
  <2>5. z + 1 >= 2 /\ n2 # n + 1
    BY <1>1, <1>2
  <2> QED
    BY <1>1, <1>2, <2>3, <2>4, <2>5 DEF Halved
<1>3. CASE /\ Len(b2) \in {z + 1, z + 2} /\ n2 = n + 1 /\ z % 2 = 0
           /\ \A i \in (z + 1)..Len(b2) : b2[i] = n
  <2>1. 2 * (n - f) = z
    <3>1. n - f \in Int
      BY <1>1
    <3> QED
      BY <3>1, <1>1, <1>3, Parity
  <2>2. ASSUME NEW i \in 1..Len(b2)
        PROVE  i \in {2 * (b2[i] - f) + 1, 2 * (b2[i] - f) + 2}
    <3>1. CASE i \in 1..z
      BY <3>1, <1>1
    <3>2. CASE i \in (z + 1)..Len(b2)
      <4>1. b2[i] = n /\ i \in {z + 1, z + 2}
        <5>1. b2[i] = n
          BY <3>2, <1>3
        <5>2. Len(b2) \in {z + 1, z + 2} /\ z \in Int
          BY <1>1, <1>3
        <5> QED
          BY <5>1, <5>2, <3>2
      <4> HIDE DEF z, f
      <4> QED
        BY <4>1, <2>1
    <3> HIDE DEF z, f
    <3> QED
      BY <3>1, <3>2, <1>1, <1>3
  <2>3. 2 * (n2 - f) \in {Len(b2), Len(b2) + 1} /\ Len(b2) >= 2
    <3> HIDE DEF z, f
    <3> QED
      BY <1>1, <1>3, <2>1
  <2> QED
    BY <1>1, <1>3, <2>1, <2>2, <2>3 DEF Halved
<1> QED
  BY <1>2, <1>3

(* To be a prefix, element by element                                      *)
LEMMA PrefixByElement ==
  ASSUME NEW S, NEW b \in Seq(S), NEW p \in Seq(S), Len(p) <= Len(b)
  PROVE  SubSeq(b, 1, Len(p)) = p <=> \A i \in 1..Len(p) : b[i] = p[i]
<1> DEFINE q == SubSeq(b, 1, Len(p))
<1>1. /\ q \in Seq(S) /\ Len(q) = Len(p) /\ \A i \in 1..Len(p) : q[i] = b[i]
  <2>1. \A i \in 1..Len(p) : b[i] \in S
    OBVIOUS
  <2>2. 1 \in Int /\ Len(p) \in Nat /\ Len(p) \in Int
    OBVIOUS
  <2>3. /\ q \in Seq(S) /\ Len(q) = IF 1 <= Len(p) THEN Len(p) - 1 + 1 ELSE 0
        /\ \A i \in 1..(Len(p) - 1 + 1) : q[i] = b[1 + i - 1]
    BY <2>1, <2>2, SubSeqProperties
  <2>4. \A i \in 1..Len(p) : 1 + i - 1 = i
    OBVIOUS
  <2>5. Len(p) - 1 + 1 = Len(p)
    OBVIOUS
  <2> QED
    BY <2>2, <2>3, <2>4, <2>5
<1>2. ASSUME \A i \in 1..Len(p) : b[i] = p[i]
      PROVE  q = p
  BY <1>1, <1>2, SeqEqual
<1> QED
  BY <1>1, <1>2

(* A prefix of the file stays one when the file grows                      *)
LEMMA PrefixKept ==
  ASSUME NEW b \in Bodies, NEW b2 \in Bodies, NEW p \in Bodies, Len(b) <= Len(b2),
         \A i \in 1..Len(b) : b2[i] = b[i],
         Len(p) <= Len(b), SubSeq(b, 1, Len(p)) = p
  PROVE  Len(p) <= Len(b2) /\ SubSeq(b2, 1, Len(p)) = p
<1>1. \A i \in 1..Len(p) : b[i] = p[i]
  BY PrefixByElement DEF Bodies
<1>2. Len(p) \in Nat /\ Len(b) \in Nat /\ Len(b2) \in Nat
  BY DEF Bodies
<1>3. Len(p) <= Len(b2) /\ \A i \in 1..Len(p) : b2[i] = p[i]
  BY <1>1, <1>2
<1> QED
  BY <1>3, PrefixByElement DEF Bodies

(* The whole content is a prefix                                           *)
LEMMA PrefixOfSelf ==
  ASSUME FileInLines
  PROVE  PrefixIs(file.body)
<1>1. file.body \in Bodies
  BY LinesOfFile
<1>2. Size = Len(file.body) /\ Len(file.body) \in Nat
  BY <1>1 DEF Size, Bodies
<1> QED
  BY <1>1, <1>2, PrefixByElement DEF PrefixIs, Bodies

(* What the agent does to its file                                         *)
LEMMA FileMade ==
  ASSUME NEW g \in Nat, NEW c \in 0..MaxChanges, NEW m \in 0..MaxChanges, NEW n \in 1..(MaxLines + 1),
         NEW b \in Bodies
  PROVE  [gen |-> g, ctime |-> c, mtime |-> m, next |-> n, body |-> b] \in Files
  BY DEF Files

(* TrAppend adds to the end; only a line begun is new, and owed when live  *)
LEMMA AppendGrows ==
  ASSUME Hazards = {}, FileInLines, TrAppend
  PROVE  /\ FileInLines' /\ First' = First /\ Size' \in Nat /\ Size' > Size
         /\ file'.gen = file.gen /\ file'.ctime = file.ctime + 1 /\ ~FromZero
         /\ file.next <= file'.next /\ file'.next <= file.next + 1
         /\ \A p \in Bodies : PrefixIs(p) => PrefixIs(p)'
         /\ \/ owed' = owed
            \/ /\ Live /\ owed' = owed \union {file.next} /\ file'.next = file.next + 1
               /\ 2 * (file.next - First) + 1 = Size + 1
<1> DEFINE b == file.body  z == Len(file.body)
<1>1. /\ b \in Bodies /\ z \in Nat /\ z >= 2 /\ z = Size /\ file.next \in 1..(MaxLines + 1)
      /\ First = b[1] /\ file \in Files /\ Halved(b, file.next) /\ MaxLines \in Nat /\ MaxChanges \in Nat
  BY LinesOfFile, TrackingAssumption DEF FileInLines, Size, First, Bodies
<1>2. PICK k \in 1..2 :
        IF z % 2 = 1 THEN k = 1 /\ Changed(Append(b, Last(b)), file.gen, 0)
                     ELSE Changed(b \o [i \in 1..k |-> file.next], file.gen, 1)
  BY <1>1 DEF TrAppend
<1>3. ~FromZero /\ file.ctime < MaxChanges
  BY <1>2 DEF Changed
<1>4. /\ file.gen \in Nat /\ file.ctime \in 0..MaxChanges /\ file.mtime \in 0..MaxChanges
      /\ file.ctime + 1 \in 0..MaxChanges
  BY <1>1, <1>3 DEF Files
<1> DEFINE nb == file'.body
<1>5. /\ nb \in Bodies /\ file'.next \in Int /\ \A i \in 1..z : nb[i] = b[i]
      /\ \/ Len(nb) = z + 1 /\ nb[z + 1] = b[z] /\ file'.next = file.next /\ z % 2 = 1
         \/ /\ Len(nb) \in {z + 1, z + 2} /\ file'.next = file.next + 1 /\ z % 2 = 0
            /\ \A i \in (z + 1)..Len(nb) : nb[i] = file.next
      /\ file' \in Files
      /\ file'.gen = file.gen /\ file'.ctime = file.ctime + 1
  <2>1. CASE z % 2 = 1
    <3>1. Changed(Append(b, Last(b)), file.gen, 0)
      BY <1>2, <2>1
    <3>2. Last(b) = b[z] /\ b[z] \in 1..MaxLines /\ b \in Seq(1..MaxLines)
      BY <1>1 DEF Last, Bodies
    <3> DEFINE nd == Append(b, b[z])
    <3>3. /\ nd \in Seq(1..MaxLines) /\ Len(nd) = z + 1
          /\ \A i \in 1..z : nd[i] = b[i] /\ nd[z + 1] = b[z]
      BY <3>2, AppendProperties
    <3>4. file' = [gen |-> file.gen, ctime |-> file.ctime + 1, body |-> nd,
                   mtime |-> IF nd = file.body THEN file.mtime ELSE file.ctime + 1, next |-> file.next + 0]
      BY <3>1, <3>2 DEF Changed
    <3>5. nd[z + 1] = b[z]
      BY <3>3, <1>1
    <3>6. /\ file'.gen = file.gen /\ file'.ctime = file.ctime + 1 /\ nb = nd
          /\ file'.next = file.next
      BY <3>4, <1>1
    <3> HIDE DEF nd
    <3>7. file' \in Files
      BY <3>3, <3>4, <1>1, <1>4 DEF Files, Bodies
    <3> QED
      BY <3>3, <3>5, <3>6, <3>7, <2>1, <1>1 DEF Bodies
  <2>2. CASE z % 2 # 1
    <3>1. Changed(b \o [i \in 1..k |-> file.next], file.gen, 1)
      BY <1>2, <2>2
    <3>2. file.next + 1 <= MaxLines + 1
      BY <3>1 DEF Changed
    <3> DEFINE e == [i \in 1..k |-> file.next]
    <3>3. file.next \in 1..MaxLines /\ k \in Nat
      BY <3>2, <1>1
    <3>4. e \in Seq(1..MaxLines) /\ Len(e) = k /\ \A i \in 1..k : e[i] = file.next
      <4>1. e \in [1..k -> 1..MaxLines]
        BY <3>3
      <4>2. e \in Seq(1..MaxLines)
        BY <3>3, <4>1, SeqDef
      <4>3. DOMAIN e = 1..Len(e) /\ DOMAIN e = 1..k /\ Len(e) \in Nat
        BY <4>2
      <4>4. Len(e) = k
        BY <4>3, <3>3
      <4> QED
        BY <4>2, <4>4
    <3> DEFINE nd == b \o e
    <3>5. /\ nd \in Seq(1..MaxLines) /\ Len(nd) = z + k
          /\ \A i \in 1..(z + k) : nd[i] = IF i <= z THEN b[i] ELSE e[i - z]
      <4>1. b \in Seq(1..MaxLines)
        BY <1>1 DEF Bodies
      <4> HIDE DEF e
      <4> QED
        BY <4>1, <3>4, ConcatProperties
    <3>6. file' = [gen |-> file.gen, ctime |-> file.ctime + 1, body |-> nd,
                   mtime |-> IF nd = file.body THEN file.mtime ELSE file.ctime + 1, next |-> file.next + 1]
      BY <3>1 DEF Changed
    <3> HIDE DEF nd, e
    <3>7. /\ file'.gen = file.gen /\ file'.ctime = file.ctime + 1 /\ nb = nd
          /\ file'.next = file.next + 1
      BY <3>6
    <3>8. file' \in Files
      <4> DEFINE m == IF nd = file.body THEN file.mtime ELSE file.ctime + 1
      <4>1. file' = [gen |-> file.gen, ctime |-> file.ctime + 1, mtime |-> m, next |-> file.next + 1,
                     body |-> nd]
        BY <3>6
      <4>2. m \in 0..MaxChanges
        BY <1>4
      <4>3. file.next + 1 \in 1..(MaxLines + 1) /\ nd \in Bodies
        <5>1. nd \in Bodies
          BY <3>5 DEF Bodies
        <5>2. file.next \in 1..MaxLines /\ MaxLines \in Nat
          BY <3>3, <1>1
        <5> HIDE DEF b, nd
        <5> QED
          BY <5>1, <5>2
      <4> HIDE DEF m
      <4> QED
        BY <4>1, <4>2, <4>3, <1>4, FileMade
    <3>9. /\ \A i \in 1..z : nd[i] = b[i]
          /\ \A i \in (z + 1)..(z + k) : nd[i] = file.next
      <4>1. ASSUME NEW i \in 1..z
            PROVE  nd[i] = b[i]
        BY <3>5, <3>3, <1>1
      <4>2. ASSUME NEW i \in (z + 1)..(z + k)
            PROVE  nd[i] = file.next
        <5>1. i \in 1..(z + k) /\ ~(i <= z) /\ i - z \in 1..k
          BY <3>3, <1>1
        <5> QED
          BY <5>1, <3>4, <3>5
      <4> QED
        BY <4>1, <4>2
    <3>10. z % 2 = 0
      <4> HIDE DEF z
      <4> QED
        BY <2>2, <1>1
    <3>11. Len(nb) \in {z + 1, z + 2} /\ Len(nb) = z + k
      BY <3>5, <3>7, <1>1
    <3>12. \A i \in (z + 1)..Len(nb) : nb[i] = file.next
      BY <3>7, <3>9, <3>11
    <3>13. nb \in Bodies /\ file'.next \in Int /\ \A i \in 1..z : nb[i] = b[i]
      BY <3>5, <3>7, <3>9, <1>1 DEF Bodies
    <3> HIDE DEF z, b, nb
    <3> QED
      BY <3>7, <3>8, <3>10, <3>11, <3>12, <3>13
  <2> QED
    BY <2>1, <2>2
<1>6. Halved(nb, file'.next) /\ nb[1] = b[1] /\ (file'.next = file.next + 1 => 2 * (file.next - b[1]) = z)
  <2>1. b \in Seq(Int) /\ nb \in Seq(Int) /\ file.next \in Int /\ file'.next \in Int
    <3>1. ASSUME NEW q \in Bodies
          PROVE  q \in Seq(Int)
      <4>1. q \in Seq(1..MaxLines)
        BY DEF Bodies
      <4>2. Len(q) \in Nat /\ q \in [1..Len(q) -> 1..MaxLines]
        BY <4>1, LenProperties
      <4>3. q \in [1..Len(q) -> Int]
        BY <4>2
      <4> QED
        BY <4>2, <4>3, SeqDef
    <3> HIDE DEF b, nb
    <3> QED
      BY <3>1, <1>1, <1>5
  <2>2. /\ Halved(b, file.next) /\ Len(b) = z /\ \A i \in 1..Len(b) : nb[i] = b[i]
        /\ \/ Len(nb) = Len(b) + 1 /\ nb[Len(b) + 1] = b[Len(b)] /\ file'.next = file.next /\ Len(b) % 2 = 1
           \/ /\ Len(nb) \in {Len(b) + 1, Len(b) + 2} /\ file'.next = file.next + 1 /\ Len(b) % 2 = 0
              /\ \A i \in (Len(b) + 1)..Len(nb) : nb[i] = file.next
    BY <1>1, <1>5
  <2>3. Len(b) = z
    OBVIOUS
  <2> HIDE DEF nb, b, z
  <2> QED
    BY <2>1, <2>2, HalvesAppended
<1>7. FileInLines' /\ First' = First /\ Size' = Len(nb) /\ Size' \in Nat /\ Size' > Size
  <2>1. Len(nb) \in Nat /\ Len(nb) > z
    BY <1>1, <1>5 DEF Bodies
  <2> QED
    BY <2>1, <1>1, <1>5, <1>6 DEF FileInLines, First, Size
<1>8. ASSUME NEW p \in Bodies, PrefixIs(p)
      PROVE  PrefixIs(p)'
  <2>1. Len(b) <= Len(nb)
    BY <1>7, <1>1
  <2> QED
    BY <2>1, <1>1, <1>5, <1>8, PrefixKept DEF PrefixIs, Size
<1>9. file.next <= file'.next /\ file'.next <= file.next + 1
  BY <1>1, <1>5
<1>10. \/ owed' = owed
       \/ /\ Live /\ owed' = owed \union {file.next} /\ file'.next = file.next + 1
          /\ 2 * (file.next - First) + 1 = Size + 1
  <2>1. CASE z % 2 = 0 /\ Live
    <3>1. owed' = owed \union {file.next} /\ file'.next = file.next + 1
      BY <2>1, <1>1, <1>5 DEF TrAppend
    <3> QED
      BY <3>1, <2>1, <1>1, <1>6
  <2>2. CASE ~(z % 2 = 0 /\ Live)
    BY <2>2, <1>1 DEF TrAppend
  <2> QED
    BY <2>1, <2>2
<1> HIDE DEF b, z, nb
<1> QED
  BY <1>3, <1>5, <1>7, <1>8, <1>9, <1>10

(* TrTouch leaves the content and the lines                                *)
LEMMA TouchKeeps ==
  ASSUME Hazards = {}, FileInLines, TrTouch
  PROVE  /\ FileInLines' /\ file'.body = file.body /\ file'.next = file.next
         /\ file'.gen \in {file.gen, file.gen + 1} /\ file'.ctime = file.ctime + 1 /\ ~FromZero
         /\ file'.gen = file.gen \/ \A s \in Sids : seen[s].bsize < 0
<1>1. /\ file \in Files /\ Halved(file.body, file.next) /\ MaxLines \in Nat /\ MaxChanges \in Nat
  BY TrackingAssumption DEF FileInLines
<1>2. PICK g \in {file.gen, file.gen + 1} :
        /\ Changed(file.body, g, 0) /\ (g = file.gen \/ \A s \in Sids : seen[s].bsize < 0)
  BY DEF TrTouch
<1>3. /\ ~FromZero /\ file.ctime < MaxChanges
      /\ file' = [gen |-> g, ctime |-> file.ctime + 1, body |-> file.body, mtime |-> file.mtime,
                  next |-> file.next + 0]
  BY <1>2 DEF Changed
<1>4. /\ file.gen \in Nat /\ file.ctime + 1 \in 0..MaxChanges /\ file.mtime \in 0..MaxChanges
      /\ file.next \in 1..(MaxLines + 1) /\ file.next + 0 = file.next /\ file.body \in Bodies
  BY <1>1, <1>3 DEF Files
<1>5. g \in Nat
  BY <1>2, <1>4
<1>6. file' = [gen |-> g, ctime |-> file.ctime + 1, mtime |-> file.mtime, next |-> file.next,
               body |-> file.body]
  BY <1>3, <1>4
<1>7. file' \in Files
  BY <1>4, <1>5, <1>6, FileMade
<1> QED
  BY <1>1, <1>2, <1>3, <1>6, <1>7 DEF FileInLines

(* New content of one or two lines is well formed                          *)
LEMMA FreshHalves ==
  ASSUME NEW n \in Nat \ {0}, NEW k \in 1..2, NEW m \in Nat, n + k <= m + 1
  PROVE  LET b == [i \in 1..2*k |-> n + (i - 1) \div 2] IN
         b \in Seq(1..m) /\ Len(b) = 2 * k /\ b[1] = n /\ Halved(b, n + k)
<1> DEFINE b == [i \in 1..2*k |-> n + (i - 1) \div 2]
<1>1. /\ (1 - 1) \div 2 = 0 /\ (2 - 1) \div 2 = 0 /\ (3 - 1) \div 2 = 1 /\ (4 - 1) \div 2 = 1
  OBVIOUS
<1>2. \A i \in 1..2*k : /\ b[i] \in 1..m /\ i \in {2 * (b[i] - n) + 1, 2 * (b[i] - n) + 2}
  <2>1. CASE k = 1
    <3>1. \A i \in 1..2*k : i = 1 \/ i = 2
      BY <2>1
    <3>2. b[1] = n /\ b[2] = n
      BY <2>1, <1>1
    <3>3. n \in 1..m
      BY <2>1
    <3> HIDE DEF b
    <3> QED
      BY <3>1, <3>2, <3>3
  <2>2. CASE k = 2
    <3>1. \A i \in 1..2*k : i = 1 \/ i = 2 \/ i = 3 \/ i = 4
      BY <2>2
    <3>2. b[1] = n /\ b[2] = n /\ b[3] = n + 1 /\ b[4] = n + 1
      BY <2>2, <1>1
    <3>3. n \in 1..m /\ n + 1 \in 1..m
      BY <2>2
    <3> HIDE DEF b
    <3> QED
      BY <3>1, <3>2, <3>3
  <2> QED
    BY <2>1, <2>2
<1>3. b \in Seq(1..m) /\ Len(b) = 2 * k
  <2>1. 2 * k \in Nat /\ b \in [1..2*k -> 1..m]
    BY <1>2
  <2> HIDE DEF b
  <2>2. b \in Seq(1..m)
    BY <2>1, SeqDef
  <2>3. DOMAIN b = 1..Len(b) /\ DOMAIN b = 1..2*k /\ Len(b) \in Nat
    BY <2>1, <2>2, LenProperties
  <2> QED
    BY <2>1, <2>2, <2>3
<1>4. b[1] = n
  BY <1>1
<1> HIDE DEF b
<1>5. 2 * ((n + k) - n) \in {2 * k, 2 * k + 1} /\ 2 * k >= 2
  OBVIOUS
<1>6. Halved(b, n + k)
  BY <1>2, <1>3, <1>4, <1>5 DEF Halved
<1> QED
  BY <1>3, <1>4, <1>6 DEF b

(* TrReplace puts lines there that were never written before               *)
LEMMA ReplaceRenews ==
  ASSUME Hazards = {}, FileInLines, TrReplace
  PROVE  /\ FileInLines' /\ First' = file.next /\ file'.next > file.next
         /\ file'.ctime = file.ctime + 1 /\ ~FromZero /\ Size' \in Nat /\ Size' >= 2
         /\ \A p \in Bodies : Len(p) >= 2 /\ (\A i \in 1..Len(p) : p[i] < file.next) => ~PrefixIs(p)'
         /\ rd.pc = "read" => seen[rd.sid].mpos = Pos(Mine)
         /\ batches \o rd.lines = <<>>
         /\ owed' = {} /\ unnoticed' = TRUE
         /\ history' \subseteq history \union file.next..(file'.next - 1)
<1>1. /\ file \in Files /\ MaxLines \in Nat /\ MaxChanges \in Nat
      /\ file.next \in 1..(MaxLines + 1) /\ file.gen \in Nat /\ file.ctime \in 0..MaxChanges
      /\ file.mtime \in 0..MaxChanges
  BY TrackingAssumption DEF FileInLines, Files
<1>2. PICK g \in {file.gen, file.gen + 1}, k \in 1..2 :
        Changed([i \in 1..2*k |-> file.next + (i - 1) \div 2], g, k)
  BY DEF TrReplace
<1> DEFINE b == [i \in 1..2*k |-> file.next + (i - 1) \div 2]
           m == IF b = file.body THEN file.mtime ELSE file.ctime + 1
<1>3. /\ ~FromZero /\ file.ctime < MaxChanges /\ file.next + k <= MaxLines + 1
      /\ file' = [gen |-> g, ctime |-> file.ctime + 1, mtime |-> m, next |-> file.next + k, body |-> b]
  BY <1>2 DEF Changed
<1>4. b \in Seq(1..MaxLines) /\ Len(b) = 2 * k /\ b[1] = file.next /\ Halved(b, file.next + k)
  <2>1. file.next \in Nat \ {0} /\ file.next + k <= MaxLines + 1
    <3> HIDE DEF b, m
    <3> QED
      BY <1>1, <1>3
  <2> QED
    BY <2>1, <1>1, FreshHalves
<1>5. /\ g \in Nat /\ file.ctime + 1 \in 0..MaxChanges /\ m \in 0..MaxChanges
      /\ file.next + k \in 1..(MaxLines + 1) /\ 2 * k >= 2 /\ 2 * k \in Nat /\ file.next + k > file.next
  <2>1. file.ctime < MaxChanges /\ file.next + k <= MaxLines + 1 /\ g \in {file.gen, file.gen + 1}
    BY <1>2, <1>3
  <2>2. m \in {file.mtime, file.ctime + 1}
    OBVIOUS
  <2> HIDE DEF b, m
  <2>3. file.ctime + 1 \in 0..MaxChanges
    BY <1>1, <2>1
  <2>4. m \in 0..MaxChanges
    BY <1>1, <2>2, <2>3
  <2> QED
    BY <1>1, <2>1, <2>3, <2>4
<1>6. b \in Bodies
  BY <1>4 DEF Bodies
<1> HIDE DEF b, m
<1>7. file' \in Files
  BY <1>3, <1>5, <1>6, FileMade
<1>8. file'.body = b /\ file'.next = file.next + k /\ file'.ctime = file.ctime + 1
  BY <1>3
<1>9. /\ FileInLines' /\ First' = file.next /\ file'.next > file.next /\ Size' \in Nat /\ Size' >= 2
  BY <1>4, <1>5, <1>7, <1>8 DEF FileInLines, First, Size
<1>10. ASSUME NEW p \in Bodies, Len(p) >= 2, \A i \in 1..Len(p) : p[i] < file.next
       PROVE  ~PrefixIs(p)'
  <2> SUFFICES ASSUME Len(p) <= Len(b), SubSeq(b, 1, Len(p)) = p
               PROVE  FALSE
    BY <1>8 DEF PrefixIs, Size
  <2>1. 1 \in 1..Len(p)
    BY <1>10 DEF Bodies
  <2>2. b[1] = p[1]
    BY <2>1, <1>4, PrefixByElement DEF Bodies
  <2>3. p[1] < file.next /\ file.next \in Int
    BY <2>1, <1>1, <1>10
  <2> QED
    BY <2>2, <2>3, <1>4
<1> QED
  BY <1>3, <1>8, <1>9, <1>10 DEF TrReplace

----------------------------------------------------------------------------
(* A read takes the complete lines between two offsets.                     *)

(* Rounding down to whole lines                                            *)
LEMMA Halving ==
  ASSUME NEW x \in Int
  PROVE  \E h \in Int : x = 2 * h \/ x = 2 * h + 1
<1>1. x \div 2 \in Int /\ (x = 2 * (x \div 2) \/ x = 2 * (x \div 2) + 1)
  OBVIOUS
<1> QED
  BY <1>1

(* From an even offset to the end of the last complete line, or nothing    *)
Span(pos, z, from, n, upto) ==
  /\ from \in Nat /\ n \in Nat /\ upto = from + 2 * n /\ upto \in Nat /\ upto <= z /\ upto > 0
  /\ pos <= z => pos <= from /\ from <= pos + 1
  /\ pos > z => n = 0
  /\ \/ pos >= z /\ n = 0 /\ upto = z
     \/ upto \in {z, z - 1} /\ \E h \in Nat : from = 2 * h
Finds(read, pos, upto) ==
  /\ read \in Bodies
  /\ \A l \in ToSet(read) : Ahead(l, pos) /\ Within(l, upto)
  /\ \A l : Ahead(l, pos) => l \in ToSet(read) \/ Ahead(l, upto)
  /\ pos > Size => read = <<>>

(* A read starts and ends inside the file, at whole lines                  *)
LEMMA ReadBounds ==
  ASSUME NEW pos \in Nat, NEW z \in Nat, z >= 2
  PROVE  LET low == IF pos > z THEN z ELSE pos
             from == IF low % 2 = 1 /\ low < z THEN low + 1 ELSE low
             n == (z - from) \div 2
             upto == from + n * 2
         IN  Span(pos, z, from, n, upto) /\ (upto - from) \div 2 = n
<1> DEFINE low == IF pos > z THEN z ELSE pos
           from == IF low % 2 = 1 /\ low < z THEN low + 1 ELSE low
           n == (z - from) \div 2
           upto == from + n * 2
<1>1. low \in Nat /\ low <= z /\ (pos <= z => low = pos) /\ (pos > z => low = z)
  OBVIOUS
<1>2. /\ from \in Nat /\ from <= z /\ low <= from /\ from <= low + 1 /\ (low = z => from = z)
      /\ from = z \/ from % 2 = 0
  <2>1. CASE low % 2 = 1 /\ low < z
    <3>1. from = low + 1
      BY <2>1
    <3>2. (low + 1) % 2 = 0
      BY <2>1, <1>1
    <3> QED
      BY <3>1, <3>2, <2>1, <1>1
  <2>2. CASE ~(low % 2 = 1 /\ low < z)
    <3>1. from = low
      BY <2>2
    <3>2. low = z \/ low % 2 # 1
      BY <2>2, <1>1
    <3>3. low % 2 # 1 => low % 2 = 0
      BY <1>1
    <3> QED
      BY <3>1, <3>2, <3>3, <1>1
  <2> QED
    BY <2>1, <2>2
<1> HIDE DEF low, from
<1>3. n \in Nat /\ (z - from = 2 * n \/ z - from = 2 * n + 1)
  <2>1. z - from \in Nat
    BY <1>2
  <2> QED
    BY <2>1
<1> HIDE DEF n
<1>4. upto = from + 2 * n /\ upto \in Nat /\ upto <= z /\ upto \in {z, z - 1}
  BY <1>2, <1>3
<1> HIDE DEF upto
<1>5. from = z => n = 0 /\ upto = z
  BY <1>2, <1>3, <1>4
<1>6. from % 2 = 0 => \E h \in Nat : from = 2 * h
  <2>1. ASSUME from % 2 = 0
        PROVE  from \div 2 \in Nat /\ from = 2 * (from \div 2)
    BY <2>1, <1>2
  <2> QED
    BY <2>1
<1>7. upto > 0
  BY <1>4, <1>2
<1>8. (upto - from) \div 2 = n
  <2>1. upto - from = 2 * n
    BY <1>2, <1>3, <1>4
  <2>2. \A k \in Nat : (2 * k) \div 2 = k
    OBVIOUS
  <2> QED
    BY <2>1, <2>2, <1>3
<1>9. pos >= z \/ from % 2 = 0
  BY <1>1, <1>2 DEF from
<1>10. pos >= z => from = z
  BY <1>1, <1>2
<1> QED
  BY <1>1, <1>2, <1>3, <1>4, <1>5, <1>6, <1>7, <1>8, <1>9, <1>10 DEF Span, low, from, n, upto

(* The lines of a span are those that begin in it and end by it            *)
LEMMA LinesRead ==
  ASSUME FileInLines, NEW pos \in Nat, NEW from, NEW n, NEW upto, Span(pos, Size, from, n, upto)
  PROVE  Finds([i \in 1..n |-> file.body[from + 2*i]], pos, upto)
<1> DEFINE read == [i \in 1..n |-> file.body[from + 2*i]]
<1>1. /\ Size \in Nat /\ Size >= 2 /\ First \in Int /\ MaxLines \in Nat
      /\ \A i \in 1..Size : /\ Held(file.body[i]) /\ file.body[i] \in 1..MaxLines
                            /\ i \in {2 * (file.body[i] - First) + 1, 2 * (file.body[i] - First) + 2}
  <2>1. \A i \in 1..Size : Held(file.body[i]) /\ i \in {2 * (file.body[i] - First) + 1, 2 * (file.body[i] - First) + 2}
    BY LinesOfFile
  <2>2. /\ Size \in Nat /\ Size >= 2 /\ First \in 1..MaxLines /\ MaxLines \in Nat
        /\ \A l : Held(l) => l \in 1..MaxLines
    BY LinesOfFile
  <2> HIDE DEF Held, Size, First
  <2> QED
    BY <2>1, <2>2
<1>7. /\ from \in Nat /\ n \in Nat /\ upto = from + 2 * n /\ upto \in Nat /\ upto <= Size
  BY DEF Span
<1>8. /\ pos <= Size => pos <= from /\ from <= pos + 1
      /\ pos > Size => n = 0
  BY DEF Span
<1>9. (pos >= Size /\ n = 0 /\ upto = Size) \/ \E h \in Nat : from = 2 * h
  BY DEF Span
<1>10. n = 0 \/ \E h \in Nat : from = 2 * h
  BY <1>9
<1>11. (pos >= Size /\ n = 0 /\ upto = Size) \/ upto \in {Size, Size - 1}
  BY DEF Span
<1>2. \A i \in 1..n : from + 2 * i \in 1..Size /\ from + 2 * i <= upto
  BY <1>1, <1>7
<1> HIDE DEF read
<1>12. read = [i \in 1..n |-> file.body[from + 2*i]]
  BY DEF read
<1>3. read \in Bodies /\ DOMAIN read = 1..n
  <2>1. read \in [1..n -> 1..MaxLines]
    BY <1>1, <1>2, <1>12
  <2> QED
    BY <2>1, <1>7, SeqDef DEF Bodies
<1>4. ASSUME NEW l \in ToSet(read)
      PROVE  Ahead(l, pos) /\ Within(l, upto)
  <2>1. PICK i \in 1..n : l = file.body[from + 2*i]
    BY <1>3, <1>12 DEF ToSet
  <2> DEFINE a == l - First
  <2>2. from + 2 * i \in 1..Size /\ from + 2 * i <= upto
    BY <1>2
  <2>3. /\ Held(l) /\ l \in Int /\ a \in Int /\ from + 2 * i \in {2 * a + 1, 2 * a + 2}
    BY <2>1, <2>2, <1>1
  <2>4. n # 0 /\ i \in Nat /\ i >= 1
    BY <1>7
  <2>5. PICK h \in Nat : from = 2 * h
    BY <2>4, <1>10
  <2>6. from + 2 * i = 2 * a + 2
    <3> HIDE DEF a
    <3> QED
      BY <2>3, <2>4, <2>5
  <2>7. pos <= from
    BY <2>4, <1>1, <1>7, <1>8
  <2>8. 2 * a + 1 > pos
    <3> HIDE DEF a
    <3> QED
      BY <2>3, <2>4, <2>6, <2>7, <1>7
  <2> QED
    BY <2>2, <2>3, <2>6, <2>8 DEF Ahead, Within
<1>5. ASSUME NEW l, Ahead(l, pos)
      PROVE  l \in ToSet(read) \/ Ahead(l, upto)
  <2> DEFINE a == l - First
  <2>1. /\ Held(l) /\ l \in Int /\ 2 * a + 1 \in 1..Size /\ a \in Int /\ 2 * a + 1 > pos
        /\ file.body[2 * a + 1] = l
    BY <1>5, <1>1, LinesOfFile DEF Ahead
  <2>2. pos <= Size /\ pos <= from /\ from <= pos + 1
    BY <2>1, <1>1, <1>8
  <2> HIDE DEF a
  <2>3. ~(2 * a + 1 > upto) => l \in ToSet(read)
    <3> SUFFICES ASSUME 2 * a + 1 <= upto
                 PROVE  l \in ToSet(read)
      BY <2>1, <1>7
    <3>1. ~(pos >= Size)
      BY <2>1, <1>1
    <3>2. PICK h \in Nat : from = 2 * h
      BY <3>1, <1>9
    <3>3. 2 * a + 2 <= upto /\ 2 * a >= from
      <4>1. \E k \in Nat : upto = 2 * k
        <5>1. upto = 2 * (h + n) /\ h + n \in Nat
          BY <3>2, <1>7
        <5> QED
          BY <5>1
      <4> QED
        BY <3>2, <2>1, <2>2, <1>7, <4>1
    <3> DEFINE i == a + 1 - h
    <3>4. i \in 1..n /\ from + 2 * i = 2 * a + 2 /\ 2 * a + 2 \in 1..Size
      BY <3>2, <3>3, <2>1, <1>1, <1>7
    <3> HIDE DEF i
    <3>5. read[i] = file.body[2 * a + 2]
      BY <3>4, <1>12
    <3> DEFINE x == file.body[2 * a + 2]
    <3>6. x \in Int /\ 2 * a + 2 \in {2 * (x - First) + 1, 2 * (x - First) + 2}
      BY <3>4, <1>1
    <3> HIDE DEF x
    <3>7. x - First = a
      <4> DEFINE y == x - First
      <4>1. y \in Int /\ 2 * a + 2 \in {2 * y + 1, 2 * y + 2}
        BY <3>6, <1>1
      <4> HIDE DEF y
      <4>2. y = a
        BY <4>1, <2>1
      <4> QED
        BY <4>2 DEF y
    <3>8. x = l
      BY <3>6, <3>7, <2>1, <1>1 DEF a
    <3> QED
      BY <3>4, <3>5, <3>8, <1>3 DEF ToSet, x
  <2>4. 2 * a + 1 > upto => Ahead(l, upto)
    BY <2>1 DEF Ahead, a
  <2> QED
    BY <2>3, <2>4
<1>6. pos > Size => read = <<>>
  <2>1. ASSUME n = 0
        PROVE  read = <<>>
    BY <2>1, <1>12, <1>3, EmptySeq DEF Bodies
  <2> QED
    BY <2>1, <1>8
<1> QED
  BY <1>3, <1>4, <1>5, <1>6 DEF Finds, read

(* A read returns the complete lines ahead of the position, no other       *)
LEMMA ReadFinds ==
  ASSUME FileInLines, NEW pos \in Nat
  PROVE  LET low == IF pos > Size THEN Size ELSE pos
             from == IF low % 2 = 1 /\ low < Size THEN low + 1 ELSE low
             upto == from + ((Size - from) \div 2) * 2
             read == [i \in 1..(upto - from) \div 2 |-> file.body[from + 2*i]]
         IN  upto \in Nat \ {0} /\ upto <= Size /\ (pos <= Size => pos <= upto) /\ Finds(read, pos, upto)
<1> DEFINE low == IF pos > Size THEN Size ELSE pos
           from == IF low % 2 = 1 /\ low < Size THEN low + 1 ELSE low
           n == (Size - from) \div 2
           upto == from + n * 2
           read == [i \in 1..n |-> file.body[from + 2*i]]
<1>1. Size \in Nat /\ Size >= 2
  BY LinesOfFile
<1>2. Span(pos, Size, from, n, upto) /\ (upto - from) \div 2 = n
  BY <1>1, ReadBounds
<1> HIDE DEF from, n, upto, low
<1>3. Finds(read, pos, upto)
  BY <1>2, LinesRead
<1>4. upto \in Nat \ {0} /\ upto <= Size /\ (pos <= Size => pos <= upto)
  BY <1>1, <1>2 DEF Span
<1>5. [i \in 1..(upto - from) \div 2 |-> file.body[from + 2*i]] = read
  BY <1>2
<1> QED
  BY <1>3, <1>4, <1>5 DEF upto, n, from, low

----------------------------------------------------------------------------
(* Offsets and the values of the variables.                                 *)

(* Ahead and Within are monotone in the offset                             *)
LEMMA AheadIs ==
  ASSUME FileInLines
  PROVE  /\ \A l, o : Ahead(l, o) => Held(l)
         /\ \A l : \A o, p \in Int : o <= p /\ Ahead(l, p) => Ahead(l, o)
         /\ \A l : \A o, p \in Int : o <= p /\ Within(l, o) /\ Held(l) => Within(l, p) /\ ~Ahead(l, p)
         /\ \A l : \A o \in Int : o >= Size => ~Ahead(l, o)
         /\ \A l : Held(l) <=> Ahead(l, 0)
         /\ \A l : Held(l) => l < file.next /\ l >= First
<1>1. First \in Int /\ Size \in Nat /\ file.next \in Int
  BY LinesOfFile
<1>2. \A l : Held(l) => l \in Int /\ 2 * (l - First) + 1 \in 1..Size
  BY LinesOfFile
<1>3. \A l : Held(l) => l < file.next /\ l >= First
  BY <1>1 DEF Held
<1>4. \A l : \A o, p \in Int : o <= p /\ Ahead(l, p) => Ahead(l, o)
  BY <1>1, <1>2 DEF Ahead
<1>5. \A l : \A o, p \in Int : o <= p /\ Within(l, o) /\ Held(l) => Within(l, p) /\ ~Ahead(l, p)
  BY <1>1, <1>2 DEF Ahead, Within
<1>6. \A l : \A o \in Int : o >= Size => ~Ahead(l, o)
  BY <1>1, <1>2 DEF Ahead
<1>7. \A l : Held(l) <=> Ahead(l, 0)
  BY <1>1, <1>2 DEF Ahead
<1>8. \A l, o : Ahead(l, o) => Held(l)
  BY DEF Ahead
<1> QED
  BY <1>3, <1>4, <1>5, <1>6, <1>7, <1>8

(* What the file decides does not change while the file does not           *)
LEMMA SameFile ==
  ASSUME UNCHANGED file
  PROVE  /\ FileInLines' <=> FileInLines
         /\ \A l, o : (Ahead(l, o)' <=> Ahead(l, o)) /\ (Within(l, o)' <=> Within(l, o))
         /\ \A l : Held(l)' <=> Held(l)
         /\ \A p : PrefixIs(p)' <=> PrefixIs(p)
         /\ \A c : CacheOfOne(c)' <=> CacheOfOne(c)
         /\ Size' = Size /\ First' = First
  BY DEF Ahead, Within, Held, First, PrefixIs, Size, FileInLines, CacheOfOne

(* Fields of a watermark, kept and replaced                                *)
LEMMA MarksAre ==
  /\ None \in Marks /\ None.last = -1 /\ None.parsed = -1
  /\ \A t \in Marks : /\ t.last \in Nat \union {-1} /\ t.parsed \in (Nat \ {0}) \union {-1}
                      /\ Pos(t) \in Nat \union {-1} /\ (t.last >= 0 => t # None /\ Pos(t) \in Nat)
                      /\ t.parsed > 0 => Pos(t) = t.parsed
                      /\ t.parsed < 0 => Pos(t) = t.last
                      /\ t.last = -1 /\ t.parsed = -1 => t = None
  /\ \A l \in Nat \union {-1}, p \in (Nat \ {0}) \union {-1} :
       LET t == [last |-> l, parsed |-> p] IN
       t \in Marks /\ t.last = l /\ t.parsed = p /\ (p > 0 => Pos(t) = p) /\ (p = -1 => Pos(t) = l)
  /\ \A t \in Marks, p \in (Nat \ {0}) \union {-1} :
       LET w == [t EXCEPT !.parsed = p] IN w \in Marks /\ w.last = t.last /\ w.parsed = p
  /\ \A t \in Marks, l \in Nat \union {-1} :
       LET w == [t EXCEPT !.last = l] IN w \in Marks /\ w.last = l /\ w.parsed = t.parsed
<1>1. None \in Marks /\ None.last = -1 /\ None.parsed = -1
  BY DEF None, Marks
<1>2. ASSUME NEW t \in Marks
      PROVE  /\ t.last \in Nat \union {-1} /\ t.parsed \in (Nat \ {0}) \union {-1}
             /\ Pos(t) \in Nat \union {-1} /\ (t.last >= 0 => t # None /\ Pos(t) \in Nat)
             /\ t.parsed > 0 => Pos(t) = t.parsed
             /\ t.parsed < 0 => Pos(t) = t.last
             /\ t.last = -1 /\ t.parsed = -1 => t = None
  BY <1>1 DEF Marks, Pos, None
<1>3. ASSUME NEW l \in Nat \union {-1}, NEW p \in (Nat \ {0}) \union {-1}
      PROVE  LET t == [last |-> l, parsed |-> p] IN
             t \in Marks /\ t.last = l /\ t.parsed = p /\ (p > 0 => Pos(t) = p) /\ (p = -1 => Pos(t) = l)
  BY DEF Marks, Pos
<1>4. ASSUME NEW t \in Marks, NEW p \in (Nat \ {0}) \union {-1}
      PROVE  LET w == [t EXCEPT !.parsed = p] IN w \in Marks /\ w.last = t.last /\ w.parsed = p
  BY DEF Marks
<1>5. ASSUME NEW t \in Marks, NEW l \in Nat \union {-1}
      PROVE  LET w == [t EXCEPT !.last = l] IN w \in Marks /\ w.last = l /\ w.parsed = t.parsed
  BY DEF Marks
<1> QED
  BY <1>1, <1>2, <1>3, <1>4, <1>5

(* The fields of a read that has not begun or has ended                    *)
LEMMA ReadsAre ==
  /\ IdleRead \in Tries /\ IdleRead.pc = "idle" /\ IdleRead.lines = <<>> /\ IdleRead.sealed = FALSE
  /\ EndRead \in Tries /\ EndRead.pc = "commit" /\ EndRead.lines = <<>> /\ EndRead.sealed = FALSE
  /\ <<>> \in Bodies /\ ToSet(<<>>) = {}
<1>1. <<>> \in Bodies
  BY EmptySeq DEF Bodies
<1>2. None \in Marks
  BY MarksAre
<1>3. IdleRead \in Tries /\ IdleRead.pc = "idle" /\ IdleRead.lines = <<>> /\ IdleRead.sealed = FALSE
  BY <1>1, <1>2 DEF IdleRead, Tries, Steps
<1>4. EndRead \in Tries /\ EndRead.pc = "commit" /\ EndRead.lines = <<>> /\ EndRead.sealed = FALSE
  <2>1. ASSUME NEW r \in Tries
        PROVE  LET e == [r EXCEPT !.pc = "commit"] IN
               e \in Tries /\ e.pc = "commit" /\ e.lines = r.lines /\ e.sealed = r.sealed
    BY DEF Tries, Steps
  <2> QED
    BY <2>1, <1>3 DEF EndRead
<1> QED
  BY <1>1, <1>3, <1>4 DEF ToSet

(* The types of a cache's fields                                           *)
LEMMA CachesAre ==
  /\ NoCache \in Caches /\ NoCache.known = FALSE /\ NoCache.mpos = -1 /\ NoCache.bsize = -1
  /\ NoCache.gen = -1 /\ NoCache.prefix = <<>>
  /\ \A c \in Caches : /\ c.gen \in Int /\ c.ctime \in Int /\ c.mtime \in Int /\ c.prefix \in Bodies
                       /\ c.known \in BOOLEAN /\ c.mpos \in Int /\ c.mval \in Int /\ c.bsize \in Int
                       /\ c.bgen \in Int /\ Len(c.prefix) \in Nat
<1>1. <<>> \in Bodies
  BY EmptySeq DEF Bodies
<1> QED
  BY <1>1 DEF NoCache, Caches, Bodies

(* A session that alone tracks the file is the one that reads it           *)
LEMMA OthersAre ==
  ASSUME NEW u, Only(u)
  PROVE  /\ \A s \in Sids : s # u => tracked[s] = None
         /\ u \in Sids /\ tracked[u] # None
         /\ \A s : Other(s) = IF s = u THEN {} ELSE {u}
         /\ \A s \in Sids : Reads(s) => s = u
         /\ Reads(u)
  BY DEF Only, Other, Reads

(* The content of a file, line by line                                     *)
LEMMA BodiesAre ==
  ASSUME NEW p \in Bodies
  PROVE  /\ Len(p) \in Nat /\ DOMAIN p = 1..Len(p) /\ ToSet(p) \subseteq 1..MaxLines
         /\ \A i \in 1..Len(p) : p[i] \in Int /\ p[i] >= 1
<1>1. Len(p) \in Nat /\ DOMAIN p = 1..Len(p) /\ p \in [1..Len(p) -> 1..MaxLines]
  BY LenProperties DEF Bodies
<1>2. \A i \in 1..Len(p) : p[i] \in 1..MaxLines
  BY <1>1
<1>3. MaxLines \in Nat
  BY TrackingAssumption
<1> QED
  BY <1>1, <1>2, <1>3 DEF ToSet

----------------------------------------------------------------------------
(* The agent and its file.                                                  *)

(* What the file keeps when it grows: whatever was known of its lines      *)
Grown ==
  /\ FileInLines' /\ First' = First /\ Size' \in Nat /\ Size' >= Size /\ file'.ctime = file.ctime + 1
  /\ file.next <= file'.next
  /\ \A p \in Bodies : PrefixIs(p) => PrefixIs(p)'

(* When the file has grown, its lines keep their place                     *)
LEMMA GrownLines ==
  ASSUME FileInLines, Grown
  PROVE  /\ \A l, o : (Within(l, o)' <=> Within(l, o)) /\ (Ahead(l, o) => Ahead(l, o)')
         /\ \A l : Held(l) => Held(l)'
         /\ \A l \in 1..MaxLines : l < file.next => (Held(l)' => Held(l))
         /\ \A l \in 1..MaxLines, o \in Int : l < file.next => (Ahead(l, o)' => Ahead(l, o))
<1>1. /\ First \in Int /\ First' = First /\ file.next \in Int /\ file'.next \in Int /\ file.next <= file'.next
      /\ MaxLines \in Nat
  <2>1. First \in Int /\ file.next \in Int /\ MaxLines \in Nat
    BY LinesOfFile
  <2>2. file'.next \in Int
    BY DEF Grown, FileInLines, Files
  <2> QED
    BY <2>1, <2>2 DEF Grown
<1>2. \A l : Held(l) => Held(l)'
  BY <1>1 DEF Held
<1>3. \A l \in 1..MaxLines : l < file.next => (Held(l)' => Held(l))
  BY <1>1 DEF Held
<1>4. \A l, o : Within(l, o)' <=> Within(l, o)
  BY <1>1 DEF Within
<1>5. \A l, o : Ahead(l, o) => Ahead(l, o)'
  BY <1>1, <1>2 DEF Ahead
<1>6. \A l \in 1..MaxLines, o \in Int : l < file.next => (Ahead(l, o)' => Ahead(l, o))
  BY <1>1, <1>3 DEF Ahead
<1> QED
  BY <1>2, <1>3, <1>4, <1>5, <1>6

(* When the file has grown, its caches are still of it                     *)
LEMMA GrownCaches ==
  ASSUME FileInLines, Grown, NEW c \in Caches, CacheOfOne(c)
  PROVE  /\ CacheOfOne(c)'
         /\ c.known /\ ~PrefixIs(c.prefix) => ~PrefixIs(c.prefix)'
<1>1. /\ First \in Int /\ First' = First /\ file.next \in Int /\ file'.next \in Int /\ file.next <= file'.next
      /\ c.prefix \in Bodies /\ file'.body \in Bodies /\ First' = file'.body[1]
  <2>1. First \in Int /\ file.next \in Int
    BY LinesOfFile
  <2>2. file'.next \in Int /\ file'.body \in Bodies
    BY DEF Grown, FileInLines, Files
  <2> QED
    BY <2>1, <2>2, CachesAre DEF Grown, First
<1>2. CASE ~c.known
  BY <1>2 DEF CacheOfOne
<1>3. CASE c.known
  <2>1. Len(c.prefix) \in Nat /\ \A i \in 1..Len(c.prefix) : c.prefix[i] \in Int
    BY <1>1, BodiesAre
  <2>2. \A i \in 1..Len(c.prefix) : c.prefix[i] < file'.next
    BY <1>1, <1>3, <2>1 DEF CacheOfOne
  <2>3. PrefixIs(c.prefix)' \/ (\A i \in 1..Len(c.prefix) : c.prefix[i] < First')
    BY <1>1, <1>3 DEF CacheOfOne, Grown
  <2>4. CacheOfOne(c)'
    BY <1>3, <2>2, <2>3 DEF CacheOfOne
  <2>5. ASSUME ~PrefixIs(c.prefix)
        PROVE  ~PrefixIs(c.prefix)'
    <3>1. Len(c.prefix) >= 2 /\ c.prefix[1] < First
      BY <1>3, <2>5, <2>1 DEF CacheOfOne
    <3> SUFFICES ASSUME Len(c.prefix) <= Len(file'.body), SubSeq(file'.body, 1, Len(c.prefix)) = c.prefix
                 PROVE  FALSE
      BY DEF PrefixIs, Size
    <3>2. 1 \in 1..Len(c.prefix)
      BY <2>1, <3>1
    <3>3. file'.body[1] = c.prefix[1]
      BY <3>2, <1>1, PrefixByElement DEF Bodies
    <3> QED
      BY <3>1, <3>2, <3>3, <1>1, <2>1
  <2> QED
    BY <2>4, <2>5
<1> QED
  BY <1>2, <1>3

(* A line is owed from when it is begun, if its file is followed then      *)
Begun ==
  \/ owed' = owed
  \/ /\ Live /\ owed' = owed \union {file.next} /\ file'.next = file.next + 1
     /\ 2 * (file.next - First) + 1 = Size + 1

(* The types of a batch's fields                                           *)
LEMMA BatchesAre ==
  ASSUME batches \in Seq(Sent)
  PROVE  /\ Len(batches) \in Nat /\ DOMAIN batches = 1..Len(batches)
         /\ \A i \in DOMAIN batches :
              /\ batches[i] \in Sent /\ batches[i].sid \in Sids \union {NoSid} /\ batches[i].cp \in Int
              /\ batches[i].done \in BOOLEAN /\ batches[i].lines \subseteq 1..MaxLines
<1>1. /\ Len(batches) \in Nat /\ DOMAIN batches = 1..Len(batches) /\ batches \in [1..Len(batches) -> Sent]
  BY LenProperties
<1>2. \A b \in Sent : b.sid \in Sids \union {NoSid} /\ b.cp \in Int /\ b.done \in BOOLEAN /\ b.lines \subseteq 1..MaxLines
  BY DEF Sent
<1> QED
  BY <1>1, <1>2

(* A file that only grows, or does not change, leaves the reader in order  *)
LEMMA GrowthInOrder ==
  ASSUME TrackingInOrder, Grown, Begun, Untouched, ~FromZero, history' = history, unnoticed' = unnoticed,
         file'.gen = file.gen \/ \A s \in Sids : seen[s].bsize < 0
  PROVE  TrackingInOrder'
<1>1. /\ UNCHANGED <<trMap, replay, tracked, seen, rd, batches, disk, sent, committed, events>>
      /\ history' = history /\ unnoticed' = unnoticed
  BY DEF Untouched
<1>2. FileInLines /\ FileInLines' /\ TrackingTypes /\ CachesOfOne /\ LinesSoFar /\ ReadIsReal
  BY DEF TrackingInOrder, Ground, Grown
<1>3. /\ \A l, o : (Within(l, o)' <=> Within(l, o)) /\ (Ahead(l, o) => Ahead(l, o)')
      /\ \A l : Held(l) => Held(l)'
      /\ \A l \in 1..MaxLines : l < file.next => (Held(l)' => Held(l))
      /\ \A l \in 1..MaxLines, o \in Int : l < file.next => (Ahead(l, o)' => Ahead(l, o))
  BY <1>2, GrownLines
<1>4. /\ file.next \in Int /\ file'.next \in Int /\ file.next <= file'.next /\ First \in Int /\ First' = First
      /\ Size \in Nat /\ Size' \in Nat /\ Size' >= Size /\ file.next >= First /\ file.next >= 1
      /\ file'.ctime = file.ctime + 1 /\ file.ctime \in Int /\ MaxLines \in Nat
      /\ file'.next \in 1..(MaxLines + 1)
  <2>1. First \in 1..MaxLines /\ file.next \in 1..(MaxLines + 1) /\ Size \in Nat /\ First < file.next /\ MaxLines \in Nat
    BY <1>2, LinesOfFile
  <2>2. file'.next \in 1..(MaxLines + 1) /\ file.ctime \in Int
    BY <1>2 DEF FileInLines, Files
  <2> QED
    BY <2>1, <2>2 DEF Grown
<1>0. PICK nx : nx = file.next
  OBVIOUS
<1>5. owed' \subseteq 1..MaxLines /\ \A l \in owed' : Held(l)' /\ (l \in owed \/ (l = file.next /\ owed' # owed))
  <2>1. owed \subseteq 1..MaxLines /\ \A l \in owed : Held(l)
    BY <1>2 DEF TrackingTypes, LinesSoFar
  <2>2. CASE owed' = owed
    BY <2>1, <2>2, <1>3
  <2>3. CASE owed' = owed \union {file.next} /\ file'.next = file.next + 1
    <3>1. file.next \in 1..MaxLines
      BY <2>3, <1>4
    <3>2. Held(nx)'
      BY <2>3, <1>4, <1>0 DEF Held
    <3> QED
      BY <2>1, <2>3, <3>1, <3>2, <1>3, <1>0
  <2> QED
    BY <2>2, <2>3 DEF Begun
<1>6. TrackingTypes'
  BY <1>1, <1>2, <1>5 DEF TrackingTypes
<1>7. CachesOfOne'
  <2>1. \A s \in Sids : seen[s] \in Caches /\ CacheOfOne(seen[s])
    BY <1>2 DEF TrackingTypes, CachesOfOne
  <2>2. \A s \in Sids : CacheOfOne(seen[s])'
    <3>1. ASSUME NEW s \in Sids
          PROVE  CacheOfOne(seen[s])'
      <4> DEFINE c == seen[s]
      <4>1. \A k \in Caches : CacheOfOne(k) => CacheOfOne(k)'
        BY <1>2, GrownCaches
      <4> QED
        BY <4>1, <2>1, <1>1
    <3> QED
      BY <3>1
  <2> QED
    BY <2>2 DEF CachesOfOne
<1>8. LinesSoFar'
  <2>1. \A l \in committed \union history : l < file'.next
    BY <1>2, <1>4 DEF LinesSoFar, TrackingTypes
  <2> QED
    BY <1>1, <1>2, <1>3, <1>5, <2>1 DEF LinesSoFar
<1>9. ReadIsReal'
  <2>1. rd.pc = "check" => rd.before[2] <= file'.ctime
    <3>1. rd.before[2] \in Int
      BY <1>2 DEF TrackingTypes, Tries
    <3> QED
      BY <1>2, <1>4, <3>1 DEF ReadIsReal
  <2> QED
    BY <1>1, <1>2, <2>1 DEF ReadIsReal
<1>10. OldestFirst' /\ NothingHandledIsQueued'
  BY <1>1 DEF TrackingInOrder, Ground, OldestFirst, NothingHandledIsQueued
<1>11. Ground'
  BY <1>2, <1>6, <1>7, <1>8, <1>9, <1>10 DEF Ground
<1>12. \A l \in committed \union history : l \in 1..MaxLines /\ l < file.next
  BY <1>2 DEF TrackingTypes, LinesSoFar
<1>13. \A s \in Sids : tracked[s] \in Marks /\ seen[s] \in Caches
  BY <1>2 DEF TrackingTypes
<1>14. CASE Untracked
  <2>1. ~Live
    BY <1>14 DEF Untracked, Nothing, Live, Reads
  <2>2. owed' = {}
    BY <2>1, <1>14 DEF Begun, Untracked
  <2>3. (\A l \in committed : ~Held(l)) => (\A l \in committed : ~Held(l)')
    BY <1>3, <1>12
  <2>4. Untracked'
    BY <1>1, <1>14, <2>2, <2>3 DEF Untracked, Nothing
  <2> QED
    BY <1>11, <2>4 DEF TrackingInOrder
<1>15. ASSUME NEW u \in Sids, Placed(u)
       PROVE  TrackingInOrder'
  <2> DEFINE t == tracked[u]  c == seen[u]
  <2>1. t \in Marks /\ c \in Caches /\ t' = t /\ c' = c /\ Pos(t) \in Int /\ t.last >= 0
        /\ t.last \in Int
    <3>1. t.last >= 0
      BY <1>15, <1>2 DEF Placed, Only, TrackingTypes
    <3> QED
      BY <3>1, <1>1, <1>13, MarksAre
  <2>2. Pos(t) # 0 /\ t.last # 0 /\ (rd.pc = "check" => rd.start # 0)
    BY <1>13, MarksAre DEF FromZero, Pos
  <2>3. Only(u)' /\ OnDisk(u)' /\ Named(u)'
    <3>1. Only(u) /\ OnDisk(u) /\ Named(u)
      BY <1>15 DEF Placed
    <3>2. Pos(tracked[u])' = Pos(tracked[u])
      BY <1>1
    <3> QED
      BY <1>1, <3>1, <3>2 DEF Only, OnDisk, Named
  <2>4. QuietAhead(u) => QuietAhead(u)'
    BY <1>1, <1>3, <1>12, <2>1 DEF QuietAhead, Pos
  <2>5. ReadIsNews(u) => ReadIsNews(u)'
    BY <1>1, <1>3 DEF ReadIsNews, Pos
  <2>6. (\A l \in committed : ~Held(l)) => (\A l \in committed : ~Held(l)')
    BY <1>3, <1>12
  <2>7. owed' # owed => Live /\ ~unnoticed /\ t.last <= Pos(t)
    <3>1. \A s \in Sids : Reads(s) => s = u
      BY <1>15, OthersAre DEF Placed
    <3> QED
      BY <3>1 DEF Begun, Live
  <2>8. /\ PrefixIs(c.prefix) => PrefixIs(c.prefix)'
        /\ c.known /\ ~PrefixIs(c.prefix) => ~PrefixIs(c.prefix)'
    <3>1. CacheOfOne(c)
      BY <1>2 DEF CachesOfOne
    <3>2. /\ \A k \in Caches : CacheOfOne(k) /\ k.known /\ ~PrefixIs(k.prefix) => ~PrefixIs(k.prefix)'
      BY <1>2, GrownCaches
    <3>3. \A p \in Bodies : PrefixIs(p) => PrefixIs(p)'
      BY DEF Grown
    <3> HIDE DEF c
    <3> QED
      BY <2>1, <3>1, <3>2, <3>3, CachesAre
  <2>9. OnTrack(u) => OnTrack(u)'
    <3> SUFFICES ASSUME OnTrack(u)
                 PROVE  OnTrack(u)'
      OBVIOUS
    <3>1. PrefixIs(c.prefix)' /\ (c.known => c.mpos <= Len(c.prefix))
      BY <2>8 DEF OnTrack
    <3>2. c.bsize >= 0 => c.bgen = file'.gen /\ c.bsize <= Size'
      <4>1. c.bsize \in Int
        BY <2>1, CachesAre
      <4> QED
        BY <4>1, <1>4 DEF OnTrack
    <3>3. Pos(t) <= Size'
      BY <1>4, <2>1 DEF OnTrack
    <3>4. IF rd.pc = "check"
          THEN IF rd.start = 0 THEN rd.before = <<file.gen, file.ctime>>'
                          ELSE c.known /\ rd.start <= Len(c.prefix)
          ELSE Pos(t) = 0 \/ (c.known /\ Pos(t) <= Len(c.prefix))
      BY <2>2 DEF OnTrack
    <3>5. ~c.known => t.last = 0
      BY DEF OnTrack
    <3>6. t.last <= Pos(t) \/ (owed' = {} /\ \A l \in committed : ~Held(l)')
      BY <2>6, <2>7 DEF OnTrack
    <3>7. ReadIsNews(u)' /\ QuietAhead(u)'
      BY <2>4, <2>5 DEF OnTrack
    <3> QED
      BY <1>1, <2>1, <2>2, <3>1, <3>2, <3>3, <3>4, <3>5, <3>6, <3>7 DEF OnTrack
  <2>10. OffTrack(u) => OffTrack(u)'
    <3> SUFFICES ASSUME OffTrack(u)
                 PROVE  OffTrack(u)'
      OBVIOUS
    <3>1. c.known /\ unnoticed /\ owed' = {} /\ batches' = <<>> /\ \A l \in committed : ~Held(l)'
      BY <1>1, <2>6, <2>7 DEF OffTrack
    <3>2. PrefixIs(c.prefix)' <=> PrefixIs(c.prefix)
      BY <2>8, <3>1
    <3>3. WasShort(u) => WasShort(u)'
      BY <1>1, <1>4, <2>1, <2>4, <2>5 DEF WasShort, Pos
    <3>4. WillNotice(u) => WillNotice(u)'
      <4>1. rd.pc = "check" => rd.before # <<file.gen, file.ctime>>'
        <5>1. rd.pc = "check" => rd.before[2] # file'.ctime
          <6>1. rd.before[2] \in Int
            BY <1>2 DEF TrackingTypes, Tries
          <6> QED
            BY <6>1, <1>2, <1>4 DEF ReadIsReal
        <5> QED
          BY <5>1
      <4>2. Pos(t)' = Pos(t)
        BY <2>1
      <4> QED
        BY <4>1, <4>2, <1>1, <2>1, <2>4 DEF WillNotice
    <3> QED
      BY <1>1, <2>1, <3>1, <3>2, <3>3, <3>4 DEF OffTrack
  <2>11. InPlace(u)'
    BY <1>1, <1>15, <2>9, <2>10 DEF Placed, InPlace
  <2>12. BehindPlace(u)'
    <3>1. BehindPlace(u)
      BY <1>15 DEF Placed
    <3>2. \A i \in DOMAIN batches : /\ batches[i].cp \in Int
                                    /\ \A l \in batches[i].lines : l \in 1..MaxLines /\ l < file.next /\ Held(l)
      <4>1. ASSUME NEW i \in DOMAIN batches, NEW l \in batches[i].lines
            PROVE  l \in 1..MaxLines /\ l < file.next /\ Held(l)
        <5>1. Held(l)
          BY <4>1, <1>2 DEF LinesSoFar
        <5> QED
          BY <5>1, <1>2, LinesOfFile, AheadIs
      <4>2. \A i \in DOMAIN batches : batches[i].cp \in Int
        BY <1>2, BatchesAre DEF TrackingTypes
      <4> QED
        BY <4>1, <4>2
    <3>3. ASSUME NEW i \in DOMAIN batches, NEW o, o = batches[i].cp, batches[i].sid # NoSid
          PROVE  /\ batches[i].sid = u /\ t.parsed > 0 /\ o > 0 /\ o <= Pos(t)
                 /\ \A l \in batches[i].lines : Within(l, o)' /\ l \notin history
                 /\ \A l \in committed \union batches[i].lines : ~Ahead(l, o)'
                 /\ \A l \in ToSet(rd.lines) : Ahead(l, o)'
      <4>1. /\ batches[i].sid = u /\ t.parsed > 0 /\ o > 0 /\ o <= Pos(t)
            /\ \A l \in batches[i].lines : Within(l, o) /\ l \notin history
            /\ \A l \in committed \union batches[i].lines : ~Ahead(l, o)
            /\ \A l \in ToSet(rd.lines) : Ahead(l, o)
        BY <3>1, <3>3 DEF BehindPlace
      <4>2. o \in Int
        BY <3>2, <3>3
      <4>3. \A l \in committed \union batches[i].lines : l \in 1..MaxLines /\ l < file.next
        BY <1>12, <3>2
      <4> QED
        BY <4>1, <4>2, <4>3, <1>3
    <3>4. ASSUME NEW i \in DOMAIN batches, NEW j \in DOMAIN batches, i < j, batches[i].sid # NoSid
          PROVE  batches[i].cp <= batches[j].cp /\ \A l \in batches[j].lines : Ahead(l, batches[i].cp)'
      <4>1. batches[i].cp <= batches[j].cp /\ \A l \in batches[j].lines : Ahead(l, batches[i].cp)
        BY <3>1, <3>4 DEF BehindPlace
      <4>2. batches[i].cp' = batches[i].cp
        BY <1>1
      <4> QED
        BY <4>1, <4>2, <1>3
    <3> QED
      BY <1>1, <2>1, <3>3, <3>4 DEF BehindPlace, Pos
  <2>13. OwedReached(u)'
    <3>1. OwedReached(u)
      BY <1>15 DEF Placed
    <3>2. \A l \in committed : ~Ahead(l, t.last)' /\ ~Ahead(l, Pos(t))' /\ l \notin ToSet(rd.lines)
      BY <1>1, <1>3, <1>12, <2>1, <3>1 DEF OwedReached, Pos
    <3>3. ASSUME NEW l \in owed' \ sent
          PROVE  /\ Ahead(l, t.last)'
                 /\ Ahead(l, Pos(t))' \/ l \in ToSet(rd.lines) \/ \E i \in DOMAIN batches : batches[i].sid = u /\ l \in batches[i].lines
      <4>1. CASE l \in owed
        BY <4>1, <3>1, <1>1, <1>3 DEF OwedReached, Pos
      <4>2. CASE l = file.next /\ owed' # owed
        <5>1. Live /\ ~unnoticed /\ t.last <= Pos(t)
          BY <4>2, <2>7
        <5>2. Pos(t) <= Size
          BY <5>1, <1>15 DEF Placed, InPlace, OnTrack
        <5>3. 2 * (file.next - First) + 1 = Size + 1 /\ file'.next = file.next + 1
          BY <4>2 DEF Begun
        <5>4. Held(l)'
          BY <1>5, <4>2
        <5>5. \A o \in Int : o <= Size => Ahead(l, o)'
          BY <4>2, <5>3, <5>4, <1>4 DEF Ahead
        <5>6. Ahead(l, t.last)' /\ Ahead(l, Pos(t))'
          <6>1. t.last \in Int /\ t.last <= Size /\ Pos(t) \in Int /\ Pos(t) <= Size
            BY <5>1, <5>2, <2>1, <1>4
          <6>2. t.last' = t.last /\ Pos(t)' = Pos(t)
            BY <1>1
          <6> QED
            BY <6>1, <6>2, <5>5
        <5> QED
          BY <5>6
      <4> QED
        BY <4>1, <4>2, <1>5
    <3> QED
      BY <1>1, <3>2, <3>3 DEF OwedReached
  <2>14. Placed(u)'
    BY <2>3, <2>11, <2>12, <2>13 DEF Placed
  <2> QED
    BY <1>11, <2>14 DEF TrackingInOrder
<1> QED
  BY <1>14, <1>15 DEF TrackingInOrder

(* TrAppend: a line begun while the reader is on track is owed and ahead   *)
LEMMA AppendInOrder == ASSUME Hazards = {}, TrackingInOrder, TrAppend PROVE TrackingInOrder'
<1>1. FileInLines
  BY DEF TrackingInOrder, Ground
<1>2. Grown /\ ~FromZero /\ file'.gen = file.gen
  BY <1>1, AppendGrows, LinesOfFile DEF Grown
<1>3. Begun
  BY <1>1, AppendGrows DEF Begun
<1> QED
  BY <1>2, <1>3, GrowthInOrder DEF TrAppend

(* TrTouch: nothing is new                                                 *)
LEMMA TouchInOrder == ASSUME Hazards = {}, TrackingInOrder, TrTouch PROVE TrackingInOrder'
<1>1. FileInLines /\ Size \in Nat /\ file.next \in Int
  BY LinesOfFile DEF TrackingInOrder, Ground
<1>2. /\ FileInLines' /\ file'.body = file.body /\ file'.next = file.next
      /\ file'.ctime = file.ctime + 1 /\ ~FromZero
      /\ file'.gen = file.gen \/ \A s \in Sids : seen[s].bsize < 0
  BY <1>1, TouchKeeps
<1>3. Size' = Size /\ First' = First /\ \A p : PrefixIs(p)' <=> PrefixIs(p)
  BY <1>2 DEF Size, First, PrefixIs
<1>4. Grown
  BY <1>1, <1>2, <1>3 DEF Grown
<1> QED
  BY <1>2, <1>4, GrowthInOrder DEF TrTouch, Begun

(* A replaced file has none of the lines known so far                      *)
LEMMA ReplaceInOrder == ASSUME Hazards = {}, TrackingInOrder, TrReplace PROVE TrackingInOrder'
<1>1. /\ FileInLines /\ TrackingTypes /\ CachesOfOne /\ LinesSoFar /\ ReadIsReal
      /\ file.next \in Int /\ MaxLines \in Nat /\ First \in Int /\ First < file.next
  BY LinesOfFile DEF TrackingInOrder, Ground
<1>2. /\ FileInLines' /\ First' = file.next /\ file'.next > file.next
      /\ file'.ctime = file.ctime + 1 /\ ~FromZero /\ Size' \in Nat /\ Size' >= 2
      /\ \A p \in Bodies : Len(p) >= 2 /\ (\A i \in 1..Len(p) : p[i] < file.next) => ~PrefixIs(p)'
      /\ rd.pc = "read" => seen[rd.sid].mpos = Pos(Mine)
      /\ batches \o rd.lines = <<>>
      /\ owed' = {} /\ unnoticed' = TRUE
      /\ history' \subseteq history \union file.next..(file'.next - 1)
  BY <1>1, ReplaceRenews
<1>3. UNCHANGED <<trMap, replay, tracked, seen, rd, batches, disk, sent, committed, events>>
  BY DEF TrReplace, Untouched
<1>4. batches = <<>> /\ rd.lines = <<>>
  <2>1. batches \in Seq(Sent) /\ rd.lines \in Seq(1..MaxLines)
    BY <1>1 DEF TrackingTypes, Tries, Bodies
  <2>2. Len(batches \o rd.lines) = Len(batches) + Len(rd.lines) /\ Len(batches) \in Nat /\ Len(rd.lines) \in Nat
    BY <2>1
  <2>3. Len(batches) = 0 /\ Len(rd.lines) = 0
    BY <1>2, <2>2
  <2> QED
    BY <2>1, <2>3, EmptySeq
<1>5. \A l \in committed \union history : l \in Int /\ l < file.next
  BY <1>1 DEF TrackingTypes, LinesSoFar
<1>6. \A l \in committed : ~Held(l)'
  BY <1>2, <1>5, <1>1 DEF Held
<1>7. file'.next \in 1..(MaxLines + 1) /\ file.next >= 1 /\ file.ctime \in Int
  BY <1>1, <1>2, LinesOfFile DEF FileInLines, Files
<1>8. TrackingTypes'
  <2>1. history' \subseteq 1..MaxLines
    BY <1>1, <1>2, <1>7 DEF TrackingTypes
  <2> QED
    BY <1>1, <1>2, <1>3, <2>1 DEF TrackingTypes
<1>9. \A k \in Caches : CacheOfOne(k) /\ k.known =>
        \A i \in 1..Len(k.prefix) : k.prefix[i] \in Int /\ k.prefix[i] < file.next
  BY CachesAre, BodiesAre DEF CacheOfOne
<1>10. \A s \in Sids : seen[s] \in Caches /\ CacheOfOne(seen[s]) /\ tracked[s] \in Marks
  BY <1>1 DEF TrackingTypes, CachesOfOne
<1>11. CachesOfOne'
  <2>1. ASSUME NEW k \in Caches, CacheOfOne(k)
        PROVE  CacheOfOne(k)'
    <3>1. k.known => \A i \in 1..Len(k.prefix) : k.prefix[i] < file'.next /\ k.prefix[i] < First'
      BY <1>1, <1>2, <1>7, <1>9, <2>1
    <3> QED
      BY <3>1, <2>1 DEF CacheOfOne
  <2>2. ASSUME NEW s \in Sids
        PROVE  CacheOfOne(seen[s])'
    BY <2>1, <1>3, <1>10
  <2> QED
    BY <2>2 DEF CachesOfOne
<1>12. LinesSoFar'
  <2>1. \A l \in committed' \union history' : l < file'.next
    BY <1>1, <1>2, <1>3, <1>5, <1>7
  <2>2. ToSet(rd'.lines) = {} /\ DOMAIN batches' = {}
    BY <1>3, <1>4, ReadsAre
  <2> QED
    BY <1>2, <2>1, <2>2 DEF LinesSoFar
<1>13. ReadIsReal'
  <2>1. rd.pc = "check" => rd.before[2] \in Int
    BY <1>1 DEF TrackingTypes, Tries
  <2> QED
    BY <1>1, <1>2, <1>3, <1>7, <2>1 DEF ReadIsReal
<1>14. OldestFirst' /\ NothingHandledIsQueued'
  BY <1>3, <1>4 DEF OldestFirst, NothingHandledIsQueued
<1>15. Ground'
  BY <1>2, <1>8, <1>11, <1>12, <1>13, <1>14 DEF Ground
<1>16. CASE Untracked
  <2>1. Untracked'
    BY <1>2, <1>3, <1>6, <1>16 DEF Untracked, Nothing
  <2> QED
    BY <1>15, <2>1 DEF TrackingInOrder
<1>17. ASSUME NEW u \in Sids, Placed(u)
       PROVE  TrackingInOrder'
  <2> DEFINE t == tracked[u]  c == seen[u]
  <2>1. t \in Marks /\ c \in Caches /\ CacheOfOne(c) /\ t' = t /\ c' = c /\ t.last >= 0 /\ t.last \in Int
        /\ Pos(t) \in Nat /\ c.prefix \in Bodies
    <3>1. t.last >= 0
      BY <1>17, <1>1 DEF Placed, Only, TrackingTypes
    <3> QED
      BY <3>1, <1>3, <1>10, MarksAre, CachesAre
  <2>2. Pos(t) # 0 /\ t.last # 0 /\ (rd.pc = "check" => rd.start > 0)
    <3>1. rd.start \in Nat
      BY <1>1 DEF TrackingTypes, Tries
    <3> QED
      BY <1>2, <3>1 DEF FromZero, Pos
  <2>3. Only(u)' /\ OnDisk(u)' /\ Named(u)'
    <3>1. Only(u) /\ OnDisk(u) /\ Named(u)
      BY <1>17 DEF Placed
    <3>2. Pos(tracked[u])' = Pos(tracked[u])
      BY <1>3
    <3> QED
      BY <1>3, <3>1, <3>2 DEF Only, OnDisk, Named
  <2>4. c.known
    <3>1. OnTrack(u) \/ OffTrack(u)
      BY <1>17 DEF Placed, InPlace
    <3> QED
      BY <3>1, <2>2 DEF OnTrack, OffTrack
  <2>5. ~PrefixIs(c.prefix)'
    <3>1. Len(c.prefix) >= 2 /\ \A i \in 1..Len(c.prefix) : c.prefix[i] < file.next
      BY <2>1, <2>4, <1>9 DEF CacheOfOne
    <3> HIDE DEF c
    <3> QED
      BY <2>1, <3>1, <1>2
  <2>6. rd.pc = "read" => c.mpos = Pos(t) /\ (c.mpos <= Len(c.prefix) \/ c.bsize < 0)
    <3> SUFFICES ASSUME rd.pc = "read"
                 PROVE  c.mpos = Pos(t) /\ (c.mpos <= Len(c.prefix) \/ c.bsize < 0)
      OBVIOUS
    <3>1. rd.sid = u
      BY <1>17 DEF Placed, Named
    <3>2. Mine = t
      BY <1>1, <3>1 DEF Mine, TrackingTypes
    <3>3. OnTrack(u) \/ OffTrack(u)
      BY <1>17 DEF Placed, InPlace
    <3>4. c.bsize \in Int
      BY <2>1, CachesAre
    <3>5. CASE OnTrack(u)
      BY <3>1, <3>2, <3>5, <1>2, <2>4 DEF OnTrack
    <3>6. CASE OffTrack(u)
      BY <3>1, <3>2, <3>4, <3>6, <1>2 DEF OffTrack, WasShort, WillNotice
    <3> QED
      BY <3>3, <3>5, <3>6
  <2>7. rd.pc = "check" => rd.before # <<file.gen, file.ctime>>'
    <3>1. rd.pc = "check" => rd.before[2] # file'.ctime
      <4>1. rd.before[2] \in Int
        BY <1>1 DEF TrackingTypes, Tries
      <4> QED
        BY <4>1, <1>1, <1>2, <1>7 DEF ReadIsReal
    <3> QED
      BY <3>1
  <2>8. OffTrack(u)'
    <3>1. WillNotice(u)'
      <4>1. Pos(t)' = Pos(t)
        BY <2>1
      <4> QED
        BY <4>1, <2>1, <2>6, <2>7, <1>3 DEF WillNotice
    <3>2. rd.pc = "collected" => rd.lines = <<>>
      BY <1>4
    <3> QED
      BY <1>2, <1>3, <1>4, <1>6, <2>1, <2>2, <2>4, <2>5, <3>1, <3>2 DEF OffTrack
  <2>9. InPlace(u)'
    BY <1>2, <2>8 DEF InPlace
  <2>10. BehindPlace(u)'
    <3>1. DOMAIN batches' = {}
      BY <1>3, <1>4
    <3> QED
      BY <3>1 DEF BehindPlace
  <2>11. OwedReached(u)'
    <3>1. \A l, o : ~Held(l)' => ~Ahead(l, o)'
      BY DEF Ahead
    <3>2. \A l \in committed : ~Ahead(l, t.last)' /\ ~Ahead(l, Pos(t))'
      BY <1>3, <1>6, <3>1
    <3>3. ToSet(rd.lines) = {}
      BY <1>4, ReadsAre
    <3> QED
      BY <1>2, <1>3, <3>2, <3>3 DEF OwedReached
  <2>12. Placed(u)'
    BY <2>3, <2>9, <2>10, <2>11 DEF Placed
  <2> QED
    BY <1>15, <2>12 DEF TrackingInOrder
<1> QED
  BY <1>16, <1>17 DEF TrackingInOrder

----------------------------------------------------------------------------
(* Following a file from its end.                                           *)

(* The caches after a stable read are of the file as it is                 *)
LEMMA PrimedIs ==
  ASSUME FileInLines, NEW o \in Nat, NEW b \in Int, NEW g \in Int
  PROVE  \A c : c = Primed(o, b, g) =>
         /\ c \in Caches /\ CacheOfOne(c) /\ c.known = TRUE /\ c.prefix = file.body /\ c.mpos = o
         /\ c.bsize = b /\ c.bgen = g /\ c.gen = file.gen /\ c.ctime = file.ctime
         /\ PrefixIs(c.prefix) /\ Len(c.prefix) = Size
<1> SUFFICES ASSUME NEW c, c = Primed(o, b, g)
             PROVE  /\ c \in Caches /\ CacheOfOne(c) /\ c.known = TRUE /\ c.prefix = file.body /\ c.mpos = o
                    /\ c.bsize = b /\ c.bgen = g /\ c.gen = file.gen /\ c.ctime = file.ctime
                    /\ PrefixIs(c.prefix) /\ Len(c.prefix) = Size
  OBVIOUS
<1>1. file.body \in Bodies /\ Size \in Nat /\ Size >= 2 /\ Size = Len(file.body) /\ file.next \in Int
  BY LinesOfFile DEF Size
<1>2. /\ c.known = TRUE /\ c.prefix = file.body /\ c.mpos = o /\ c.mval = Marker(o)
      /\ c.bsize = b /\ c.bgen = g /\ c.gen = file.gen /\ c.ctime = file.ctime /\ c.mtime = file.mtime
  BY DEF Primed
<1>3. Marker(o) = MarkOf(file.body, o) /\ Marker(o) \in Int
  <2>1. \A i \in 1..Size : file.body[i] \in Int
    BY <1>1, BodiesAre
  <2> QED
    BY <1>1, <2>1 DEF Marker, MarkOf
<1>4. c \in Caches
  <2>1. file.gen \in Int /\ file.ctime \in Int /\ file.mtime \in Int
    BY DEF FileInLines, Files
  <2> QED
    BY <1>1, <1>3, <2>1 DEF Primed, Caches
<1>5. PrefixIs(c.prefix)
  BY <1>2, PrefixOfSelf
<1>6. \A i \in 1..Size : file.body[i] < file.next
  BY LinesOfFile, AheadIs
<1>7. CacheOfOne(c)
  BY <1>1, <1>2, <1>3, <1>5, <1>6 DEF CacheOfOne
<1> QED
  BY <1>1, <1>2, <1>4, <1>5, <1>7

(* A session that starts at the end of the file owes nothing               *)
LEMMA FromTheEnd ==
  ASSUME FileInLines, UNCHANGED file, NEW u \in Sids, NEW p \in {-1, Size},
         Only(u)', OnDisk(u)', trMap' = u, NoSid \notin Sids, rd'.pc \in {"idle", "commit"}, rd'.lines = <<>>,
         tracked'[u] = [last |-> Size, parsed |-> p], seen'[u] = Primed(Size, -1, -1),
         owed' = {}, \A i \in DOMAIN batches' : batches'[i].sid = NoSid
  PROVE  Placed(u)'
<1>1. Size \in Nat /\ Size >= 2 /\ Size' = Size
  BY LinesOfFile, SameFile
<1>2. /\ tracked'[u].last = Size /\ Pos(tracked'[u]) = Size
  <2>1. p \in (Nat \ {0}) \union {-1}
    BY <1>1
  <2> QED
    BY <1>1, <2>1, MarksAre
<1> PICK c : c = Primed(Size, -1, -1)
  OBVIOUS
<1>3. /\ c.known = TRUE /\ c.mpos = Size /\ c.bsize = -1 /\ PrefixIs(c.prefix) /\ Len(c.prefix) = Size
      /\ \A k : PrefixIs(k)' <=> PrefixIs(k)
  <2>1. -1 \in Int /\ Size \in Nat
    BY <1>1
  <2>3. \A k : k = Primed(Size, -1, -1) =>
         /\ k \in Caches /\ CacheOfOne(k) /\ k.known = TRUE /\ k.prefix = file.body /\ k.mpos = Size
         /\ k.bsize = -1 /\ k.bgen = -1 /\ k.gen = file.gen /\ k.ctime = file.ctime
         /\ PrefixIs(k.prefix) /\ Len(k.prefix) = Size
    BY <2>1, PrimedIs, Zenon
  <2>2. /\ c.known = TRUE /\ c.mpos = Size /\ c.bsize = -1 /\ PrefixIs(c.prefix) /\ Len(c.prefix) = Size
    BY <2>3
  <2> QED
    BY <2>2, SameFile
<1>4. \A l : ~Ahead(l, Size)'
  <2>1. \A l, o : Ahead(l, o)' <=> Ahead(l, o)
    BY SameFile
  <2>2. \A l : ~Ahead(l, Size)
    BY <1>1, AheadIs
  <2> QED
    <3>1. PICK z : z = Size
      OBVIOUS
    <3>2. \A l : ~Ahead(l, z)'
      BY <2>1, <2>2, <3>1
    <3> QED
      BY <3>1, <3>2, <1>1
<1>5. PICK z : z = Size
  OBVIOUS
<1>6. \A l : ~Ahead(l, z)'
  BY <1>4, <1>5, <1>1
<1>7. QuietAhead(u)' /\ ReadIsNews(u)'
  <2>1. Pos(tracked[u])' = z
    BY <1>2, <1>5
  <2>2. QuietAhead(u)'
    BY <1>6, <2>1 DEF QuietAhead
  <2> QED
    BY <2>2, ReadsAre DEF ReadIsNews
<1>8. Named(u)'
  BY DEF Named
<1>9. InPlace(u)'
  <2>1. OnTrack(u)'
    <3>1. seen'[u] = c
      OBVIOUS
    <3> QED
      BY <1>1, <1>2, <1>3, <1>7, <3>1 DEF OnTrack
  <2> QED
    BY <2>1 DEF InPlace
<1>10. BehindPlace(u)'
  BY DEF BehindPlace
<1>11. OwedReached(u)'
  <2>1. ToSet(rd'.lines) = {}
    BY ReadsAre
  <2>2. Pos(tracked[u])' = z /\ tracked'[u].last = z
    BY <1>2, <1>5
  <2> QED
    BY <1>6, <2>1, <2>2 DEF OwedReached
<1> QED
  BY <1>8, <1>9, <1>10, <1>11 DEF Placed

(* What a cache is of does not change with the rest                        *)
LEMMA CachesKept ==
  ASSUME FileInLines, UNCHANGED file, CachesOfOne, \A s \in Sids : seen'[s] = seen[s] \/ CacheOfOne(seen'[s])
  PROVE  CachesOfOne'
<1>1. \A c : CacheOfOne(c)' <=> CacheOfOne(c)
  BY SameFile
<1> QED
  BY <1>1 DEF CachesOfOne

(* What is assumed of the constants                                        *)
LEMMA ConstantsAre ==
  /\ Sids # {} /\ NoSid \notin Sids /\ MaxLines \in Nat /\ (Hazards = {} => \A h : h \notin Hazards)
  BY TrackingAssumption

(* The caches of a session that starts at the end                          *)
LEMMA EndIs ==
  ASSUME FileInLines
  PROVE  Primed(Size, -1, -1) \in Caches /\ CacheOfOne(Primed(Size, -1, -1))
<1>1. PICK b \in Int, o \in Nat : b = -1 /\ o = Size
  BY LinesOfFile
<1>2. PICK k : k = Primed(o, b, b)
  OBVIOUS
<1>3. k \in Caches /\ CacheOfOne(k)
  BY <1>2, PrimedIs
<1> QED
  BY <1>1, <1>2, <1>3

(* FirstSighting: all that is there is history                             *)
LEMMA FirstSightingInOrder == ASSUME TrackingInOrder, FirstSighting PROVE TrackingInOrder'
<1>1. /\ FileInLines /\ TrackingTypes /\ CachesOfOne /\ LinesSoFar /\ ReadIsReal /\ OldestFirst
      /\ NothingHandledIsQueued /\ UNCHANGED file /\ Size \in Nat /\ Size >= 2
  BY LinesOfFile DEF TrackingInOrder, Ground, FirstSighting
<1>2. /\ rd.pc = "idle" /\ trMap # NoSid /\ ~replay /\ tracked[trMap] = None /\ Other(trMap) = {}
      /\ tracked' = [tracked EXCEPT ![trMap] = [last |-> Size, parsed |-> -1]]
      /\ seen' = [seen EXCEPT ![trMap] = Primed(Size, -1, -1)]
      /\ disk' = [disk EXCEPT ![trMap] = Size]
      /\ history' = history \union ToSet(file.body)
      /\ unnoticed' = FALSE
      /\ UNCHANGED <<file, trMap, replay, rd, batches, owed, sent, committed, events>>
  BY DEF FirstSighting
<1>3. Untracked
  <2>1. ASSUME NEW u \in Sids, Placed(u)
        PROVE  FALSE
    BY <2>1, <1>2, OthersAre DEF Placed
  <2> QED
    BY <2>1 DEF TrackingInOrder
<1>4. PICK u \in Sids : u = trMap
  BY <1>1, <1>2 DEF TrackingTypes
<1> DEFINE m == [last |-> Size, parsed |-> -1]  c == Primed(Size, -1, -1)
<1>5. m \in Marks /\ m.last = Size
  BY <1>1, MarksAre
<1>6. c \in Caches /\ CacheOfOne(c)
  BY <1>1, EndIs
<1>7. /\ tracked \in [Sids -> Marks] /\ seen \in [Sids -> Caches] /\ disk \in [Sids -> Nat \union {-1}]
      /\ \A s \in Sids : tracked[s] = None /\ seen[s] = NoCache /\ disk[s] = -1
  BY <1>1, <1>3 DEF TrackingTypes, Untracked, Nothing
<1> HIDE DEF m, c
<1>8. /\ tracked' = [tracked EXCEPT ![u] = m] /\ seen' = [seen EXCEPT ![u] = c] /\ disk' = [disk EXCEPT ![u] = Size]
  BY <1>2, <1>4 DEF m, c
<1>9. /\ tracked' \in [Sids -> Marks] /\ seen' \in [Sids -> Caches] /\ disk' \in [Sids -> Nat \union {-1}]
      /\ tracked'[u] = m /\ seen'[u] = c /\ disk'[u] = Size
      /\ \A s \in Sids : s # u => tracked'[s] = None /\ seen'[s] = NoCache /\ disk'[s] = -1
  BY <1>1, <1>4, <1>5, <1>6, <1>7, <1>8
<1>10. \A l \in ToSet(file.body) : Held(l) /\ l \in 1..MaxLines /\ l < file.next
  BY <1>1, BodyIs, LinesOfFile, AheadIs
<1>11. m # None
  BY <1>5, <1>1, MarksAre
<1>12. TrackingTypes'
  <2>1. history' \subseteq 1..MaxLines
    BY <1>1, <1>2, <1>10 DEF TrackingTypes
  <2>2. \A s \in Sids : IF tracked'[s] = None THEN seen'[s] = NoCache ELSE tracked'[s].last >= 0
    BY <1>1, <1>5, <1>9, <1>11
  <2> QED
    BY <1>1, <1>2, <1>9, <2>1, <2>2 DEF TrackingTypes
<1>13. CachesOfOne'
  <2>1. \A s \in Sids : seen'[s] = seen[s] \/ CacheOfOne(seen'[s])
    BY <1>6, <1>7, <1>9
  <2> QED
    BY <1>1, <2>1, CachesKept
<1>14. LinesSoFar'
  <2>1. \A l \in committed' \union history' : l < file'.next
    BY <1>1, <1>2, <1>10 DEF LinesSoFar
  <2>2. \A l : Held(l)' <=> Held(l)
    BY <1>1, SameFile
  <2> QED
    BY <1>1, <1>2, <2>1, <2>2 DEF LinesSoFar
<1>15. ReadIsReal' /\ OldestFirst' /\ NothingHandledIsQueued'
  BY <1>1, <1>2 DEF ReadIsReal, OldestFirst, NothingHandledIsQueued
<1>16. Ground'
  BY <1>1, <1>12, <1>13, <1>14, <1>15, SameFile DEF Ground
<1>17. Placed(u)'
  <2>1. Only(u)' /\ OnDisk(u)'
    BY <1>5, <1>9, <1>11 DEF Only, OnDisk
  <2>2. rd'.pc = "idle" /\ rd'.lines = <<>>
    BY <1>1, <1>2 DEF ReadIsReal
  <2>3. owed' = {} /\ \A i \in DOMAIN batches' : batches'[i].sid = NoSid
    BY <1>2, <1>3 DEF Untracked
  <2>4. tracked'[u] = [last |-> Size, parsed |-> -1] /\ seen'[u] = Primed(Size, -1, -1)
    BY <1>9 DEF m, c
  <2>5. \E p \in {-1, Size} : tracked'[u] = [last |-> Size, parsed |-> p]
    BY <2>4
  <2> QED
    BY <1>1, <1>2, <1>4, <2>1, <2>2, <2>3, <2>4, <2>5, FromTheEnd, ConstantsAre
<1> QED
  BY <1>16, <1>17 DEF TrackingInOrder

(* Seal: nothing is owed, nothing on its way                               *)
LEMMA SealInOrder == ASSUME Hazards = {}, TrackingInOrder, Seal PROVE TrackingInOrder'
<1>1. /\ FileInLines /\ TrackingTypes /\ CachesOfOne /\ LinesSoFar /\ ReadIsReal /\ OldestFirst
      /\ NothingHandledIsQueued /\ UNCHANGED file /\ Size \in Nat /\ Size >= 2
  BY LinesOfFile DEF TrackingInOrder, Ground, Seal
<1>2. /\ trMap # NoSid /\ rd.pc \notin {"read", "check", "collected"}
      /\ tracked[trMap] # None \/ Other(trMap) = {}
      /\ tracked' = [tracked EXCEPT ![trMap] = [last |-> Size, parsed |-> Size]]
      /\ seen' = [seen EXCEPT ![trMap] = Primed(Size, -1, -1)]
      /\ rd' = rd /\ batches' = <<>>
      /\ disk' = Save(tracked') /\ committed' = committed \union EndBy(Size)
      /\ owed' = owed \ StartFrom(0) /\ unnoticed' = FALSE
      /\ UNCHANGED <<file, trMap, replay, sent, history>>
  BY ConstantsAre DEF Seal
<1>3. PICK u \in Sids : u = trMap
  BY <1>1, <1>2 DEF TrackingTypes
<1>4. \A s \in Sids : s # u => tracked[s] = None
  <2>1. CASE Untracked
    BY <2>1 DEF Untracked, Nothing
  <2>2. ASSUME NEW v \in Sids, Placed(v)
        PROVE  \A s \in Sids : s # u => tracked[s] = None
    <3>1. Only(v)
      BY <2>2 DEF Placed
    <3>2. tracked[v] # None /\ \A s \in Sids : s # v => tracked[s] = None
      BY <3>1 DEF Only
    <3>3. u = v
      BY <3>2, <1>2, <1>3 DEF Other
    <3> QED
      BY <3>2, <3>3
  <2> QED
    BY <2>1, <2>2 DEF TrackingInOrder
<1> DEFINE m == [last |-> Size, parsed |-> Size]  c == Primed(Size, -1, -1)
<1>5. m \in Marks /\ m.last = Size
  <2>1. Size \in Nat \ {0} /\ Size \in Nat
    BY <1>1
  <2> QED
    BY <2>1, MarksAre
<1>6. c \in Caches /\ CacheOfOne(c)
  BY <1>1, EndIs
<1>7. /\ tracked \in [Sids -> Marks] /\ seen \in [Sids -> Caches]
      /\ \A s \in Sids : s # u => seen[s] = NoCache
  BY <1>1, <1>4 DEF TrackingTypes
<1> HIDE DEF m, c
<1>8. /\ tracked' = [tracked EXCEPT ![u] = m] /\ seen' = [seen EXCEPT ![u] = c]
  BY <1>2, <1>3 DEF m, c
<1>9. /\ tracked' \in [Sids -> Marks] /\ seen' \in [Sids -> Caches]
      /\ tracked'[u] = m /\ seen'[u] = c
      /\ \A s \in Sids : s # u => tracked'[s] = None /\ seen'[s] = NoCache
  BY <1>1, <1>3, <1>4, <1>5, <1>6, <1>7, <1>8
<1>10. /\ disk' \in [Sids -> Nat \union {-1}] /\ disk'[u] = Size
       /\ \A s \in Sids : s # u => disk'[s] = -1
  <2>1. disk' = [s \in Sids |-> tracked'[s].last]
    BY <1>2 DEF Save
  <2>2. \A s \in Sids : tracked'[s].last \in Nat \union {-1}
    BY <1>9, MarksAre
  <2>3. tracked'[u].last = Size /\ \A s \in Sids : s # u => tracked'[s].last = -1
    BY <1>5, <1>9, MarksAre
  <2> QED
    BY <1>3, <2>1, <2>2, <2>3
<1>11. m # None
  BY <1>5, <1>1, MarksAre
<1>12. \A l \in EndBy(Size) : Held(l) /\ l \in 1..MaxLines /\ l < file.next
  BY <1>1, EndByIs, LinesOfFile, AheadIs
<1>13. owed' = {}
  <2>1. 0 \in Int
    OBVIOUS
  <2>2. \A l \in owed : l \in StartFrom(0)
    BY <1>1, <2>1, StartFromIs, AheadIs DEF LinesSoFar
  <2> QED
    BY <1>2, <2>2
<1>14. TrackingTypes'
  <2>1. committed' \subseteq 1..MaxLines
    BY <1>1, <1>2, <1>12 DEF TrackingTypes
  <2>2. \A s \in Sids : IF tracked'[s] = None THEN seen'[s] = NoCache ELSE tracked'[s].last >= 0
    BY <1>1, <1>5, <1>9, <1>11
  <2>3. batches' \in Seq(Sent)
    BY <1>2, EmptySeq
  <2> QED
    BY <1>1, <1>2, <1>9, <1>10, <1>13, <2>1, <2>2, <2>3 DEF TrackingTypes
<1>15. CachesOfOne'
  <2>1. \A s \in Sids : seen'[s] = seen[s] \/ CacheOfOne(seen'[s])
    BY <1>6, <1>7, <1>9
  <2> QED
    BY <1>1, <2>1, CachesKept
<1>16. DOMAIN batches' = {}
  BY <1>2
<1>17. LinesSoFar'
  <2>1. \A l \in committed' \union history' : l < file'.next
    BY <1>1, <1>2, <1>12 DEF LinesSoFar
  <2>2. \A l : Held(l)' <=> Held(l)
    BY <1>1, SameFile
  <2> QED
    BY <1>1, <1>2, <1>13, <1>16, <2>1, <2>2 DEF LinesSoFar
<1>18. ReadIsReal' /\ OldestFirst' /\ NothingHandledIsQueued'
  BY <1>1, <1>2, <1>16 DEF ReadIsReal, OldestFirst, NothingHandledIsQueued
<1>19. Ground'
  BY <1>1, <1>14, <1>15, <1>17, <1>18, SameFile DEF Ground
<1>20. Placed(u)'
  <2>1. Only(u)' /\ OnDisk(u)'
    BY <1>5, <1>9, <1>10, <1>11 DEF Only, OnDisk
  <2>2. rd'.pc \in {"idle", "commit"} /\ rd'.lines = <<>>
    BY <1>1, <1>2 DEF ReadIsReal, TrackingTypes, Tries, Steps
  <2>3. \A i \in DOMAIN batches' : batches'[i].sid = NoSid
    BY <1>16
  <2>4. tracked'[u] = [last |-> Size, parsed |-> Size] /\ seen'[u] = Primed(Size, -1, -1)
    BY <1>9 DEF m, c
  <2> QED
    BY <1>1, <1>2, <1>3, <1>13, <2>1, <2>2, <2>3, <2>4, FromTheEnd, ConstantsAre
<1> QED
  BY <1>19, <1>20 DEF TrackingInOrder

----------------------------------------------------------------------------
(* The session map.                                                         *)

(* Nothing but the map and the replay marker changes                       *)
LEMMA MapMoves ==
  ASSUME Ground, UNCHANGED <<file, tracked, seen, rd, batches, disk, owed, sent, committed, history, unnoticed>>,
         trMap' \in Sids \union {NoSid}, replay' \in BOOLEAN
  PROVE  /\ Ground'
         /\ \A u \in Sids : InPlace(u) => InPlace(u)'
         /\ \A u \in Sids : BehindPlace(u) => BehindPlace(u)'
         /\ \A u \in Sids : OwedReached(u) => OwedReached(u)'
         /\ \A u \in Sids : Only(u) => Only(u)'
         /\ \A u \in Sids : OnDisk(u) => OnDisk(u)'
         /\ \A l : Held(l)' <=> Held(l)
<1>1. /\ FileInLines' /\ \A l, o : (Ahead(l, o)' <=> Ahead(l, o)) /\ (Within(l, o)' <=> Within(l, o))
      /\ \A l : Held(l)' <=> Held(l)
      /\ \A p : PrefixIs(p)' <=> PrefixIs(p)
      /\ \A c : CacheOfOne(c)' <=> CacheOfOne(c)
      /\ Size' = Size
  BY SameFile DEF Ground
<1>2. TrackingTypes'
  BY DEF Ground, TrackingTypes
<1>3. CachesOfOne'
  BY <1>1 DEF Ground, CachesOfOne
<1>4. LinesSoFar'
  BY <1>1 DEF Ground, LinesSoFar
<1>5. ReadIsReal' /\ OldestFirst' /\ NothingHandledIsQueued'
  BY DEF Ground, ReadIsReal, OldestFirst, NothingHandledIsQueued
<1>6. Ground'
  BY <1>1, <1>2, <1>3, <1>4, <1>5 DEF Ground
<1>7. ASSUME NEW u \in Sids
      PROVE  /\ InPlace(u) => InPlace(u)'
             /\ Only(u) => Only(u)'
             /\ OnDisk(u) => OnDisk(u)'
  <2>1. Pos(tracked[u])' = Pos(tracked[u]) /\ PrefixIs(seen[u].prefix)' = PrefixIs(seen[u].prefix)
    BY DEF PrefixIs, Size
  <2>2. (QuietAhead(u) => QuietAhead(u)') /\ (ReadIsNews(u) => ReadIsNews(u)')
    BY <1>1, <2>1 DEF QuietAhead, ReadIsNews, Pos
  <2>3. OnTrack(u) => OnTrack(u)'
    BY <1>1, <2>1, <2>2 DEF OnTrack
  <2>4. (WasShort(u) => WasShort(u)') /\ (WillNotice(u) => WillNotice(u)')
    BY <1>1, <2>1, <2>2 DEF WasShort, WillNotice
  <2>5. OffTrack(u) => OffTrack(u)'
    BY <1>1, <2>1, <2>4 DEF OffTrack
  <2>6. InPlace(u) => InPlace(u)'
    BY <2>3, <2>5 DEF InPlace
  <2> QED
    BY <2>6 DEF Only, OnDisk
<1>8. ASSUME NEW u \in Sids
      PROVE  BehindPlace(u) => BehindPlace(u)'
  BY <1>1 DEF BehindPlace, Pos
<1>9. ASSUME NEW u \in Sids
      PROVE  OwedReached(u) => OwedReached(u)'
  BY <1>1 DEF OwedReached, Pos
<1> QED
  BY <1>1, <1>6, <1>7, <1>8, <1>9

(* Refresh: the old id is still the only one that tracks the file          *)
LEMMA RefreshInOrder == ASSUME Hazards = {}, TrackingInOrder, Refresh PROVE TrackingInOrder'
<1>1. /\ rd.pc = "idle" /\ \A s \in Sids : tracked[s].last <= Pos(tracked[s])
      /\ trMap' \in Sids /\ trMap # NoSid /\ replay' = FALSE
      /\ UNCHANGED <<file, tracked, seen, rd, batches, disk, owed, sent, committed, history, unnoticed>>
  BY ConstantsAre DEF Refresh
<1>2. Ground
  BY DEF TrackingInOrder
<1>3. /\ Ground'
      /\ \A u \in Sids : InPlace(u) => InPlace(u)'
      /\ \A u \in Sids : BehindPlace(u) => BehindPlace(u)'
      /\ \A u \in Sids : OwedReached(u) => OwedReached(u)'
      /\ \A u \in Sids : Only(u) => Only(u)'
      /\ \A u \in Sids : OnDisk(u) => OnDisk(u)'
  BY <1>1, <1>2, MapMoves
<1>4. CASE Untracked
  <2>1. Untracked'
    BY <1>1, <1>4 DEF Untracked, Nothing
  <2> QED
    BY <1>3, <2>1 DEF TrackingInOrder
<1>5. ASSUME NEW u \in Sids, Placed(u)
      PROVE  TrackingInOrder'
  <2>1. Named(u)'
    <3>1. Pos(tracked[u])' = Pos(tracked[u]) /\ trMap' # NoSid
      BY <1>1, ConstantsAre
    <3> QED
      BY <1>1, <3>1 DEF Named
  <2>2. Placed(u)'
    BY <1>3, <1>5, <2>1 DEF Placed
  <2> QED
    BY <1>3, <2>2 DEF TrackingInOrder
<1> QED
  BY <1>4, <1>5 DEF TrackingInOrder

(* AskReplay: the session is not tracked yet                               *)
LEMMA AskReplayInOrder == ASSUME TrackingInOrder, AskReplay PROVE TrackingInOrder'
<1>1. /\ ToSet(file.body) \intersect (committed \union sent) = {}
      /\ trMap # NoSid /\ tracked[trMap] = None /\ Other(trMap) = {} /\ replay' = TRUE
      /\ UNCHANGED <<file, trMap, tracked, seen, rd, batches, disk, owed, sent, committed, history, unnoticed>>
  BY DEF AskReplay
<1>2. Ground /\ FileInLines
  BY DEF TrackingInOrder, Ground
<1>3. Ground' /\ \A l : Held(l)' <=> Held(l)
  <2>1. trMap' \in Sids \union {NoSid}
    BY <1>1, <1>2 DEF Ground, TrackingTypes
  <2> QED
    BY <1>1, <1>2, <2>1, MapMoves
<1>4. Untracked
  <2>1. ASSUME NEW u \in Sids, Placed(u)
        PROVE  FALSE
    BY <2>1, <1>1, OthersAre DEF Placed
  <2> QED
    BY <2>1 DEF TrackingInOrder
<1>5. \A l \in committed : ~Held(l)
  BY <1>1, <1>2, BodyIs
<1>6. Untracked'
  BY <1>1, <1>3, <1>4, <1>5 DEF Untracked, Nothing
<1> QED
  BY <1>3, <1>6 DEF TrackingInOrder

(* Return: only the map changes                                            *)
LEMMA ReturnInOrder == ASSUME TrackingInOrder, Return PROVE TrackingInOrder'
<1>1. /\ trMap = NoSid /\ trMap' \in Sids
      /\ UNCHANGED <<file, replay, tracked, seen, rd, batches, disk, owed, sent, committed, history, unnoticed>>
  BY DEF Return
<1>2. Ground /\ replay \in BOOLEAN
  BY DEF TrackingInOrder, Ground, TrackingTypes
<1>3. Ground'
  BY <1>1, <1>2, MapMoves
<1>4. Untracked
  BY <1>1 DEF TrackingInOrder, Placed, Named
<1>5. Untracked'
  BY <1>1, <1>4 DEF Untracked, Nothing
<1> QED
  BY <1>3, <1>5 DEF TrackingInOrder

(* Clear: nothing is tracked any more                                      *)
LEMMA ClearInOrder == ASSUME TrackingInOrder, Clear PROVE TrackingInOrder'
<1>1. /\ FileInLines /\ TrackingTypes /\ CachesOfOne /\ LinesSoFar /\ ReadIsReal /\ OldestFirst
      /\ NothingHandledIsQueued /\ UNCHANGED file
  BY DEF TrackingInOrder, Ground, Clear
<1>2. /\ rd.pc = "idle" /\ trMap' = NoSid /\ replay' = FALSE
      /\ tracked' = [s \in Sids |-> None] /\ seen' = [s \in Sids |-> NoCache]
      /\ batches' = [i \in DOMAIN batches |-> [batches[i] EXCEPT !.sid = NoSid]]
      /\ disk' = [s \in Sids |-> -1] /\ owed' = {} /\ unnoticed' = FALSE
      /\ UNCHANGED <<file, rd, sent, committed, history>>
  BY DEF Clear
<1>3. /\ batches' \in Seq(Sent) /\ DOMAIN batches' = DOMAIN batches
      /\ \A i \in DOMAIN batches : /\ batches'[i].sid = NoSid /\ batches'[i].lines = batches[i].lines
                                   /\ batches'[i].done = batches[i].done
  <2>1. /\ Len(batches) \in Nat /\ DOMAIN batches = 1..Len(batches)
        /\ \A i \in DOMAIN batches : batches[i] \in Sent
    BY <1>1, BatchesAre DEF TrackingTypes
  <2>2. ASSUME NEW b \in Sent
        PROVE  LET w == [b EXCEPT !.sid = NoSid] IN
               w \in Sent /\ w.sid = NoSid /\ w.lines = b.lines /\ w.done = b.done
    BY DEF Sent
  <2>3. batches' \in [1..Len(batches) -> Sent]
    BY <1>2, <2>1, <2>2
  <2>4. batches' \in Seq(Sent)
    BY <2>1, <2>3, SeqDef
  <2> QED
    BY <1>2, <2>1, <2>2, <2>4
<1>4. TrackingTypes'
  BY <1>1, <1>2, <1>3, MarksAre, CachesAre DEF TrackingTypes
<1>5. CachesOfOne'
  <2>1. CacheOfOne(NoCache)
    BY CachesAre DEF CacheOfOne
  <2> QED
    BY <1>1, <1>2, <2>1, CachesKept
<1>6. LinesSoFar'
  <2>1. \A l : Held(l)' <=> Held(l)
    BY <1>1, SameFile
  <2> QED
    BY <1>1, <1>2, <1>3, <2>1 DEF LinesSoFar
<1>7. ReadIsReal' /\ OldestFirst' /\ NothingHandledIsQueued'
  BY <1>1, <1>2, <1>3 DEF ReadIsReal, OldestFirst, NothingHandledIsQueued
<1>8. Ground'
  BY <1>1, <1>4, <1>5, <1>6, <1>7, SameFile DEF Ground
<1>9. Untracked'
  BY <1>2, <1>3 DEF Untracked, Nothing
<1> QED
  BY <1>8, <1>9 DEF TrackingInOrder

(* ReserveReplay: from offset zero every line is ahead and owed            *)
LEMMA ReserveReplayInOrder == ASSUME TrackingInOrder, ReserveReplay PROVE TrackingInOrder'
<1>1. /\ FileInLines /\ TrackingTypes /\ CachesOfOne /\ LinesSoFar /\ ReadIsReal /\ OldestFirst
      /\ NothingHandledIsQueued /\ Ground /\ UNCHANGED file /\ Size \in Nat /\ Size >= 2
  BY LinesOfFile DEF TrackingInOrder, Ground, ReserveReplay
<1>2. /\ rd.pc = "idle" /\ trMap # NoSid /\ replay /\ replay' = FALSE
      /\ UNCHANGED <<file, trMap, seen, rd, batches, sent, committed, unnoticed, events>>
  BY DEF ReserveReplay
<1>3. CASE tracked[trMap] # None
  <2>1. UNCHANGED <<tracked, disk, owed, history>>
    BY <1>3 DEF ReserveReplay
  <2>2. PICK u \in Sids : Placed(u)
    <3>1. trMap \in Sids
      BY <1>1, <1>2 DEF TrackingTypes
    <3> QED
      BY <1>3, <3>1 DEF TrackingInOrder, Untracked, Nothing
  <2>3. /\ Ground' /\ InPlace(u)' /\ BehindPlace(u)' /\ OwedReached(u)' /\ Only(u)' /\ OnDisk(u)'
    <3>1. trMap' \in Sids \union {NoSid} /\ replay' \in BOOLEAN
      BY <1>1, <1>2 DEF TrackingTypes
    <3> QED
      BY <1>1, <1>2, <2>1, <2>2, <3>1, MapMoves DEF Placed
  <2>4. Named(u)'
    <3>1. Named(u) /\ Pos(tracked[u])' = Pos(tracked[u])
      BY <2>1, <2>2 DEF Placed
    <3> QED
      BY <1>2, <2>1, <3>1 DEF Named
  <2> QED
    BY <2>3, <2>4 DEF Placed, TrackingInOrder
<1>4. CASE tracked[trMap] = None
  <2>1. /\ tracked' = [tracked EXCEPT ![trMap] = [last |-> 0, parsed |-> -1]]
        /\ disk' = [disk EXCEPT ![trMap] = 0]
        /\ owed' = owed \union StartFrom(0)
        /\ history' = history \ ToSet(file.body)
    BY <1>4 DEF ReserveReplay
  <2>2. Untracked
    <3>1. ASSUME NEW v \in Sids, Placed(v)
          PROVE  FALSE
      BY <3>1, <1>2, <1>4 DEF Placed, Only, Named
    <3> QED
      BY <3>1 DEF TrackingInOrder
  <2>3. PICK u \in Sids : u = trMap
    BY <1>1, <1>2 DEF TrackingTypes
  <2> DEFINE m == [last |-> 0, parsed |-> -1]
  <2>4. m \in Marks /\ m.last = 0 /\ m.parsed = -1 /\ Pos(m) = 0 /\ m # None
    BY MarksAre
  <2> HIDE DEF m
  <2>5. /\ tracked' \in [Sids -> Marks] /\ disk' \in [Sids -> Nat \union {-1}]
        /\ tracked'[u] = m /\ disk'[u] = 0 /\ seen'[u] = NoCache
        /\ \A s \in Sids : s # u => tracked'[s] = None /\ seen'[s] = NoCache /\ disk'[s] = -1
    <3>1. /\ tracked \in [Sids -> Marks] /\ disk \in [Sids -> Nat \union {-1}]
          /\ \A s \in Sids : tracked[s] = None /\ seen[s] = NoCache /\ disk[s] = -1
      BY <1>1, <2>2 DEF TrackingTypes, Untracked, Nothing
    <3>2. tracked' = [tracked EXCEPT ![u] = m] /\ disk' = [disk EXCEPT ![u] = 0]
      BY <2>1, <2>3 DEF m
    <3> QED
      BY <1>2, <2>4, <3>1, <3>2
  <2>6. /\ \A l : (l \in StartFrom(0) <=> Held(l)) /\ (l \in ToSet(file.body) <=> Held(l))
        /\ \A l : Held(l) => l \in 1..MaxLines
        /\ \A l : Held(l)' <=> Held(l)
    <3>1. 0 \in Int
      OBVIOUS
    <3> QED
      BY <1>1, <3>1, StartFromIs, AheadIs, BodyIs, LinesOfFile, SameFile
  <2>7. (\A l \in owed' : Held(l) /\ l \in 1..MaxLines) /\ (\A l \in history' : ~Held(l) /\ l \in history)
    BY <2>1, <2>2, <2>6 DEF Untracked
  <2>8. Ground'
    <3>1. TrackingTypes'
      <4>1. owed' \subseteq 1..MaxLines /\ history' \subseteq 1..MaxLines
        BY <1>1, <2>7 DEF TrackingTypes
      <4>2. \A s \in Sids : IF tracked'[s] = None THEN seen'[s] = NoCache ELSE tracked'[s].last >= 0
        BY <2>4, <2>5
      <4> QED
        BY <1>1, <1>2, <2>5, <4>1, <4>2 DEF TrackingTypes
    <3>2. CachesOfOne'
      BY <1>1, <1>2, CachesKept
    <3>3. LinesSoFar'
      BY <1>1, <1>2, <2>6, <2>7 DEF LinesSoFar
    <3>4. ReadIsReal' /\ OldestFirst' /\ NothingHandledIsQueued'
      BY <1>1, <1>2 DEF ReadIsReal, OldestFirst, NothingHandledIsQueued
    <3> QED
      BY <1>1, <3>1, <3>2, <3>3, <3>4, SameFile DEF Ground
  <2>9. \A l, o : Ahead(l, o)' => Held(l)
    BY <2>6 DEF Ahead
  <2>10. \A l \in committed : ~Held(l)
    BY <1>2, <2>2 DEF Untracked
  <2>11. rd'.pc = "idle" /\ rd'.lines = <<>> /\ ToSet(rd'.lines) = {}
    BY <1>1, <1>2, ReadsAre DEF ReadIsReal
  <2>12. Placed(u)'
    <3>1. Only(u)' /\ OnDisk(u)'
      BY <2>4, <2>5 DEF Only, OnDisk
    <3>2. Named(u)'
      BY <1>2, <2>3, <2>11 DEF Named
    <3>3. Pos(tracked[u])' = 0
      BY <2>4, <2>5
    <3>4. OnTrack(u)'
      <4>1. PrefixIs(<<>>)'
        <5>1. /\ <<>> \in Seq(1..MaxLines) /\ Len(<<>>) = 0
          BY EmptySeq
        <5>2. file'.body \in Seq(1..MaxLines) /\ Len(file'.body) \in Nat
          BY <1>1 DEF FileInLines, Files, Bodies
        <5>3. SubSeq(file'.body, 1, Len(<<>>)) = <<>>
          BY <5>1, <5>2, PrefixByElement
        <5> QED
          BY <5>1, <5>2, <5>3 DEF PrefixIs, Size
      <4>2. QuietAhead(u)' /\ ReadIsNews(u)'
        BY <2>7, <2>9, <2>11 DEF QuietAhead, ReadIsNews
      <4>3. Size' = Size
        BY <1>1, SameFile
      <4> QED
        BY <1>1, <2>4, <2>5, <2>11, <3>3, <4>1, <4>2, <4>3, CachesAre DEF OnTrack
    <3>5. InPlace(u)'
      BY <3>4 DEF InPlace
    <3>6. BehindPlace(u)'
      BY <1>2, <2>2 DEF BehindPlace, Untracked
    <3>7. OwedReached(u)'
      <4>1. PICK z : z = 0
        OBVIOUS
      <4>2. \A l : Held(l) => Ahead(l, z)'
        <5>1. \A l : Held(l) => Ahead(l, 0)
          BY <1>1, AheadIs
        <5> QED
          BY <1>1, <4>1, <5>1, SameFile
      <4>3. Pos(tracked[u])' = z /\ tracked'[u].last = z
        BY <2>4, <2>5, <3>3, <4>1
      <4> QED
        BY <1>2, <2>7, <2>9, <2>10, <2>11, <4>2, <4>3 DEF OwedReached
    <3> QED
      BY <3>1, <3>2, <3>5, <3>6, <3>7 DEF Placed
  <2> QED
    BY <2>8, <2>12 DEF TrackingInOrder
<1> QED
  BY <1>3, <1>4

(* Adopt: the new id takes over the watermark and its caches, and reads    *)
(* again what waited                                                       *)
LEMMA AdoptInOrder == ASSUME TrackingInOrder, Adopt PROVE TrackingInOrder'
<1>1. /\ FileInLines /\ TrackingTypes /\ CachesOfOne /\ LinesSoFar /\ ReadIsReal /\ OldestFirst
      /\ NothingHandledIsQueued /\ UNCHANGED file /\ Size \in Nat /\ Size >= 2
  BY LinesOfFile DEF TrackingInOrder, Ground, Adopt
<1>2. PICK v \in Sids : v = trMap
  BY <1>1 DEF TrackingTypes, Adopt
<1>3. PICK u \in Other(v) :
        /\ tracked' = [tracked EXCEPT ![v] = [last |-> tracked[u].last, parsed |-> -1], ![u] = None]
        /\ seen' = [seen EXCEPT ![v] = seen[u], ![u] = NoCache]
        /\ history' = history \ StartFrom(tracked[u].last)
        /\ batches' = [i \in DOMAIN batches |->
              IF batches[i].sid = u THEN [batches[i] EXCEPT !.sid = NoSid] ELSE batches[i]]
  BY <1>2 DEF Adopt
<1>4. /\ rd.pc = "idle" /\ trMap # NoSid /\ ~replay /\ tracked[v] = None
      /\ UNCHANGED <<file, trMap, replay, rd, disk, owed, sent, committed, unnoticed, events>>
  BY <1>2 DEF Adopt
<1>5. u \in Sids /\ u # v /\ tracked[u] # None
  BY <1>3 DEF Other
<1>6. Placed(u)
  <2>1. PICK w \in Sids : Placed(w)
    BY <1>5 DEF TrackingInOrder, Untracked, Nothing
  <2>2. w = u
    BY <2>1, <1>5 DEF Placed, Only
  <2> QED
    BY <2>1, <2>2
<1> DEFINE t == tracked[u]  c == seen[u]  m == [last |-> t.last, parsed |-> -1]
<1>7. t \in Marks /\ c \in Caches /\ CacheOfOne(c) /\ t.last \in Nat /\ Pos(t) \in Nat /\ t.last <= Pos(t)
  <2>1. t \in Marks /\ c \in Caches /\ CacheOfOne(c) /\ t.last >= 0
    BY <1>1, <1>5 DEF TrackingTypes, CachesOfOne
  <2>2. t.last <= Pos(t)
    BY <1>2, <1>5, <1>6 DEF Placed, Named
  <2> QED
    BY <2>1, <2>2, MarksAre
<1>8. m \in Marks /\ m.last = t.last /\ m.parsed = -1 /\ Pos(m) = t.last /\ m # None
  <2>1. t.last \in Nat \union {-1}
    BY <1>7
  <2>2. m \in Marks /\ m.last = t.last /\ m.parsed = -1 /\ Pos(m) = t.last
    BY <2>1, MarksAre
  <2> HIDE DEF m
  <2> QED
    BY <2>2, <1>7, MarksAre
<1> HIDE DEF m
<1>9. /\ tracked' \in [Sids -> Marks] /\ seen' \in [Sids -> Caches]
      /\ tracked'[v] = m /\ seen'[v] = c
      /\ \A s \in Sids : s # v => tracked'[s] = None /\ seen'[s] = NoCache
  <2>1. tracked \in [Sids -> Marks] /\ seen \in [Sids -> Caches]
    BY <1>1 DEF TrackingTypes
  <2>2. \A s \in Sids : s # u => tracked[s] = None /\ seen[s] = NoCache
    BY <1>1, <1>6 DEF TrackingTypes, Placed, Only
  <2>3. /\ tracked' = [[tracked EXCEPT ![v] = m] EXCEPT ![u] = None]
        /\ seen' = [[seen EXCEPT ![v] = c] EXCEPT ![u] = NoCache]
    BY <1>3 DEF m
  <2> HIDE DEF t, c
  <2>4. /\ tracked' \in [Sids -> Marks] /\ seen' \in [Sids -> Caches]
    BY <2>1, <2>3, <1>2, <1>5, <1>7, <1>8, MarksAre, CachesAre
  <2> QED
    BY <2>1, <2>2, <2>3, <2>4, <1>2, <1>5
<1>10. /\ batches' \in Seq(Sent) /\ DOMAIN batches' = DOMAIN batches
       /\ \A i \in DOMAIN batches : /\ batches'[i].sid = NoSid /\ batches'[i].lines = batches[i].lines
                                    /\ batches'[i].done = batches[i].done
  <2>1. /\ Len(batches) \in Nat /\ DOMAIN batches = 1..Len(batches)
        /\ \A i \in DOMAIN batches : batches[i] \in Sent
    BY <1>1, BatchesAre DEF TrackingTypes
  <2>2. ASSUME NEW b \in Sent
        PROVE  LET w == [b EXCEPT !.sid = NoSid] IN
               w \in Sent /\ w.sid = NoSid /\ w.lines = b.lines /\ w.done = b.done
    BY DEF Sent
  <2>3. \A i \in DOMAIN batches : batches[i].sid \in {u, NoSid}
    BY <1>6 DEF Placed, BehindPlace
  <2>4. batches' \in [1..Len(batches) -> Sent]
    BY <1>3, <2>1, <2>2
  <2>5. batches' \in Seq(Sent)
    BY <2>1, <2>4, SeqDef
  <2> QED
    BY <1>3, <2>1, <2>2, <2>3, <2>5
<1>11. /\ \A l : Held(l)' <=> Held(l)
       /\ \A l, o : Ahead(l, o)' <=> Ahead(l, o)
       /\ \A p : PrefixIs(p)' <=> PrefixIs(p)
       /\ Size' = Size
  BY <1>1, SameFile
<1>12. \A l \in history' : l \in history /\ ~Ahead(l, t.last)
  BY <1>1, <1>3, <1>7, StartFromIs
<1>13. Ground'
  <2>1. TrackingTypes'
    <3>1. history' \subseteq 1..MaxLines
      BY <1>1, <1>12 DEF TrackingTypes
    <3>2. \A s \in Sids : IF tracked'[s] = None THEN seen'[s] = NoCache ELSE tracked'[s].last >= 0
      BY <1>7, <1>8, <1>9
    <3> QED
      BY <1>1, <1>4, <1>9, <1>10, <3>1, <3>2 DEF TrackingTypes
  <2>2. CachesOfOne'
    <3>1. CacheOfOne(NoCache)
      BY CachesAre DEF CacheOfOne
    <3> QED
      BY <1>1, <1>7, <1>9, <3>1, CachesKept
  <2>3. LinesSoFar'
    BY <1>1, <1>4, <1>10, <1>11, <1>12 DEF LinesSoFar
  <2>4. ReadIsReal' /\ OldestFirst' /\ NothingHandledIsQueued'
    BY <1>1, <1>4, <1>10 DEF ReadIsReal, OldestFirst, NothingHandledIsQueued
  <2> QED
    BY <1>1, <2>1, <2>2, <2>3, <2>4, SameFile DEF Ground
<1>14. rd'.pc = "idle" /\ rd'.lines = <<>> /\ ToSet(rd'.lines) = {} /\ rd' = rd
  BY <1>1, <1>4, ReadsAre DEF ReadIsReal
<1>15. PICK o : o = t.last
  OBVIOUS
<1>16. Pos(tracked[v])' = o /\ tracked'[v].last = o /\ tracked'[v].parsed = -1 /\ seen'[v] = c /\ tracked'[v] = m
  BY <1>8, <1>9, <1>15
<1>17. QuietAhead(v)' /\ ReadIsNews(v)'
  BY <1>11, <1>12, <1>14, <1>15, <1>16 DEF QuietAhead, ReadIsNews
<1>18. PrefixIs(seen[v].prefix)' <=> PrefixIs(c.prefix)
  <2>1. PICK p : p = c.prefix
    OBVIOUS
  <2>2. PrefixIs(p)' <=> PrefixIs(c.prefix)
    BY <1>11, <2>1
  <2> QED
    BY <1>9, <2>1, <2>2
<1>19. OnTrack(u) => OnTrack(v)'
  <2> SUFFICES ASSUME OnTrack(u)
               PROVE  OnTrack(v)'
    OBVIOUS
  <2>1. c.prefix \in Bodies /\ Len(c.prefix) \in Nat
    BY <1>7, CachesAre
  <2>2. t.last <= Size /\ (t.last = 0 \/ (c.known /\ t.last <= Len(c.prefix)))
    <3>1. Pos(t) <= Size /\ (Pos(t) = 0 \/ (c.known /\ Pos(t) <= Len(c.prefix)))
      BY <1>4 DEF OnTrack
    <3> QED
      BY <3>1, <2>1, <1>1, <1>7
  <2> HIDE DEF t, c
  <2>3. /\ PrefixIs(c.prefix) /\ (c.known => c.mpos <= Len(c.prefix))
        /\ c.bsize >= 0 => c.bgen = file.gen /\ c.bsize <= Size
        /\ ~c.known => t.last = 0
        /\ t.last = 0 /\ c.known => c.prefix = file.body /\ c.gen = file.gen /\ c.ctime = file.ctime
    BY DEF OnTrack, t, c
  <2> QED
    BY <1>4, <1>7, <1>11, <1>14, <1>15, <1>16, <1>17, <1>18, <2>2, <2>3 DEF OnTrack
<1>20. OffTrack(u) => OffTrack(v)'
  <2> SUFFICES ASSUME OffTrack(u)
               PROVE  OffTrack(v)'
    OBVIOUS
  <2>1. batches' = <<>>
    <3>1. DOMAIN batches' = {}
      BY <1>10 DEF OffTrack
    <3> QED
      BY <1>10, <3>1, EmptySeq
  <2>2. /\ c.known /\ unnoticed /\ t.last # 0 /\ owed = {} /\ \A l \in committed : ~Held(l)
    BY DEF OffTrack
  <2>3. PrefixIs(c.prefix) => WasShort(v)'
    <3>1. PrefixIs(c.prefix) => WasShort(u)
      BY DEF OffTrack
    <3>2. PrefixIs(c.prefix) => c.mpos > Len(c.prefix) /\ (c.bsize >= 0 => t.last = c.mpos)
      BY <3>1 DEF WasShort
    <3> HIDE DEF t, c
    <3> QED
      BY <1>14, <1>15, <1>16, <1>17, <3>2 DEF WasShort
  <2>4. WillNotice(v)'
    BY <1>14 DEF WillNotice
  <2> HIDE DEF t, c
  <2> QED
    BY <1>4, <1>11, <1>14, <1>15, <1>16, <1>18, <2>1, <2>2, <2>3, <2>4 DEF OffTrack
<1>21. Placed(v)'
  <2>1. Only(v)'
    BY <1>8, <1>9 DEF Only
  <2>2. OnDisk(v)'
    <3>1. OnDisk(u)
      BY <1>6 DEF Placed
    <3> QED
      BY <1>4, <1>15, <1>16, <3>1 DEF OnDisk
  <2>3. Named(v)'
    BY <1>2, <1>4, <1>14 DEF Named
  <2>4. InPlace(v)'
    BY <1>4, <1>6, <1>19, <1>20 DEF InPlace, Placed
  <2>5. BehindPlace(v)'
    BY <1>10 DEF BehindPlace
  <2>6. OwedReached(v)'
    <3>1. OwedReached(u)
      BY <1>6 DEF Placed
    <3>2. (\A l \in committed : ~Ahead(l, o)) /\ (\A l \in owed \ sent : Ahead(l, o))
      BY <1>15, <3>1 DEF OwedReached
    <3> QED
      BY <1>4, <1>11, <1>14, <1>16, <3>2 DEF OwedReached
  <2> QED
    BY <2>1, <2>2, <2>3, <2>4, <2>5, <2>6 DEF Placed
<1> QED
  BY <1>13, <1>21 DEF TrackingInOrder

----------------------------------------------------------------------------
(* The reader.                                                              *)

(* A step of the reader in the session u: new marks, caches and read       *)
Moves(u, m, k, r) ==
  /\ UNCHANGED <<file, trMap, replay, batches, disk, owed, sent, committed, history>>
  /\ unnoticed' \in BOOLEAN
  /\ tracked' = [tracked EXCEPT ![u] = m] /\ seen' = [seen EXCEPT ![u] = k] /\ rd' = r
  /\ m \in Marks /\ m.last = tracked[u].last /\ k \in Caches /\ CacheOfOne(k) /\ r \in Tries /\ r.sealed = FALSE
  /\ r.pc \in {"read", "check", "collected"} => r.sid = u
  /\ r.pc \in {"check", "collected"} => m.parsed > 0
  /\ r.pc \in {"idle", "read", "commit"} => r.lines = <<>>
  /\ r.pc = "check" => r.before[2] <= file.ctime
  /\ \A l \in ToSet(r.lines) : l \in ToSet(rd.lines) \/ Ahead(l, Pos(tracked[u]))
(* It goes on from where it was, or there is nothing to lose               *)
GoesOn(u, m, r) ==
  /\ Pos(m) >= Pos(tracked[u]) /\ (tracked[u].parsed > 0 => m.parsed > 0)
  /\ \A l : Ahead(l, Pos(tracked[u])) \/ l \in ToSet(rd.lines) => l \in ToSet(r.lines) \/ Ahead(l, Pos(m))
NothingToLose == owed = {} /\ batches = <<>> /\ \A l \in committed : ~Held(l)

(* A step of the reader alone that loses nothing keeps the place           *)
LEMMA ReadMoves ==
  ASSUME Ground, NEW u \in Sids, Placed(u), trMap = u, NEW m, NEW k, NEW r, Moves(u, m, k, r),
         GoesOn(u, m, r) \/ NothingToLose, InPlace(u)'
  PROVE  TrackingInOrder'
<1>1. /\ FileInLines /\ TrackingTypes /\ CachesOfOne /\ LinesSoFar /\ ReadIsReal /\ OldestFirst
      /\ NothingHandledIsQueued /\ UNCHANGED file
  BY DEF Ground, Moves
<1>2. /\ UNCHANGED <<file, trMap, replay, batches, disk, owed, sent, committed, history>>
      /\ unnoticed' \in BOOLEAN
      /\ tracked' = [tracked EXCEPT ![u] = m] /\ seen' = [seen EXCEPT ![u] = k] /\ rd' = r
      /\ m \in Marks /\ m.last = tracked[u].last /\ k \in Caches /\ CacheOfOne(k) /\ r \in Tries /\ r.sealed = FALSE
  BY DEF Moves
<1>3. /\ r.pc \in {"read", "check", "collected"} => r.sid = u
      /\ r.pc \in {"check", "collected"} => m.parsed > 0
      /\ r.pc \in {"idle", "read", "commit"} => r.lines = <<>>
      /\ r.pc = "check" => r.before[2] <= file.ctime
      /\ \A l \in ToSet(r.lines) : l \in ToSet(rd.lines) \/ Ahead(l, Pos(tracked[u]))
  BY DEF Moves
<1> DEFINE t == tracked[u]
<1>4. t \in Marks /\ t.last >= 0 /\ t.last \in Int /\ Pos(t) \in Nat /\ m # None /\ Pos(m) \in Nat
  <2>1. t \in Marks /\ t.last >= 0
    BY <1>1 DEF TrackingTypes, Placed, Only
  <2> QED
    BY <1>2, <2>1, MarksAre
<1>5. /\ tracked' \in [Sids -> Marks] /\ seen' \in [Sids -> Caches] /\ tracked'[u] = m /\ seen'[u] = k
      /\ \A s \in Sids : s # u => tracked'[s] = tracked[s] /\ seen'[s] = seen[s]
  BY <1>1, <1>2 DEF TrackingTypes
<1>6. /\ \A l : Held(l)' <=> Held(l)
      /\ \A l, o : (Ahead(l, o)' <=> Ahead(l, o)) /\ (Within(l, o)' <=> Within(l, o))
  BY <1>1, SameFile
<1>7. \A l \in ToSet(r.lines) : Held(l)
  BY <1>1, <1>3 DEF LinesSoFar, Ahead
<1>8. Ground'
  <2>1. TrackingTypes'
    <3>1. \A s \in Sids : IF tracked'[s] = None THEN seen'[s] = NoCache ELSE tracked'[s].last >= 0
      BY <1>1, <1>2, <1>4, <1>5 DEF TrackingTypes
    <3> QED
      BY <1>1, <1>2, <1>5, <3>1 DEF TrackingTypes
  <2>2. CachesOfOne'
    BY <1>1, <1>2, <1>5, CachesKept
  <2>3. LinesSoFar'
    BY <1>1, <1>2, <1>6, <1>7 DEF LinesSoFar
  <2>4. ReadIsReal' /\ OldestFirst' /\ NothingHandledIsQueued'
    BY <1>1, <1>2, <1>3 DEF ReadIsReal, OldestFirst, NothingHandledIsQueued
  <2> QED
    BY <1>1, <2>1, <2>2, <2>3, <2>4, SameFile DEF Ground
<1>9. Only(u)' /\ OnDisk(u)' /\ Named(u)'
  <2>1. Only(u) /\ OnDisk(u) /\ Named(u)
    BY DEF Placed
  <2> QED
    BY <1>2, <1>3, <1>4, <1>5, <2>1 DEF Only, OnDisk, Named
<1>10. PICK p \in Nat, o \in Int : p = Pos(m) /\ o = t.last
  BY <1>4
<1>11. Pos(tracked[u])' = p /\ tracked'[u].last = o /\ tracked'[u].parsed = m.parsed
  BY <1>2, <1>5, <1>10
<1>12. BehindPlace(u)'
  <2>1. CASE NothingToLose
    <3>1. DOMAIN batches' = {}
      BY <1>2, <2>1 DEF NothingToLose
    <3> QED
      BY <3>1 DEF BehindPlace
  <2>2. CASE GoesOn(u, m, r)
    <3>1. BehindPlace(u)
      BY DEF Placed
    <3>2. p >= Pos(t) /\ (t.parsed > 0 => m.parsed > 0)
      BY <2>2, <1>10 DEF GoesOn
    <3>3. ASSUME NEW i \in DOMAIN batches, batches[i].sid # NoSid, NEW z, z = batches[i].cp
          PROVE  /\ batches[i].sid = u /\ m.parsed > 0 /\ z > 0 /\ z <= p
                 /\ \A l \in batches[i].lines : Within(l, z)' /\ l \notin history
                 /\ \A l \in committed \union batches[i].lines : ~Ahead(l, z)'
                 /\ \A l \in ToSet(r.lines) : Ahead(l, z)'
      <4>1. /\ batches[i].sid = u /\ t.parsed > 0 /\ z > 0 /\ z <= Pos(t)
            /\ \A l \in batches[i].lines : Within(l, z) /\ l \notin history
            /\ \A l \in committed \union batches[i].lines : ~Ahead(l, z)
            /\ \A l \in ToSet(rd.lines) : Ahead(l, z)
        BY <3>1, <3>3 DEF BehindPlace
      <4>2. z \in Int
        BY <1>1, <3>3, BatchesAre DEF TrackingTypes
      <4>3. \A l : Ahead(l, Pos(t)) => Ahead(l, z)
        BY <1>1, <1>4, <4>1, <4>2, AheadIs
      <4>4. z <= p
        BY <1>4, <3>2, <4>1, <4>2
      <4>5. \A l \in ToSet(r.lines) : Ahead(l, z)
        BY <1>3, <4>1, <4>3
      <4> QED
        BY <1>6, <3>2, <4>1, <4>4, <4>5
    <3>4. \A i, j \in DOMAIN batches : i < j /\ batches[i].sid # NoSid =>
             batches[i].cp <= batches[j].cp /\ \A l \in batches[j].lines : Ahead(l, batches[i].cp)
      BY <3>1 DEF BehindPlace
    <3>5. ASSUME NEW i \in DOMAIN batches', batches'[i].sid # NoSid
          PROVE  /\ batches'[i].sid = u /\ tracked'[u].parsed > 0 /\ batches'[i].cp > 0
                 /\ batches'[i].cp <= Pos(tracked[u])'
                 /\ \A l \in batches'[i].lines : Within(l, batches[i].cp)' /\ l \notin history'
                 /\ \A l \in committed' \union batches'[i].lines : ~Ahead(l, batches[i].cp)'
                 /\ \A l \in ToSet(rd'.lines) : Ahead(l, batches[i].cp)'
      <4>1. PICK z : z = batches[i].cp
        OBVIOUS
      <4>2. batches'[i] = batches[i] /\ i \in DOMAIN batches
        BY <1>2, <3>5
      <4> QED
        BY <1>2, <1>11, <3>3, <3>5, <4>1, <4>2
    <3>6. ASSUME NEW i \in DOMAIN batches', NEW j \in DOMAIN batches', i < j, batches'[i].sid # NoSid
          PROVE  batches'[i].cp <= batches'[j].cp /\ \A l \in batches'[j].lines : Ahead(l, batches[i].cp)'
      <4>1. PICK z : z = batches[i].cp
        OBVIOUS
      <4>2. batches' = batches
        BY <1>2
      <4> QED
        BY <1>6, <3>4, <3>6, <4>1, <4>2
    <3> QED
      BY <3>5, <3>6 DEF BehindPlace
  <2> QED
    BY <2>1, <2>2
<1>13. OwedReached(u)'
  <2>1. OwedReached(u)
    BY DEF Placed
  <2>2. CASE NothingToLose
    <3>1. \A l \in committed : ~Ahead(l, o) /\ ~Ahead(l, p) /\ l \notin ToSet(r.lines)
      BY <2>2, <1>7 DEF NothingToLose, Ahead
    <3> QED
      BY <1>2, <1>6, <1>11, <2>2, <3>1 DEF NothingToLose, OwedReached
  <2>3. CASE GoesOn(u, m, r)
    <3>1. p >= Pos(t) /\ \A l : Ahead(l, Pos(t)) \/ l \in ToSet(rd.lines) => l \in ToSet(r.lines) \/ Ahead(l, p)
      BY <2>3, <1>10 DEF GoesOn
    <3>2. \A l \in committed : ~Ahead(l, o) /\ ~Ahead(l, p) /\ l \notin ToSet(r.lines)
      <4>1. \A l \in committed : ~Ahead(l, o) /\ ~Ahead(l, Pos(t)) /\ l \notin ToSet(rd.lines)
        BY <2>1, <1>10 DEF OwedReached
      <4>2. \A l : Ahead(l, p) => Ahead(l, Pos(t))
        BY <1>1, <1>4, <3>1, AheadIs
      <4> QED
        BY <1>3, <4>1, <4>2
    <3>3. \A l \in owed \ sent :
            /\ Ahead(l, o)
            /\ Ahead(l, p) \/ l \in ToSet(r.lines) \/ \E i \in DOMAIN batches : batches[i].sid = u /\ l \in batches[i].lines
      BY <2>1, <3>1, <1>10 DEF OwedReached
    <3> QED
      BY <1>2, <1>6, <1>11, <3>2, <3>3 DEF OwedReached
  <2> QED
    BY <2>2, <2>3
<1> QED
  BY <1>8, <1>9, <1>12, <1>13 DEF Placed, TrackingInOrder

(* The boundary is dropped, the rest of the cache stays                    *)
LEMMA OneField ==
  ASSUME NEW c \in Caches
  PROVE  LET k == [c EXCEPT !.bsize = -1] IN
         /\ k \in Caches /\ k.bsize = -1 /\ k.known = c.known /\ k.prefix = c.prefix
         /\ k.mpos = c.mpos /\ k.mval = c.mval /\ k.gen = c.gen /\ k.ctime = c.ctime
  BY DEF Caches

(* The caches after a boundary is dropped                                  *)
LEMMA Unbounded ==
  ASSUME NEW c \in Caches, CacheOfOne(c), c.known
  PROVE  LET k == [c EXCEPT !.bsize = -1] IN
         /\ k \in Caches /\ CacheOfOne(k) /\ k.bsize = -1 /\ k.known = c.known /\ k.prefix = c.prefix
         /\ k.mpos = c.mpos /\ k.mval = c.mval /\ k.gen = c.gen /\ k.ctime = c.ctime
<1> DEFINE k == [c EXCEPT !.bsize = -1]
<1>1. /\ k \in Caches /\ k.bsize = -1 /\ k.known = c.known /\ k.prefix = c.prefix
      /\ k.mpos = c.mpos /\ k.mval = c.mval /\ k.gen = c.gen /\ k.ctime = c.ctime
  BY OneField
<1> HIDE DEF k
<1>2. CacheOfOne(k)
  BY <1>1 DEF CacheOfOne
<1> QED
  BY <1>1, <1>2 DEF k

(* A read is begun                                                         *)
LEMMA StartOfRead ==
  ASSUME NEW u \in Sids
  PROVE  LET r == [IdleRead EXCEPT !.pc = "read", !.sid = u, !.try = 1] IN
         r \in Tries /\ r.pc = "read" /\ r.sid = u /\ r.lines = <<>> /\ r.sealed = FALSE
<1>1. ASSUME NEW r \in Tries
      PROVE  /\ LET s == [r EXCEPT !.pc = "read"] IN
                s \in Tries /\ s.pc = "read" /\ s.lines = r.lines /\ s.sealed = r.sealed
             /\ LET s == [r EXCEPT !.sid = u] IN
                s \in Tries /\ s.pc = r.pc /\ s.sid = u /\ s.lines = r.lines /\ s.sealed = r.sealed
             /\ LET s == [r EXCEPT !.try = 1] IN
                s \in Tries /\ s.pc = r.pc /\ s.sid = r.sid /\ s.lines = r.lines /\ s.sealed = r.sealed
  BY DEF Tries, Steps
<1> DEFINE x == [IdleRead EXCEPT !.pc = "read"]  y == [x EXCEPT !.sid = u]  z == [y EXCEPT !.try = 1]
<1>2. x \in Tries /\ x.pc = "read" /\ x.lines = <<>> /\ x.sealed = FALSE
  BY <1>1, ReadsAre
<1> HIDE DEF x
<1>3. y \in Tries /\ y.pc = "read" /\ y.sid = u /\ y.lines = <<>> /\ y.sealed = FALSE
  BY <1>1, <1>2
<1> HIDE DEF y
<1>4. z \in Tries /\ z.pc = "read" /\ z.sid = u /\ z.lines = <<>> /\ z.sealed = FALSE
  BY <1>1, <1>3
<1>5. [IdleRead EXCEPT !.pc = "read", !.sid = u, !.try = 1] = z
  BY DEF y, x
<1> QED
  BY <1>4, <1>5

(* Observe: what is replaced is found out, and the position jumps to the   *)
(* end                                                                     *)
LEMMA ObserveInOrder == ASSUME TrackingInOrder, Observe PROVE TrackingInOrder'
<1>1. /\ FileInLines /\ TrackingTypes /\ CachesOfOne /\ LinesSoFar /\ ReadIsReal /\ Ground
      /\ UNCHANGED file /\ Size \in Nat /\ Size >= 2 /\ file.body \in Bodies
  BY LinesOfFile DEF TrackingInOrder, Ground, Observe
<1>2. PICK u \in Sids : u = trMap
  BY <1>1 DEF TrackingTypes, Observe
<1> DEFINE t == tracked[u]  c == seen[u]  pos == Pos(t)
           suspect == \/ c.gen \notin {-1, file.gen}
                      \/ c.known /\ ~PrefixIs(c.prefix)
                      \/ c.ctime \notin {-1, file.ctime} /\ c.known /\ Size <= Len(c.prefix)
                      \/ Size < pos
                      \/ c.mpos = pos /\ Marker(pos) # c.mval
           intact == suspect /\ PrefixIs(c.prefix) /\ Covers(c, pos)
           replaced == suspect /\ ~intact
           boundary == /\ ~replaced /\ c.bsize >= 0 /\ ~intact
                       /\ (c.bgen # file.gen \/ Size < c.bsize)
           t2 == IF replaced \/ boundary THEN [t EXCEPT !.parsed = Size] ELSE t
           quiet == ~replaced /\ file.mtime <= c.mtime /\ Size <= Pos(t)
           begun == [IdleRead EXCEPT !.pc = "read", !.sid = u, !.try = 1]
<1>3. /\ rd.pc = "idle" /\ tracked[u] # None
      /\ tracked' = [tracked EXCEPT ![u] = IF quiet THEN t ELSE t2]
      /\ seen' = IF replaced THEN [seen EXCEPT ![u].bsize = -1]
                 ELSE IF boundary /\ ~quiet
                 THEN [seen EXCEPT ![u].bsize = 0, ![u].bgen = file.gen]
                 ELSE seen
      /\ rd' = IF quiet THEN EndRead ELSE begun
      /\ UNCHANGED <<file, trMap, replay, batches, disk, owed, sent, committed, history, unnoticed, events>>
  BY <1>2 DEF Observe
<1>4. Placed(u)
  <2>1. PICK w \in Sids : Placed(w)
    BY <1>3 DEF TrackingInOrder, Untracked, Nothing
  <2>2. w = u
    BY <2>1, <1>3 DEF Placed, Only
  <2> QED
    BY <2>1, <2>2
<1>5. t \in Marks /\ c \in Caches /\ CacheOfOne(c) /\ t.last \in Nat /\ pos \in Nat
      /\ t.parsed \in (Nat \ {0}) \union {-1} /\ (t.parsed = -1 => pos = t.last) /\ (t.parsed > 0 => pos = t.parsed)
  <2>1. t \in Marks /\ c \in Caches /\ CacheOfOne(c) /\ t.last >= 0
    BY <1>1, <1>3 DEF TrackingTypes, CachesOfOne
  <2> QED
    BY <2>1, MarksAre
<1>6. /\ c.mpos \in Int /\ c.mval \in Int /\ c.bsize \in Int /\ c.prefix \in Bodies /\ Len(c.prefix) \in Nat
      /\ c.known \in BOOLEAN
  BY <1>5, CachesAre
<1>7. rd.lines = <<>> /\ ToSet(rd.lines) = {}
  BY <1>1, <1>3, ReadsAre DEF ReadIsReal
<1>8. /\ begun \in Tries /\ begun.pc = "read" /\ begun.sid = u /\ begun.lines = <<>> /\ begun.sealed = FALSE
  BY StartOfRead
<1>9. /\ \A l, o : (Ahead(l, o)' <=> Ahead(l, o)) /\ (Within(l, o)' <=> Within(l, o))
      /\ \A l : Held(l)' <=> Held(l)
      /\ \A p : PrefixIs(p)' <=> PrefixIs(p)
      /\ Size' = Size
  BY <1>1, SameFile
<1>10. unnoticed' \in BOOLEAN
  BY <1>1, <1>3 DEF TrackingTypes
(* As it was, and a read has begun or ended                                *)
<1>11. ASSUME ~replaced, ~boundary
       PROVE  /\ tracked' = tracked /\ seen' = seen /\ rd'.lines = <<>> /\ rd'.pc \in {"read", "commit"}
              /\ \E r : Moves(u, t, c, r) /\ GoesOn(u, t, r)
  <2>1. tracked' = [tracked EXCEPT ![u] = t] /\ seen' = seen
    BY <1>3, <1>11
  <2>2. tracked' = tracked /\ seen' = [seen EXCEPT ![u] = c]
    BY <2>1, <1>1 DEF TrackingTypes
  <2>3. PICK r : rd' = r /\ (r = EndRead \/ r = begun)
    BY <1>3
  <2>4. /\ r \in Tries /\ r.sealed = FALSE /\ r.lines = <<>>
        /\ r.pc \in {"read", "commit"} /\ (r.pc = "read" => r.sid = u)
    <3> HIDE DEF begun
    <3> QED
      BY <2>3, <1>8, ReadsAre
  <2>5. Moves(u, t, c, r)
    <3>1. ToSet(r.lines) = {}
      BY <2>4, ReadsAre
    <3> HIDE DEF t, c, quiet, replaced, boundary, begun
    <3> QED
      BY <1>3, <1>5, <1>10, <2>1, <2>2, <2>3, <2>4, <3>1 DEF Moves, t, c
  <2>6. GoesOn(u, t, r)
    <3> HIDE DEF quiet, replaced, boundary, begun
    <3> QED
      BY <1>5, <1>7 DEF GoesOn
  <2> QED
    BY <2>1, <2>2, <2>3, <2>4, <2>5, <2>6
(* The position jumps to the end of the file                               *)
<1>12. ASSUME replaced, c.known, NothingToLose, PrefixIs(c.prefix) => c.mpos > Len(c.prefix), unnoticed, t.last # 0
       PROVE  TrackingInOrder'
  <2> DEFINE m == [t EXCEPT !.parsed = Size]  k == [c EXCEPT !.bsize = -1]
  <2>1. tracked' = [tracked EXCEPT ![u] = m] /\ seen' = [seen EXCEPT ![u] = k] /\ rd' = begun
    <3>1. ~quiet
      BY <1>12
    <3>2. t2 = m
      BY <1>12
    <3>3. [seen EXCEPT ![u].bsize = -1] = [seen EXCEPT ![u] = k]
      OBVIOUS
    <3> HIDE DEF quiet, replaced, t2, m, k, boundary
    <3> QED
      BY <1>3, <1>12, <3>1, <3>2, <3>3
  <2>2. m \in Marks /\ m.last = t.last /\ m.parsed = Size /\ Pos(m) = Size
    <3>1. Size \in (Nat \ {0}) \union {-1}
      BY <1>1
    <3>2. m \in Marks /\ m.last = t.last /\ m.parsed = Size
      BY <1>5, <3>1, MarksAre
    <3> HIDE DEF m
    <3> QED
      BY <3>2, <1>1, MarksAre
  <2>3. /\ k \in Caches /\ CacheOfOne(k) /\ k.bsize = -1 /\ k.known = TRUE /\ k.prefix = c.prefix
        /\ k.mpos = c.mpos
    <3> HIDE DEF c
    <3> QED
      BY <1>5, <1>6, <1>12, Unbounded
  <2> HIDE DEF m, k, begun, t2, quiet, boundary, replaced
  <2>4. Moves(u, m, k, begun)
    <3>1. ToSet(begun.lines) = {}
      BY <1>8, ReadsAre
    <3> HIDE DEF t, c
    <3> QED
      BY <1>3, <1>8, <1>10, <2>1, <2>2, <2>3, <3>1 DEF Moves, t
  <2>5. tracked'[u] = m /\ seen'[u] = k
    BY <1>1, <2>1 DEF TrackingTypes
  <2>6. PICK z \in Int : z = Size
    BY <1>1
  <2>7. Pos(tracked[u])' = z /\ \A l : ~Ahead(l, z)'
    <3>1. \A l : ~Ahead(l, z)
      BY <1>1, <2>6, AheadIs
    <3> QED
      BY <1>9, <2>2, <2>5, <2>6, <3>1
  <2>8. QuietAhead(u)'
    BY <2>7 DEF QuietAhead
  <2>9. OffTrack(u)'
    <3>1. PrefixIs(seen[u].prefix)' <=> PrefixIs(c.prefix)
      <4>1. PICK p : p = c.prefix
        OBVIOUS
      <4>2. seen'[u].prefix = p
        BY <2>3, <2>5, <4>1
      <4>3. PrefixIs(p)' <=> PrefixIs(c.prefix)
        BY <1>9, <4>1
      <4> QED
        BY <4>2, <4>3
    <3>2. WillNotice(u)'
      BY <1>8, <2>1, <2>3, <2>5, <2>8 DEF WillNotice
    <3>3. PrefixIs(c.prefix) => WasShort(u)'
      BY <1>8, <1>12, <2>1, <2>3, <2>5, <2>8 DEF WasShort
    <3>4. \A l \in committed : ~Held(l)'
      BY <1>9, <1>12 DEF NothingToLose
    <3> QED
      BY <1>3, <1>8, <1>12, <2>1, <2>2, <2>3, <2>5, <3>1, <3>2, <3>3, <3>4 DEF OffTrack, NothingToLose
  <2>10. InPlace(u)'
    BY <1>3, <1>12, <2>9 DEF InPlace
  <2> QED
    BY <1>1, <1>2, <1>4, <1>12, <2>4, <2>10, ReadMoves
<1>13. CASE OnTrack(u)
  <2>1. /\ PrefixIs(c.prefix) /\ pos <= Size /\ (pos = 0 \/ (c.known /\ pos <= Len(c.prefix)))
        /\ c.bsize >= 0 => c.bgen = file.gen /\ c.bsize <= Size
        /\ t.last = 0 /\ c.known => c.prefix = file.body /\ c.gen = file.gen /\ c.ctime = file.ctime
    BY <1>3, <1>13 DEF OnTrack
  <2>2. ~replaced
    <3>1. CASE pos > 0
      <4>1. Covers(c, pos)
        BY <2>1, <3>1, <1>1, <1>5, <1>6 DEF Covers
      <4> QED
        BY <4>1, <2>1
    <3>2. CASE pos = 0
      <4>1. t.last = 0
        BY <3>2, <1>5
      <4>2. CASE c.known
        <5>1. c.gen = file.gen /\ c.ctime = file.ctime
          BY <4>1, <4>2, <2>1
        <5>2. c.mpos = pos => Marker(pos) = c.mval
          BY <1>5, <3>2, <4>2 DEF Marker, CacheOfOne, MarkOf
        <5>3. ~(Size < pos)
          BY <2>1, <1>1, <1>5
        <5> QED
          BY <2>1, <5>1, <5>2, <5>3
      <4>3. CASE ~c.known
        <5>1. c = NoCache
          BY <1>5, <4>3 DEF CacheOfOne
        <5>2. c.gen = -1 /\ c.mpos = -1
          BY <5>1, CachesAre
        <5>3. ~(Size < pos) /\ c.mpos # pos
          BY <2>1, <1>1, <1>5, <5>2
        <5> QED
          BY <4>3, <5>2, <5>3
      <4> QED
        BY <4>2, <4>3
    <3> QED
      BY <3>1, <3>2, <1>5
  <2>3. ~boundary
    BY <2>1, <1>1, <1>6
  <2>4. PICK r : Moves(u, t, c, r) /\ GoesOn(u, t, r)
    BY <2>2, <2>3, <1>11
  <2>5. /\ tracked' = tracked /\ seen' = seen /\ rd'.lines = <<>> /\ rd'.pc \in {"read", "commit"}
    BY <2>2, <2>3, <1>11
  <2>6. OnTrack(u)'
    <3>1. PrefixIs(seen[u].prefix)' <=> PrefixIs(c.prefix)
      BY <1>1, <2>5 DEF PrefixIs, Size
    <3>2. QuietAhead(u)' /\ ReadIsNews(u)'
      <4>1. QuietAhead(u)
        BY <1>13 DEF OnTrack
      <4> QED
        BY <4>1, <1>3, <1>9, <2>5, ReadsAre DEF QuietAhead, ReadIsNews, Pos
    <3>3. (\A l \in committed : ~Held(l)) => (\A l \in committed : ~Held(l)')
      BY <1>9
    <3>4. Pos(tracked[u])' = pos
      BY <2>5
    <3> HIDE DEF suspect, intact, replaced, boundary, t2, quiet, begun
    <3> QED
      BY <1>1, <1>3, <1>9, <1>13, <2>1, <2>5, <3>1, <3>2, <3>3, <3>4 DEF OnTrack
  <2>7. InPlace(u)'
    BY <2>6 DEF InPlace
  <2> HIDE DEF t, c
  <2> QED
    BY <1>1, <1>2, <1>4, <2>4, <2>7, ReadMoves
<1>14. CASE OffTrack(u)
  <2>1. c.known /\ unnoticed /\ t.last # 0 /\ NothingToLose
    BY <1>14 DEF OffTrack, NothingToLose
  <2>2. CASE ~PrefixIs(c.prefix)
    <3>1. replaced
      BY <2>1, <2>2
    <3> QED
      BY <2>1, <2>2, <3>1, <1>12
  <2>3. CASE PrefixIs(c.prefix)
    <3>1. c.mpos > Len(c.prefix) /\ QuietAhead(u) /\ (c.bsize >= 0 => t.parsed = -1 /\ t.last = c.mpos)
      BY <2>3, <1>14 DEF OffTrack, WasShort
    <3>2. CASE replaced
      BY <2>1, <3>1, <3>2, <1>12
    <3>3. CASE ~replaced
      <4>1. c.bsize < 0
        <5> SUFFICES ASSUME c.bsize >= 0
                     PROVE  FALSE
          BY <1>6
        <5>1. pos = c.mpos /\ pos > Len(c.prefix) /\ pos > 0
          BY <3>1, <1>5, <1>6
        <5>2. ~Covers(c, pos)
          BY <5>1, <1>6 DEF Covers
        <5>3. c.mval = -1
          <6>1. c.mval = MarkOf(c.prefix, pos)
            BY <1>5, <2>1, <5>1 DEF CacheOfOne
          <6> QED
            BY <5>1, <6>1, <1>5 DEF MarkOf
        <5>4. ~(Size < pos) => Marker(pos) # c.mval
          <6>1. ASSUME ~(Size < pos)
                PROVE  Marker(pos) = file.body[pos] /\ file.body[pos] \in Int /\ file.body[pos] >= 1
            <7>1. pos \in 1..Size /\ Size = Len(file.body)
              BY <6>1, <5>1, <1>1, <1>5 DEF Size
            <7>2. file.body[pos] \in Int /\ file.body[pos] >= 1
              BY <7>1, <1>1, BodiesAre
            <7> QED
              BY <5>1, <6>1, <7>2, <1>5 DEF Marker
          <6> HIDE DEF pos, c
          <6> QED
            BY <5>3, <6>1
        <5> QED
          BY <3>3, <5>1, <5>2, <5>4
      <4>2. ~boundary
        BY <4>1, <1>6
      <4>3. PICK r : Moves(u, t, c, r) /\ GoesOn(u, t, r)
        BY <3>3, <4>2, <1>11
      <4>4. /\ tracked' = tracked /\ seen' = seen /\ rd'.lines = <<>> /\ rd'.pc \in {"read", "commit"}
        BY <3>3, <4>2, <1>11
      <4>5. PrefixIs(seen[u].prefix)'
        BY <1>1, <2>3, <4>4 DEF PrefixIs, Size
      <4>6. QuietAhead(u)'
        BY <3>1, <1>3, <1>9, <4>4 DEF QuietAhead, Pos
      <4>7. WasShort(u)'
        BY <3>1, <4>1, <4>4, <4>6, <1>6 DEF WasShort
      <4>8. OffTrack(u)'
        <5>1. \A l \in committed : ~Held(l)'
          BY <1>9, <2>1 DEF NothingToLose
        <5> HIDE DEF suspect, intact, replaced, boundary, t2, quiet, begun
        <5> QED
          BY <1>3, <2>1, <4>4, <4>5, <4>7, <5>1 DEF OffTrack, NothingToLose
      <4>9. InPlace(u)'
        BY <1>3, <2>1, <4>8 DEF InPlace
      <4> HIDE DEF t, c
      <4> QED
        BY <1>1, <1>2, <1>4, <4>3, <4>9, ReadMoves
    <3> QED
      BY <3>2, <3>3
  <2> QED
    BY <2>2, <2>3
<1> QED
  BY <1>4, <1>13, <1>14 DEF Placed, InPlace

(* A step of a read                                                        *)
Read(r, o, p, b) == [r EXCEPT !.pc = "check", !.start = o, !.lines = p, !.before = b]

(* The fields of a read whose lines were taken                             *)
LEMMA StepOfRead ==
  ASSUME NEW r \in Tries, NEW o \in Nat, NEW p \in Bodies, NEW b \in Nat \X Nat
  PROVE  LET s == Read(r, o, p, b) IN
         /\ s \in Tries /\ s.pc = "check" /\ s.start = o /\ s.lines = p /\ s.before = b
         /\ s.sid = r.sid /\ s.sealed = r.sealed /\ s.try = r.try
<1> DEFINE x == [r EXCEPT !.pc = "check"]  y == [x EXCEPT !.start = o]  z == [y EXCEPT !.lines = p]
           s == [z EXCEPT !.before = b]
<1>1. ASSUME NEW e \in Tries
      PROVE  LET f == [e EXCEPT !.pc = "check"] IN
             /\ f \in Tries /\ f.pc = "check" /\ f.start = e.start /\ f.lines = e.lines /\ f.before = e.before
             /\ f.sid = e.sid /\ f.sealed = e.sealed /\ f.try = e.try
  BY DEF Tries, Steps
<1>2. ASSUME NEW e \in Tries
      PROVE  LET f == [e EXCEPT !.start = o] IN
             /\ f \in Tries /\ f.pc = e.pc /\ f.start = o /\ f.lines = e.lines /\ f.before = e.before
             /\ f.sid = e.sid /\ f.sealed = e.sealed /\ f.try = e.try
  BY DEF Tries, Steps
<1>3. ASSUME NEW e \in Tries
      PROVE  LET f == [e EXCEPT !.lines = p] IN
             /\ f \in Tries /\ f.pc = e.pc /\ f.start = e.start /\ f.lines = p /\ f.before = e.before
             /\ f.sid = e.sid /\ f.sealed = e.sealed /\ f.try = e.try
  BY DEF Tries, Steps
<1>4. ASSUME NEW e \in Tries
      PROVE  LET f == [e EXCEPT !.before = b] IN
             /\ f \in Tries /\ f.pc = e.pc /\ f.start = e.start /\ f.lines = e.lines /\ f.before = b
             /\ f.sid = e.sid /\ f.sealed = e.sealed /\ f.try = e.try
  BY DEF Tries, Steps
<1>5. x \in Tries /\ x.pc = "check" /\ x.sid = r.sid /\ x.sealed = r.sealed /\ x.try = r.try
  BY <1>1
<1> HIDE DEF x
<1>6. y \in Tries /\ y.pc = "check" /\ y.sid = r.sid /\ y.sealed = r.sealed /\ y.try = r.try /\ y.start = o
  BY <1>2, <1>5
<1> HIDE DEF y
<1>7. z \in Tries /\ z.pc = "check" /\ z.sid = r.sid /\ z.sealed = r.sealed /\ z.try = r.try /\ z.start = o /\ z.lines = p
  BY <1>3, <1>6
<1> HIDE DEF z
<1>8. /\ s \in Tries /\ s.pc = "check" /\ s.sid = r.sid /\ s.sealed = r.sealed /\ s.try = r.try /\ s.start = o
      /\ s.lines = p /\ s.before = b
  BY <1>4, <1>7
<1>9. Read(r, o, p, b) = s
  BY DEF x, y, z, Read
<1> HIDE DEF s
<1> QED
  BY <1>8, <1>9

(* A read works on the marks of the session that is followed               *)
LEMMA ReaderAt ==
  ASSUME TrackingInOrder, rd.pc \in {"read", "check", "collected"}
  PROVE  \E u \in Sids : u = rd.sid /\ trMap = u /\ Placed(u) /\ Mine = tracked[u] /\ ~rd.sealed
<1>1. PICK u \in Sids : Placed(u)
  BY DEF TrackingInOrder, Untracked
<1>2. rd.sealed = FALSE
  BY DEF TrackingInOrder, Ground, TrackingTypes
<1>3. u = rd.sid /\ trMap = u
  BY <1>1 DEF Placed, Named
<1> QED
  BY <1>1, <1>2, <1>3 DEF Mine

(* ReadLines: the position moves over the lines taken, and no other        *)
LEMMA ReadLinesInOrder == ASSUME TrackingInOrder, ReadLines PROVE TrackingInOrder'
<1>1. /\ FileInLines /\ TrackingTypes /\ CachesOfOne /\ LinesSoFar /\ ReadIsReal /\ Ground
      /\ UNCHANGED file /\ Size \in Nat /\ Size >= 2 /\ file.body \in Bodies
  BY LinesOfFile DEF TrackingInOrder, Ground, ReadLines
<1>2. rd.pc = "read" /\ seen' = seen /\ unnoticed' = unnoticed
      /\ UNCHANGED <<file, trMap, replay, batches, disk, owed, sent, committed, history>>
  BY DEF ReadLines
<1>3. PICK u \in Sids : u = rd.sid /\ trMap = u /\ Placed(u) /\ Mine = tracked[u] /\ ~rd.sealed
  BY <1>2, ReaderAt
<1> DEFINE t == Mine  c == seen[u]  pos == Pos(t)
           low == IF pos > Size THEN Size ELSE pos
           from == IF low % 2 = 1 /\ low < Size THEN low + 1 ELSE low
           upto == from + ((Size - from) \div 2) * 2
           read == [i \in 1..(upto - from) \div 2 |-> file.body[from + 2*i]]
           m == [t EXCEPT !.parsed = upto]
           r == [rd EXCEPT !.pc = "check", !.start = pos, !.lines = read, !.before = <<file.gen, file.ctime>>]
<1>4. rd' = r /\ tracked' = [tracked EXCEPT ![u] = m]
  <2>1. rd' = r /\ tracked' = [tracked EXCEPT ![rd.sid] = m]
    BY <1>3 DEF ReadLines
  <2> HIDE DEF m, r
  <2> QED
    BY <1>3, <2>1
<1>30. t = tracked[u]
  BY <1>3
<1>5. t \in Marks /\ c \in Caches /\ CacheOfOne(c) /\ t.last \in Nat /\ pos \in Nat
      /\ t.parsed \in (Nat \ {0}) \union {-1} /\ (t.parsed = -1 => pos = t.last) /\ (t.parsed > 0 => pos = t.parsed)
  <2>1. t \in Marks /\ c \in Caches /\ CacheOfOne(c) /\ t.last >= 0
    BY <1>1, <1>3, <1>30 DEF TrackingTypes, CachesOfOne, Placed, Only
  <2> QED
    BY <2>1, MarksAre
<1>6. /\ c.mpos \in Int /\ c.bsize \in Int /\ c.prefix \in Bodies /\ Len(c.prefix) \in Nat /\ c.known \in BOOLEAN
  BY <1>5, CachesAre
<1>7. rd.lines = <<>> /\ ToSet(rd.lines) = {} /\ rd \in Tries /\ rd.sealed = FALSE
  BY <1>1, <1>2, ReadsAre DEF ReadIsReal, TrackingTypes
<1> HIDE DEF t, c, pos
<1>8. upto \in Nat \ {0} /\ upto <= Size /\ (pos <= Size => pos <= upto) /\ Finds(read, pos, upto)
  BY <1>1, <1>5, ReadFinds
<1>9. pos > Size => upto = Size
  <2>1. ASSUME pos > Size
        PROVE  upto = Size
    <3>1. from = Size
      BY <2>1, <1>1
    <3> HIDE DEF from
    <3>2. (Size - from) \div 2 = 0
      BY <3>1, <1>1
    <3> QED
      BY <3>1, <3>2, <1>1
  <2> QED
    BY <2>1
<1> HIDE DEF upto, read, from, low
<1>10. /\ read \in Bodies /\ (pos > Size => read = <<>>)
       /\ \A l \in ToSet(read) : Ahead(l, pos) /\ Within(l, upto)
       /\ \A l : Ahead(l, pos) => l \in ToSet(read) \/ Ahead(l, upto)
  BY <1>8 DEF Finds
<1>11. m \in Marks /\ m.last = t.last /\ m.parsed = upto /\ Pos(m) = upto
  <2>1. upto \in (Nat \ {0}) \union {-1}
    BY <1>8
  <2>2. m \in Marks /\ m.last = t.last /\ m.parsed = upto
    BY <1>5, <2>1, MarksAre
  <2> HIDE DEF m
  <2> QED
    BY <1>8, <2>2, MarksAre
<1>12. file.gen \in Nat /\ file.ctime \in Nat /\ <<file.gen, file.ctime>> \in Nat \X Nat
       /\ <<file.gen, file.ctime>>[2] = file.ctime
  BY <1>1 DEF FileInLines, Files
<1>13. /\ r \in Tries /\ r.pc = "check" /\ r.start = pos /\ r.lines = read /\ r.before = <<file.gen, file.ctime>>
       /\ r.sid = u /\ r.sealed = FALSE
  <2>1. rd.sid = u
    BY <1>3
  <2>2. PICK b \in Nat \X Nat : b = <<file.gen, file.ctime>>
    BY <1>12
  <2>3. r = Read(rd, pos, read, b)
    BY <2>2 DEF Read
  <2> HIDE DEF r
  <2>4. /\ r \in Tries /\ r.pc = "check" /\ r.start = pos /\ r.lines = read /\ r.before = b
        /\ r.sid = rd.sid /\ r.sealed = rd.sealed
    <3>1. pos \in Nat
      BY <1>5
    <3>2. rd \in Tries
      BY <1>7
    <3>3. read \in Bodies
      BY <1>10
    <3>4. b \in Nat \X Nat
      BY <2>2
    <3>5. PICK e \in Tries, o \in Nat, p \in Bodies : e = rd /\ o = pos /\ p = read
      BY <3>1, <3>2, <3>3
    <3>6. LET s == Read(e, o, p, b) IN
         /\ s \in Tries /\ s.pc = "check" /\ s.start = o /\ s.lines = p /\ s.before = b
         /\ s.sid = e.sid /\ s.sealed = e.sealed /\ s.try = e.try
      BY StepOfRead
    <3> QED
      BY <2>3, <3>5, <3>6
  <2> QED
    BY <1>7, <2>1, <2>2, <2>3, <2>4
<1> HIDE DEF m, r
<1>14. Moves(u, m, c, r)
  <2>1. seen' = [seen EXCEPT ![u] = c]
    BY <1>1, <1>2 DEF TrackingTypes, c
  <2>2. unnoticed' \in BOOLEAN
    BY <1>1, <1>2 DEF TrackingTypes
  <2>3. \A l \in ToSet(r.lines) : Ahead(l, Pos(tracked[u]))
    BY <1>30, <1>10, <1>13 DEF pos
  <2>4. r.before[2] <= file.ctime
    BY <1>12, <1>13
  <2>5. m.parsed > 0
    BY <1>8, <1>11
  <2> QED
    BY <1>30, <1>2, <1>4, <1>5, <1>11, <1>13, <2>1, <2>2, <2>3, <2>4, <2>5 DEF Moves
<1>15. pos <= Size => GoesOn(u, m, r)
  <2>1. m.parsed > 0 /\ Pos(tracked[u]) = pos
    BY <1>30, <1>8, <1>11 DEF pos
  <2> QED
    BY <1>5, <1>7, <1>8, <1>10, <1>11, <1>13, <2>1 DEF GoesOn
<1>16. /\ \A l, o : (Ahead(l, o)' <=> Ahead(l, o)) /\ (Within(l, o)' <=> Within(l, o))
       /\ \A l : Held(l)' <=> Held(l)
       /\ \A p : PrefixIs(p)' <=> PrefixIs(p)
       /\ Size' = Size
  BY <1>1, SameFile
<1>17. PICK z \in Nat : z = upto
  BY <1>8
<1>18. Pos(tracked[u])' = z /\ tracked'[u] = m /\ seen'[u] = c /\ rd' = r
  BY <1>1, <1>2, <1>4, <1>11, <1>17 DEF TrackingTypes, c
<1>19. (\A l \in history : ~Ahead(l, pos)) => QuietAhead(u)' /\ ReadIsNews(u)'
  <2> SUFFICES ASSUME \A l \in history : ~Ahead(l, pos)
               PROVE  QuietAhead(u)' /\ ReadIsNews(u)'
    OBVIOUS
  <2>1. \A l \in history : ~Ahead(l, z)
    <3>1. CASE pos <= Size
      <4>1. pos <= z
        BY <3>1, <1>8, <1>17
      <4> QED
        BY <4>1, <1>1, <1>5, <1>17, AheadIs
    <3>2. CASE pos > Size
      BY <3>2, <1>1, <1>9, <1>17, AheadIs
    <3> QED
      BY <3>1, <3>2, <1>1, <1>5
  <2>2. \A l \in ToSet(read) : Within(l, z) /\ l \notin history
    BY <1>10, <1>17
  <2> QED
    BY <1>2, <1>13, <1>16, <1>18, <2>1, <2>2 DEF QuietAhead, ReadIsNews
<1>20. QuietAhead(u) => \A l \in history : ~Ahead(l, pos)
  BY <1>30 DEF QuietAhead, pos
<1>21. PrefixIs(seen[u].prefix)' <=> PrefixIs(c.prefix)
  <2>1. PICK p : p = c.prefix
    OBVIOUS
  <2>2. PrefixIs(p)' <=> PrefixIs(c.prefix)
    BY <1>16, <2>1
  <2> QED
    BY <1>18, <2>1, <2>2
<1>22. CASE OnTrack(u)
  <2>1. /\ PrefixIs(c.prefix) /\ (c.known => c.mpos <= Len(c.prefix)) /\ pos <= Size
        /\ (pos = 0 \/ (c.known /\ pos <= Len(c.prefix)))
        /\ c.bsize >= 0 => c.bgen = file.gen /\ c.bsize <= Size
        /\ ~c.known => t.last = 0
        /\ t.last = 0 /\ c.known => c.prefix = file.body /\ c.gen = file.gen /\ c.ctime = file.ctime
        /\ t.last <= pos \/ (owed = {} /\ \A l \in committed : ~Held(l))
        /\ QuietAhead(u)
    BY <1>30, <1>2, <1>22 DEF OnTrack, c, pos
  <2>2. z <= Size /\ pos <= z
    BY <1>8, <1>17, <2>1
  <2>3. t.last <= z \/ (owed' = {} /\ \A l \in committed' : ~Held(l)')
    <3>1. CASE t.last <= pos
      BY <3>1, <2>2, <1>5
    <3>2. CASE owed = {} /\ \A l \in committed : ~Held(l)
      BY <3>2, <1>2, <1>16
    <3> QED
      BY <2>1, <3>1, <3>2
  <2>4. IF rd'.start = 0 THEN rd'.before = <<file.gen, file.ctime>>' ELSE c.known /\ rd'.start <= Len(c.prefix)
    BY <1>1, <1>13, <1>18, <2>1
  <2>5. OnTrack(u)'
    BY <1>1, <1>11, <1>13, <1>16, <1>18, <1>19, <1>20, <1>21, <2>1, <2>2, <2>3, <2>4 DEF OnTrack
  <2>6. InPlace(u)'
    BY <2>5 DEF InPlace
  <2> QED
    BY <1>1, <1>3, <1>14, <1>15, <2>1, <2>6, ReadMoves
<1>23. CASE OffTrack(u)
  <2>1. c.known /\ unnoticed /\ t.last # 0 /\ NothingToLose
    BY <1>30, <1>23 DEF OffTrack, NothingToLose, c
  <2>2. pos > 0
    BY <1>5, <2>1
  <2>3. z <= Size
    BY <1>8, <1>17
  <2>4. PrefixIs(c.prefix) => WasShort(u)'
    <3> SUFFICES ASSUME PrefixIs(c.prefix)
                 PROVE  WasShort(u)'
      OBVIOUS
    <3>1. c.mpos > Len(c.prefix) /\ QuietAhead(u) /\ ~(c.bsize >= 0)
      BY <1>30, <1>2, <1>23 DEF OffTrack, WasShort, c
    <3> QED
      BY <1>13, <1>16, <1>18, <1>19, <1>20, <2>3, <3>1 DEF WasShort
  <2>5. ~PrefixIs(c.prefix) => WillNotice(u)'
    <3> SUFFICES ASSUME ~PrefixIs(c.prefix)
                 PROVE  WillNotice(u)'
      OBVIOUS
    <3>1. (c.bsize < 0 /\ QuietAhead(u)) \/ (c.mpos = pos /\ (c.mpos <= Len(c.prefix) \/ c.bsize < 0))
      BY <1>30, <1>2, <1>23 DEF OffTrack, WillNotice, c, pos
    <3>2. CASE c.bsize < 0 /\ QuietAhead(u)
      BY <1>13, <1>16, <1>18, <1>19, <1>20, <2>3, <3>2 DEF WillNotice
    <3>3. CASE c.mpos = pos /\ (c.mpos <= Len(c.prefix) \/ pos <= Size)
      BY <1>13, <1>16, <1>18, <3>3 DEF WillNotice
    <3>4. CASE c.bsize < 0 /\ pos > Size
      <4>1. \A l \in history : ~Ahead(l, pos)
        <5>1. pos >= Size
          BY <3>4, <1>1, <1>5
        <5> QED
          BY <5>1, <1>1, <1>5, AheadIs
      <4> QED
        BY <1>13, <1>16, <1>18, <1>19, <2>3, <3>4, <4>1 DEF WillNotice
    <3> QED
      BY <3>1, <3>2, <3>3, <3>4, <1>1, <1>5
  <2>6. OffTrack(u)'
    <3>1. (owed = {} /\ batches = <<>> /\ \A l \in committed : ~Held(l))'
      BY <1>2, <1>16, <2>1 DEF NothingToLose
    <3> QED
      BY <1>2, <1>11, <1>13, <1>18, <1>21, <2>1, <2>2, <2>4, <2>5, <3>1 DEF OffTrack
  <2>7. InPlace(u)'
    BY <1>2, <2>1, <2>6 DEF InPlace
  <2> QED
    BY <1>1, <1>3, <1>14, <2>1, <2>7, ReadMoves
<1> QED
  BY <1>3, <1>22, <1>23 DEF Placed, InPlace

(* What the check after a read finds where it is on track                  *)
LEMMA StableOnTrack ==
  ASSUME FileInLines, NEW u \in Sids, rd.sid = u, OnTrack(u), rd.pc = "check", seen[u] \in Caches, CacheOfOne(seen[u]),
         rd.start \in Nat
  PROVE  StableRead
<1> DEFINE c == seen[u]
<1>1. /\ Size \in Nat /\ c.prefix \in Bodies /\ Len(c.prefix) \in Nat /\ PrefixIs(c.prefix) /\ Len(c.prefix) <= Size
  BY LinesOfFile, CachesAre DEF OnTrack, PrefixIs
<1>2. CASE rd.start = 0
  <2>1. rd.before = <<file.gen, file.ctime>>
    BY <1>2 DEF OnTrack
  <2>2. c.mpos = rd.start => Marker(rd.start) = c.mval
    <3>1. c.known => c.mval = MarkOf(c.prefix, c.mpos)
      BY DEF CacheOfOne
    <3>2. ~c.known => c.mpos = -1
      BY CachesAre DEF CacheOfOne
    <3> HIDE DEF c
    <3> QED
      BY <1>2, <3>1, <3>2 DEF Marker, MarkOf
  <2> QED
    BY <2>1, <2>2 DEF StableRead
<1>3. CASE rd.start # 0
  <2>1. c.known /\ rd.start <= Len(c.prefix)
    BY <1>3 DEF OnTrack
  <2>2. Covers(c, rd.start)
    BY <1>1, <1>3, <2>1 DEF Covers
  <2> QED
    BY <1>1, <2>2 DEF StableRead
<1> QED
  BY <1>2, <1>3

Again(r) == [r EXCEPT !.pc = "read", !.try = 2, !.lines = <<>>]
Kept(r) == [r EXCEPT !.pc = "collected"]

(* The fields of a read that is tried again, or kept                       *)
LEMMA AgainIs ==
  ASSUME NEW r \in Tries
  PROVE  /\ Again(r) \in Tries /\ Again(r).pc = "read" /\ Again(r).lines = <<>>
         /\ Again(r).sid = r.sid /\ Again(r).sealed = r.sealed
         /\ Kept(r) \in Tries /\ Kept(r).pc = "collected" /\ Kept(r).lines = r.lines
         /\ Kept(r).sid = r.sid /\ Kept(r).sealed = r.sealed
<1> DEFINE x == [r EXCEPT !.pc = "read"]  y == [x EXCEPT !.try = 2]  z == [y EXCEPT !.lines = <<>>]
<1>1. ASSUME NEW e \in Tries
      PROVE  /\ LET f == [e EXCEPT !.pc = "read"] IN
                f \in Tries /\ f.pc = "read" /\ f.sid = e.sid /\ f.sealed = e.sealed
             /\ LET f == [e EXCEPT !.try = 2] IN
                f \in Tries /\ f.pc = e.pc /\ f.sid = e.sid /\ f.sealed = e.sealed
  BY DEF Tries, Steps
<1>2. ASSUME NEW e \in Tries
      PROVE  /\ LET f == [e EXCEPT !.lines = <<>>] IN
                f \in Tries /\ f.pc = e.pc /\ f.sid = e.sid /\ f.sealed = e.sealed /\ f.lines = <<>>
             /\ LET f == [e EXCEPT !.pc = "collected"] IN
                f \in Tries /\ f.pc = "collected" /\ f.lines = e.lines /\ f.sid = e.sid /\ f.sealed = e.sealed
  BY ReadsAre DEF Tries, Steps
<1>3. x \in Tries /\ x.pc = "read" /\ x.sid = r.sid /\ x.sealed = r.sealed
  BY <1>1
<1> HIDE DEF x
<1>4. y \in Tries /\ y.pc = "read" /\ y.sid = r.sid /\ y.sealed = r.sealed
  BY <1>1, <1>3
<1> HIDE DEF y
<1>5. z \in Tries /\ z.pc = "read" /\ z.sid = r.sid /\ z.sealed = r.sealed /\ z.lines = <<>>
  BY <1>2, <1>4
<1>6. Again(r) = z
  BY DEF Again, x, y
<1> HIDE DEF z
<1>7. /\ Kept(r) \in Tries /\ Kept(r).pc = "collected" /\ Kept(r).lines = r.lines
      /\ Kept(r).sid = r.sid /\ Kept(r).sealed = r.sealed
  BY <1>2 DEF Kept
<1> QED
  BY <1>5, <1>6, <1>7

(* RetryRead: only a reader off track comes here, and it owes nothing      *)
LEMMA RetryReadInOrder == ASSUME TrackingInOrder, RetryRead PROVE TrackingInOrder'
<1>1. /\ FileInLines /\ TrackingTypes /\ CachesOfOne /\ Ground
      /\ UNCHANGED file /\ Size \in Nat /\ Size >= 2
  BY LinesOfFile DEF TrackingInOrder, Ground, RetryRead
<1>2. rd.pc = "check" /\ ~StableRead /\ unnoticed' = unnoticed
      /\ UNCHANGED <<file, trMap, replay, batches, disk, owed, sent, committed, history>>
  BY DEF RetryRead
<1>3. PICK u \in Sids : u = rd.sid /\ trMap = u /\ Placed(u) /\ Mine = tracked[u] /\ ~rd.sealed
  BY <1>2, ReaderAt
<1> DEFINE t == tracked[u]  c == seen[u]  m == [t EXCEPT !.parsed = Size]  k == [c EXCEPT !.bsize = -1]
<1>4. tracked' = [tracked EXCEPT ![u] = m] /\ seen' = [seen EXCEPT ![u] = k] /\ (rd' = Again(rd) \/ rd' = EndRead)
  <2>1. /\ tracked' = [tracked EXCEPT ![rd.sid] = [Mine EXCEPT !.parsed = Size]]
        /\ seen' = [seen EXCEPT ![rd.sid].bsize = -1] /\ (rd' = Again(rd) \/ rd' = EndRead)
    BY <1>3 DEF RetryRead, Again
  <2> QED
    BY <1>3, <2>1
<1>5. t \in Marks /\ c \in Caches /\ CacheOfOne(c) /\ rd \in Tries /\ rd.sealed = FALSE /\ rd.start \in Nat
  BY <1>1 DEF TrackingTypes, CachesOfOne, Tries
<1>6. OffTrack(u)
  <2>1. ~OnTrack(u)
    BY <1>1, <1>2, <1>3, <1>5, StableOnTrack
  <2> QED
    BY <1>3, <2>1 DEF Placed, InPlace
<1>7. c.known /\ unnoticed /\ t.last # 0 /\ NothingToLose /\ (PrefixIs(c.prefix) => c.mpos > Len(c.prefix))
  BY <1>6 DEF OffTrack, NothingToLose, WasShort
<1>8. m \in Marks /\ m.last = t.last /\ m.parsed = Size /\ Pos(m) = Size
  <2>1. Size \in (Nat \ {0}) \union {-1}
    BY <1>1
  <2>2. m \in Marks /\ m.last = t.last /\ m.parsed = Size
    BY <1>5, <2>1, MarksAre
  <2> HIDE DEF m
  <2> QED
    BY <2>2, <1>1, MarksAre
<1>9. /\ k \in Caches /\ CacheOfOne(k) /\ k.bsize = -1 /\ k.known = TRUE /\ k.prefix = c.prefix
      /\ k.mpos = c.mpos
  <2>1. c.known \in BOOLEAN
    BY <1>5, CachesAre
  <2> HIDE DEF c
  <2> QED
    BY <1>5, <1>7, <2>1, Unbounded
<1> HIDE DEF m, k
<1>10. PICK r \in Tries : /\ rd' = r /\ r.pc \in {"read", "commit"} /\ r.lines = <<>> /\ r.sealed = FALSE
                          /\ (r.pc = "read" => r.sid = u)
  BY <1>3, <1>4, <1>5, AgainIs, ReadsAre
<1>11. Moves(u, m, k, r)
  <2>1. ToSet(r.lines) = {}
    BY <1>10, ReadsAre
  <2>2. unnoticed' \in BOOLEAN
    BY <1>1, <1>2 DEF TrackingTypes
  <2> HIDE DEF t, c
  <2> QED
    BY <1>2, <1>4, <1>8, <1>9, <1>10, <2>1, <2>2 DEF Moves, t
<1>12. tracked'[u] = m /\ seen'[u] = k
  BY <1>1, <1>4 DEF TrackingTypes
<1>13. PICK z \in Int : z = Size
  BY <1>1
<1>14. /\ \A l, o : (Ahead(l, o)' <=> Ahead(l, o)) /\ (Within(l, o)' <=> Within(l, o))
       /\ \A l : Held(l)' <=> Held(l)
       /\ \A p : PrefixIs(p)' <=> PrefixIs(p)
       /\ Size' = Size
  BY <1>1, SameFile
<1>15. QuietAhead(u)'
  <2>1. \A l : ~Ahead(l, z)
    BY <1>1, <1>13, AheadIs
  <2>2. Pos(tracked[u])' = z
    BY <1>8, <1>12, <1>13
  <2> QED
    BY <1>14, <2>1, <2>2 DEF QuietAhead
<1>16. OffTrack(u)'
  <2>1. PrefixIs(seen[u].prefix)' <=> PrefixIs(c.prefix)
    <3>1. PICK p : p = c.prefix
      OBVIOUS
    <3>2. PrefixIs(p)' <=> PrefixIs(c.prefix)
      BY <1>14, <3>1
    <3> QED
      BY <1>9, <1>12, <3>1, <3>2
  <2>2. WillNotice(u)'
    BY <1>9, <1>10, <1>12, <1>15 DEF WillNotice
  <2>3. PrefixIs(c.prefix) => WasShort(u)'
    BY <1>7, <1>9, <1>10, <1>12, <1>15 DEF WasShort
  <2>4. \A l \in committed : ~Held(l)'
    BY <1>7, <1>14 DEF NothingToLose
  <2> QED
    BY <1>2, <1>7, <1>8, <1>9, <1>10, <1>12, <2>1, <2>2, <2>3, <2>4 DEF OffTrack, NothingToLose
<1>17. InPlace(u)'
  BY <1>2, <1>7, <1>16 DEF InPlace
<1> QED
  BY <1>1, <1>3, <1>7, <1>11, <1>17, ReadMoves

(* KeepRead: the reader is on track afterwards, whatever it was            *)
LEMMA KeepReadInOrder == ASSUME TrackingInOrder, KeepRead PROVE TrackingInOrder'
<1>1. /\ FileInLines /\ TrackingTypes /\ CachesOfOne /\ Ground
      /\ UNCHANGED file /\ Size \in Nat /\ Size >= 2 /\ file.body \in Bodies /\ First \in Int /\ First >= 1
      /\ \A i \in 1..Size : Held(file.body[i])
  BY LinesOfFile DEF TrackingInOrder, Ground, KeepRead
<1>2. rd.pc = "check" /\ StableRead /\ unnoticed' = FALSE /\ rd' = Kept(rd)
      /\ UNCHANGED <<file, trMap, replay, batches, disk, owed, sent, committed, history>>
  BY DEF KeepRead, Kept
<1>3. PICK u \in Sids : u = rd.sid /\ trMap = u /\ Placed(u) /\ Mine = tracked[u] /\ ~rd.sealed
  BY <1>2, ReaderAt
<1> DEFINE t == tracked[u]  c == seen[u]  pos == Pos(t)
           low == IF pos >= c.bsize THEN -1 ELSE c.bsize
           new == Primed(pos, low, c.bgen)
<1>4. tracked' = [tracked EXCEPT ![u] = t] /\ seen' = [seen EXCEPT ![u] = new]
  BY <1>3 DEF KeepRead
<1>5. t \in Marks /\ c \in Caches /\ CacheOfOne(c) /\ rd \in Tries /\ rd.sealed = FALSE /\ rd.start \in Nat
      /\ t.last \in Nat /\ pos \in Nat /\ t.parsed > 0
  <2>1. t \in Marks /\ c \in Caches /\ CacheOfOne(c) /\ t.last >= 0 /\ rd \in Tries /\ rd.sealed = FALSE
        /\ rd.start \in Nat /\ t.parsed > 0
    BY <1>1, <1>2, <1>3 DEF TrackingTypes, CachesOfOne, Placed, Only, Named, Tries
  <2> QED
    BY <2>1, MarksAre
<1>6. /\ c.mpos \in Int /\ c.bsize \in Int /\ c.prefix \in Bodies /\ Len(c.prefix) \in Nat /\ c.known \in BOOLEAN
      /\ c.bgen \in Int /\ c.mval \in Int
  BY <1>5, CachesAre
<1> HIDE DEF t, c, pos
<1>7. low \in Int
  BY <1>5, <1>6
<1>8. /\ new \in Caches /\ CacheOfOne(new) /\ new.known = TRUE /\ new.prefix = file.body /\ new.mpos = pos
      /\ new.bsize = low /\ new.bgen = c.bgen /\ new.gen = file.gen /\ new.ctime = file.ctime
      /\ PrefixIs(new.prefix) /\ Len(new.prefix) = Size
  <2>1. PICK o \in Nat, d \in Int, g \in Int : o = pos /\ d = low /\ g = c.bgen
    BY <1>5, <1>6, <1>7
  <2>2. PICK e : e = Primed(o, d, g)
    OBVIOUS
  <2>3. /\ e \in Caches /\ CacheOfOne(e) /\ e.known = TRUE /\ e.prefix = file.body /\ e.mpos = o
        /\ e.bsize = d /\ e.bgen = g /\ e.gen = file.gen /\ e.ctime = file.ctime
        /\ PrefixIs(e.prefix) /\ Len(e.prefix) = Size
    <3>1. e \in Caches /\ CacheOfOne(e) /\ PrefixIs(e.prefix) /\ Len(e.prefix) = Size
      BY <1>1, <2>2, PrimedIs
    <3>2. /\ e.known = TRUE /\ e.prefix = file.body /\ e.mpos = o
          /\ e.bsize = d /\ e.bgen = g /\ e.gen = file.gen /\ e.ctime = file.ctime
      BY <2>2 DEF Primed
    <3> QED
      BY <3>1, <3>2
  <2> HIDE DEF low
  <2>4. new = e
    BY <2>1, <2>2
  <2> HIDE DEF new
  <2> QED
    BY <2>1, <2>3, <2>4
<1> HIDE DEF new
<1>9. /\ Kept(rd) \in Tries /\ Kept(rd).pc = "collected" /\ Kept(rd).lines = rd.lines
      /\ Kept(rd).sid = u /\ Kept(rd).sealed = FALSE
  BY <1>3, <1>5, AgainIs
<1>10. Moves(u, t, new, Kept(rd))
  <2> HIDE DEF low
  <2> QED
    BY <1>2, <1>4, <1>5, <1>8, <1>9 DEF Moves, t
<1>11. GoesOn(u, t, Kept(rd))
  BY <1>5, <1>9 DEF GoesOn, t, pos
(* What it has read is news, whatever became of the file                   *)
<1>12. /\ ReadIsNews(u) /\ QuietAhead(u) /\ pos <= Size
       /\ low >= 0 => c.bgen = file.gen /\ low <= Size
       /\ t.last <= pos \/ (owed = {} /\ \A l \in committed : ~Held(l))
  <2>1. CASE OnTrack(u)
    <3>1. /\ ReadIsNews(u) /\ QuietAhead(u) /\ pos <= Size
          /\ c.bsize >= 0 => c.bgen = file.gen /\ c.bsize <= Size
          /\ t.last <= pos \/ (owed = {} /\ \A l \in committed : ~Held(l))
      BY <2>1 DEF OnTrack, t, c, pos
    <3> QED
      BY <3>1, <1>1, <1>5, <1>6
  <2>2. CASE OffTrack(u)
    <3>1. owed = {} /\ \A l \in committed : ~Held(l)
      BY <2>2 DEF OffTrack
    <3>2. ReadIsNews(u) /\ QuietAhead(u) /\ pos <= Size /\ ~(c.bsize >= 0)
      <4>1. CASE PrefixIs(c.prefix)
        BY <2>2, <4>1, <1>2 DEF OffTrack, WasShort, c, t, pos
      <4>2. CASE ~PrefixIs(c.prefix)
        <5>1. /\ c.known /\ rd.start > 0
              /\ \/ rd.before # <<file.gen, file.ctime>>
                 \/ c.mpos = rd.start /\ (c.mpos <= Len(c.prefix) \/ rd.start <= Size)
                 \/ ReadIsNews(u) /\ QuietAhead(u) /\ c.bsize < 0 /\ pos <= Size
          BY <2>2, <4>2, <1>2 DEF OffTrack, WillNotice, c, t, pos
        <5>2. rd.before = <<file.gen, file.ctime>> /\ (c.mpos = rd.start => Marker(rd.start) = c.mval)
          BY <1>2, <1>3, <4>2 DEF StableRead, c
        <5>3. ~(c.mpos = rd.start /\ (c.mpos <= Len(c.prefix) \/ rd.start <= Size))
          <6> SUFFICES ASSUME c.mpos = rd.start, c.mpos <= Len(c.prefix) \/ rd.start <= Size
                       PROVE  FALSE
            OBVIOUS
          <6>1. PICK o \in Nat : o = rd.start
            BY <1>5
          <6>2. /\ o > 0 /\ (o <= Len(c.prefix) \/ o <= Size) /\ Marker(o) = c.mval
                /\ c.mval = MarkOf(c.prefix, o)
                /\ \A i \in 1..Len(c.prefix) : c.prefix[i] < First
            BY <1>5, <4>2, <5>1, <5>2, <6>1 DEF CacheOfOne
          <6>3. o <= Len(c.prefix) => c.mval = c.prefix[o] /\ c.mval < First /\ c.mval >= 1
            <7>1. \A i \in 1..Len(c.prefix) : c.prefix[i] \in Int /\ c.prefix[i] >= 1
              BY <1>6, BodiesAre
            <7>2. o <= Len(c.prefix) => o \in 1..Len(c.prefix)
              BY <6>2, <1>6
            <7> QED
              BY <6>2, <7>1, <7>2, <1>6 DEF MarkOf
          <6>4. ~(o <= Len(c.prefix)) => c.mval = -1
            BY <6>2, <1>6 DEF MarkOf
          <6>5. o <= Size => Marker(o) >= First
            <7>1. o <= Size => o \in 1..Size
              BY <6>2, <1>1
            <7>2. o <= Size => file.body[o] >= First
              BY <7>1, <1>1, AheadIs
            <7> QED
              BY <6>2, <7>2, <1>1 DEF Marker
          <6>6. ~(o <= Size) => Marker(o) = -1
            BY <6>2, <1>1 DEF Marker
          <6> HIDE DEF low
          <6> QED
            BY <6>2, <6>3, <6>4, <6>5, <6>6, <1>1, <1>6
        <5> QED
          BY <5>1, <5>2, <5>3, <1>6
      <4> QED
        BY <4>1, <4>2
    <3>3. low = -1
      BY <3>2, <1>5, <1>6
    <3> HIDE DEF low
    <3> QED
      BY <3>1, <3>2, <3>3
  <2> QED
    BY <2>1, <2>2, <1>3 DEF Placed, InPlace
<1> HIDE DEF low
<1>13. /\ \A l, o : (Ahead(l, o)' <=> Ahead(l, o)) /\ (Within(l, o)' <=> Within(l, o))
       /\ \A l : Held(l)' <=> Held(l)
       /\ \A p : PrefixIs(p)' <=> PrefixIs(p)
       /\ Size' = Size
  BY <1>1, SameFile
<1>14. tracked'[u] = t /\ seen'[u] = new
  BY <1>1, <1>4 DEF TrackingTypes
<1>15. PICK z \in Nat : z = pos
  BY <1>5
<1>16. Pos(tracked[u])' = z
  BY <1>14, <1>15 DEF pos
<1>17. ReadIsNews(u)' /\ QuietAhead(u)'
  BY <1>2, <1>9, <1>12, <1>13, <1>15, <1>16 DEF ReadIsNews, QuietAhead, t, pos
<1>18. OnTrack(u)'
  <2>1. PrefixIs(seen[u].prefix)'
    <3>1. PICK p : p = new.prefix
      OBVIOUS
    <3>2. PrefixIs(p)'
      BY <1>8, <1>13, <3>1
    <3> QED
      BY <1>14, <3>1, <3>2
  <2>2. t.last <= z \/ (owed' = {} /\ \A l \in committed' : ~Held(l)')
    BY <1>2, <1>12, <1>13, <1>15
  <2> QED
    BY <1>1, <1>2, <1>8, <1>9, <1>12, <1>13, <1>14, <1>15, <1>16, <1>17, <2>1, <2>2 DEF OnTrack
<1>19. InPlace(u)'
  BY <1>18 DEF InPlace
<1> QED
  BY <1>1, <1>3, <1>10, <1>11, <1>19, ReadMoves

----------------------------------------------------------------------------
(* The messages on their way.                                               *)

(* Collect: the lines read become the last batch, with the position as     *)
(* checkpoint                                                              *)
LEMMA CollectInOrder == ASSUME TrackingInOrder, Collect PROVE TrackingInOrder'
<1>1. /\ FileInLines /\ TrackingTypes /\ CachesOfOne /\ LinesSoFar /\ ReadIsReal /\ OldestFirst
      /\ NothingHandledIsQueued /\ UNCHANGED file /\ NoSid \notin Sids
  BY ConstantsAre DEF TrackingInOrder, Ground, Collect
<1>2. /\ rd.pc = "collected" /\ rd' = EndRead
      /\ UNCHANGED <<file, trMap, replay, tracked, seen, owed, sent, committed, history, unnoticed>>
  BY DEF Collect
<1>3. PICK u \in Sids : u = rd.sid /\ trMap = u /\ Placed(u)
  BY <1>2, ReaderAt
<1> DEFINE t == tracked[u]  nb == [sid |-> u, lines |-> ToSet(rd.lines), cp |-> t.parsed, done |-> FALSE]
<1>4. /\ disk' = [s \in Sids |-> tracked[s].last]
      /\ batches' = IF rd.lines = <<>> THEN batches ELSE Append(batches, nb)
  BY <1>3 DEF Collect
<1>5. t \in Marks /\ t.last \in Nat /\ Pos(t) \in Nat /\ t.parsed > 0 /\ Pos(t) = t.parsed /\ t.parsed \in Nat
  <2>1. t \in Marks /\ t.last >= 0 /\ t.parsed > 0
    BY <1>1, <1>2, <1>3 DEF TrackingTypes, Placed, Only, Named
  <2> QED
    BY <2>1, MarksAre
<1>6. \A l \in ToSet(rd.lines) : l \in 1..MaxLines /\ Held(l)
  BY <1>1, LinesOfFile DEF LinesSoFar
<1>7. nb \in Sent /\ nb.sid = u /\ nb.lines = ToSet(rd.lines) /\ nb.cp = t.parsed /\ nb.done = FALSE
  BY <1>1, <1>5, <1>6 DEF Sent
<1> HIDE DEF nb
<1>8. PICK w \in Nat : w = Len(batches)
  BY <1>1, BatchesAre DEF TrackingTypes
<1>9. /\ DOMAIN batches = 1..w /\ batches \in Seq(Sent)
      /\ \A i \in 1..w : /\ batches[i].sid \in Sids \union {NoSid} /\ batches[i].cp \in Int
                         /\ batches[i].done \in BOOLEAN /\ batches[i].lines \subseteq 1..MaxLines
  BY <1>1, <1>8, BatchesAre DEF TrackingTypes
(* Nothing is added, or one batch behind the others                        *)
<1>10. /\ batches' \in Seq(Sent) /\ \A i \in 1..w : batches'[i] = batches[i]
       /\ \/ rd.lines = <<>> /\ batches' = batches
          \/ rd.lines # <<>> /\ DOMAIN batches' = 1..(w + 1) /\ batches'[w + 1] = nb
  <2>1. CASE rd.lines = <<>>
    BY <2>1, <1>4, <1>9
  <2>2. CASE rd.lines # <<>>
    <3>1. batches' = Append(batches, nb)
      BY <2>2, <1>4
    <3>2. batches' \in Seq(Sent) /\ Len(batches') = w + 1 /\ batches'[w + 1] = nb /\ \A i \in 1..w : batches'[i] = batches[i]
      BY <3>1, <1>7, <1>8, <1>9, AppendProperties
    <3>3. DOMAIN batches' = 1..(w + 1)
      BY <3>2, LenProperties
    <3> QED
      BY <2>2, <3>2, <3>3
  <2> QED
    BY <2>1, <2>2
<1>11. /\ DOMAIN batches' \subseteq 1..(w + 1)
       /\ \A i \in DOMAIN batches' : (i \in 1..w /\ batches'[i] = batches[i]) \/ (i = w + 1 /\ batches'[i] = nb /\ rd.lines # <<>>)
       /\ \A i \in 1..w : i \in DOMAIN batches'
  BY <1>9, <1>10
<1>12. /\ Only(u) /\ OnDisk(u) /\ Named(u) /\ InPlace(u) /\ BehindPlace(u) /\ OwedReached(u)
  BY <1>3 DEF Placed
<1>13. /\ \A l, o : (Ahead(l, o)' <=> Ahead(l, o)) /\ (Within(l, o)' <=> Within(l, o))
       /\ \A l : Held(l)' <=> Held(l)
       /\ \A p : PrefixIs(p)' <=> PrefixIs(p)
       /\ Size' = Size /\ Pos(tracked[u])' = Pos(t)
  BY <1>1, <1>2, SameFile
<1>14. ToSet(rd'.lines) = {} /\ rd'.pc = "commit" /\ rd'.lines = <<>> /\ rd' \in Tries /\ rd'.sealed = FALSE
  BY <1>2, ReadsAre
<1>15. /\ disk' \in [Sids -> Nat \union {-1}] /\ disk'[u] = t.last /\ \A s \in Sids : s # u => disk'[s] = -1
  <2>1. \A s \in Sids : tracked[s].last \in Nat \union {-1}
    BY <1>1, MarksAre DEF TrackingTypes
  <2>2. \A s \in Sids : s # u => tracked[s].last = -1
    BY <1>12, MarksAre DEF Only
  <2> QED
    BY <1>4, <2>1, <2>2
<1>16. rd.lines # <<>> => OnTrack(u)
  BY <1>2, <1>12 DEF InPlace, OffTrack
<1>17. Ground'
  <2>1. TrackingTypes'
    BY <1>1, <1>2, <1>10, <1>14, <1>15 DEF TrackingTypes
  <2>2. CachesOfOne'
    BY <1>1, <1>2, CachesKept
  <2>3. LinesSoFar'
    <3>1. \A i \in DOMAIN batches' : /\ \A l \in batches'[i].lines : Held(l)
                                     /\ batches'[i].done => batches'[i].lines \subseteq sent
      BY <1>1, <1>6, <1>7, <1>9, <1>11 DEF LinesSoFar
    <3> QED
      BY <1>1, <1>2, <1>13, <1>14, <3>1 DEF LinesSoFar
  <2>4. ReadIsReal'
    BY <1>14 DEF ReadIsReal
  <2>5. OldestFirst'
    <3>1. ASSUME NEW i \in DOMAIN batches', NEW j \in DOMAIN batches', i < j
          PROVE  /\ batches'[j].sid = NoSid => batches'[i].sid = NoSid
                 /\ batches'[j].done => batches'[i].done
      <4>1. i \in 1..w /\ batches'[i] = batches[i]
        BY <1>11, <3>1
      <4>2. CASE j \in 1..w /\ batches'[j] = batches[j]
        BY <4>1, <4>2, <3>1, <1>1, <1>9 DEF OldestFirst
      <4>3. CASE batches'[j] = nb
        BY <4>3, <1>1, <1>7
      <4> QED
        BY <4>2, <4>3, <1>11
    <3> QED
      BY <3>1 DEF OldestFirst
  <2>6. NothingHandledIsQueued'
    <3>1. \A l \in ToSet(rd.lines) : l \notin committed
      BY <1>12 DEF OwedReached
    <3> QED
      BY <1>1, <1>2, <1>7, <1>9, <1>11, <3>1 DEF NothingHandledIsQueued
  <2> QED
    BY <1>1, <2>1, <2>2, <2>3, <2>4, <2>5, <2>6, SameFile DEF Ground
<1>18. Only(u)' /\ OnDisk(u)' /\ Named(u)'
  BY <1>2, <1>3, <1>12, <1>13, <1>14, <1>15 DEF Only, OnDisk, Named
<1>19. InPlace(u)'
  <2>1. QuietAhead(u) => QuietAhead(u)'
    BY <1>2, <1>13 DEF QuietAhead
  <2>2. ReadIsNews(u)'
    BY <1>14 DEF ReadIsNews
  <2>3. PrefixIs(seen[u].prefix)' <=> PrefixIs(seen[u].prefix)
    BY <1>1, <1>2 DEF PrefixIs, Size
  <2>4. (\A l \in committed : ~Held(l)) => (\A l \in committed : ~Held(l)')
    BY <1>13
  <2>5. OnTrack(u) => OnTrack(u)'
    BY <1>1, <1>2, <1>13, <1>14, <2>1, <2>2, <2>3, <2>4 DEF OnTrack
  <2>6. OffTrack(u) => OffTrack(u)'
    <3> SUFFICES ASSUME OffTrack(u)
                 PROVE  OffTrack(u)'
      OBVIOUS
    <3>1. batches' = batches
      BY <1>2, <1>10 DEF OffTrack
    <3>2. WasShort(u) => WasShort(u)'
      BY <1>2, <1>14, <2>1 DEF WasShort
    <3>3. WillNotice(u)'
      BY <1>14 DEF WillNotice
    <3> QED
      BY <1>2, <1>14, <2>3, <2>4, <3>1, <3>2, <3>3 DEF OffTrack
  <2> QED
    BY <1>2, <1>12, <2>5, <2>6 DEF InPlace
<1>20. BehindPlace(u)'
  <2>1. ASSUME NEW i \in DOMAIN batches', batches'[i].sid # NoSid, NEW z, z = batches'[i].cp
        PROVE  /\ batches'[i].sid = u /\ z > 0 /\ z <= Pos(t) /\ z \in Int
               /\ \A l \in batches'[i].lines : Within(l, z) /\ l \notin history
               /\ \A l \in committed \union batches'[i].lines : ~Ahead(l, z)
               /\ i = w + 1 \/ \A l \in ToSet(rd.lines) : Ahead(l, z)
    <3>1. CASE i \in 1..w /\ batches'[i] = batches[i]
      BY <2>1, <3>1, <1>9, <1>12 DEF BehindPlace
    <3>2. CASE i = w + 1 /\ batches'[i] = nb /\ rd.lines # <<>>
      <4>1. \A l \in ToSet(rd.lines) : Within(l, Pos(t)) /\ l \notin history
        BY <3>2, <1>16 DEF OnTrack, ReadIsNews
      <4>2. \A l \in ToSet(rd.lines) : ~Ahead(l, Pos(t))
        BY <4>1, <1>1, <1>5, <1>6, AheadIs
      <4>3. \A l \in committed : ~Ahead(l, Pos(t))
        BY <1>12 DEF OwedReached
      <4>4. z = t.parsed
        BY <2>1, <3>2, <1>7
      <4> QED
        BY <3>2, <4>1, <4>2, <4>3, <4>4, <1>5, <1>7
    <3> QED
      BY <3>1, <3>2, <1>11
  <2>2. ASSUME NEW i \in DOMAIN batches', NEW j \in DOMAIN batches', i < j, batches'[i].sid # NoSid, NEW z, z = batches'[i].cp
        PROVE  z <= batches'[j].cp /\ \A l \in batches'[j].lines : Ahead(l, z)
    <3>1. i \in 1..w /\ batches'[i] = batches[i]
      BY <1>11, <2>2
    <3>2. CASE j \in 1..w /\ batches'[j] = batches[j]
      BY <2>2, <3>1, <3>2, <1>9, <1>12 DEF BehindPlace
    <3>3. CASE batches'[j] = nb
      <4>1. i # w + 1
        BY <3>1
      <4>2. z <= Pos(t) /\ \A l \in ToSet(rd.lines) : Ahead(l, z)
        BY <4>1, <2>1, <2>2
      <4> QED
        BY <3>3, <4>2, <1>5, <1>7
    <3> QED
      BY <3>2, <3>3, <1>11
  <2>3. ASSUME NEW i \in DOMAIN batches', batches'[i].sid # NoSid
        PROVE  /\ batches'[i].sid = u /\ tracked'[u].parsed > 0 /\ batches'[i].cp > 0
               /\ batches'[i].cp <= Pos(tracked[u])'
               /\ \A l \in batches'[i].lines : Within(l, batches[i].cp)' /\ l \notin history'
               /\ \A l \in committed' \union batches'[i].lines : ~Ahead(l, batches[i].cp)'
    <3>1. PICK z : z = batches'[i].cp
      OBVIOUS
    <3> QED
      BY <1>2, <1>5, <1>13, <2>1, <2>3, <3>1
  <2>4. ASSUME NEW i \in DOMAIN batches', NEW j \in DOMAIN batches', i < j, batches'[i].sid # NoSid
        PROVE  batches'[i].cp <= batches'[j].cp /\ \A l \in batches'[j].lines : Ahead(l, batches[i].cp)'
    <3>1. PICK z : z = batches'[i].cp
      OBVIOUS
    <3> QED
      BY <1>13, <2>2, <2>4, <3>1
  <2> QED
    BY <1>14, <2>3, <2>4 DEF BehindPlace
<1>21. OwedReached(u)'
  <2>1. PICK o, p : o = t.last /\ p = Pos(t)
    OBVIOUS
  <2>2. /\ \A l \in committed : ~Ahead(l, o) /\ ~Ahead(l, p)
        /\ \A l \in owed \ sent :
             /\ Ahead(l, o)
             /\ Ahead(l, p) \/ l \in ToSet(rd.lines) \/ \E i \in DOMAIN batches : batches[i].sid = u /\ l \in batches[i].lines
    BY <2>1, <1>12 DEF OwedReached
  <2>3. ASSUME NEW l \in ToSet(rd.lines)
        PROVE  \E i \in DOMAIN batches' : batches'[i].sid = u /\ l \in batches'[i].lines
    <3>1. rd.lines # <<>>
      BY <2>3, ReadsAre
    <3>2. w + 1 \in DOMAIN batches' /\ batches'[w + 1] = nb
      BY <3>1, <1>10
    <3> QED
      BY <2>3, <3>2, <1>7
  <2>4. ASSUME NEW l, \E i \in DOMAIN batches : batches[i].sid = u /\ l \in batches[i].lines
        PROVE  \E i \in DOMAIN batches' : batches'[i].sid = u /\ l \in batches'[i].lines
    BY <2>4, <1>9, <1>10, <1>11
  <2>5. Pos(tracked[u])' = p /\ tracked'[u].last = o
    BY <1>2, <1>13, <2>1
  <2> QED
    BY <1>2, <1>13, <1>14, <2>2, <2>3, <2>4, <2>5 DEF OwedReached
<1> QED
  BY <1>17, <1>18, <1>19, <1>20, <1>21 DEF Placed, TrackingInOrder

(* DeliverBatch: the lines of a batch are sent and stay behind the         *)
(* position                                                                *)
LEMMA DeliverBatchInOrder == ASSUME TrackingInOrder, DeliverBatch PROVE TrackingInOrder'
<1>1. /\ FileInLines /\ TrackingTypes /\ CachesOfOne /\ LinesSoFar /\ ReadIsReal /\ OldestFirst
      /\ NothingHandledIsQueued /\ UNCHANGED file
  BY DEF TrackingInOrder, Ground, DeliverBatch
<1>2. PICK k \in DOMAIN batches :
        /\ ~batches[k].done /\ \A j \in 1..k-1 : batches[j].done
        /\ batches' = [batches EXCEPT ![k].done = TRUE]
        /\ sent' = sent \union batches[k].lines
  BY DEF DeliverBatch
<1>3. UNCHANGED <<file, trMap, replay, tracked, seen, rd, disk, owed, committed, history, unnoticed>>
  BY DEF DeliverBatch
<1>4. PICK w \in Nat : w = Len(batches) /\ DOMAIN batches = 1..w
  BY <1>1, BatchesAre DEF TrackingTypes
<1>5. /\ batches' \in Seq(Sent) /\ DOMAIN batches' = 1..w /\ k \in 1..w
      /\ \A i \in 1..w : /\ batches'[i].sid = batches[i].sid /\ batches'[i].lines = batches[i].lines
                         /\ batches'[i].cp = batches[i].cp
                         /\ batches'[i].done = (batches[i].done \/ i = k)
  <2>1. ASSUME NEW b \in Sent
        PROVE  LET x == [b EXCEPT !.done = TRUE] IN
               x \in Sent /\ x.sid = b.sid /\ x.lines = b.lines /\ x.cp = b.cp /\ x.done = TRUE
    BY DEF Sent
  <2>2. \A i \in 1..w : batches[i] \in Sent /\ batches[i].done \in BOOLEAN
    BY <1>1, <1>4, BatchesAre DEF TrackingTypes
  <2>3. batches' = [batches EXCEPT ![k] = [batches[k] EXCEPT !.done = TRUE]]
    BY <1>2
  <2> DEFINE x == [batches[k] EXCEPT !.done = TRUE]
  <2>4. x \in Sent /\ x.sid = batches[k].sid /\ x.lines = batches[k].lines /\ x.cp = batches[k].cp /\ x.done = TRUE
    BY <2>1, <2>2, <1>4
  <2> HIDE DEF x
  <2>5. batches' = [batches EXCEPT ![k] = x]
    BY <2>3 DEF x
  <2>6. batches' \in Seq(Sent)
    <3>1. batches \in Seq(Sent)
      BY <1>1 DEF TrackingTypes
    <3>2. batches' \in [1..w -> Sent]
      BY <2>2, <2>4, <2>5, <3>1, <1>4
    <3> QED
      BY <3>2, SeqDef
  <2>7. DOMAIN batches' = 1..w /\ batches'[k] = x /\ \A i \in 1..w : i # k => batches'[i] = batches[i]
    BY <2>5, <1>4
  <2>8. ASSUME NEW i \in 1..w
        PROVE  /\ batches'[i].sid = batches[i].sid /\ batches'[i].lines = batches[i].lines
               /\ batches'[i].cp = batches[i].cp /\ batches'[i].done = (batches[i].done \/ i = k)
    <3>1. CASE i = k
      BY <3>1, <2>2, <2>4, <2>7
    <3>2. CASE i # k
      BY <3>2, <2>2, <2>7
    <3> QED
      BY <3>1, <3>2
  <2> QED
    BY <2>6, <2>7, <2>8, <1>4
<1>6. /\ \A l, o : (Ahead(l, o)' <=> Ahead(l, o)) /\ (Within(l, o)' <=> Within(l, o))
      /\ \A l : Held(l)' <=> Held(l)
      /\ \A p : PrefixIs(p)' <=> PrefixIs(p)
      /\ Size' = Size
  BY <1>1, SameFile
<1>7. Ground'
  <2>1. TrackingTypes' /\ CachesOfOne' /\ ReadIsReal'
    BY <1>1, <1>3, <1>5, CachesKept DEF TrackingTypes, ReadIsReal
  <2>2. LinesSoFar'
    <3>1. \A i \in 1..w : /\ \A l \in batches'[i].lines : Held(l)
                          /\ batches'[i].done => batches'[i].lines \subseteq sent'
      BY <1>1, <1>2, <1>4, <1>5 DEF LinesSoFar
    <3> QED
      BY <1>1, <1>3, <1>5, <1>6, <3>1 DEF LinesSoFar
  <2>3. OldestFirst'
    <3>1. ASSUME NEW i \in 1..w, NEW j \in 1..w, i < j
          PROVE  /\ batches'[j].sid = NoSid => batches'[i].sid = NoSid
                 /\ batches'[j].done => batches'[i].done
      <4>1. batches[j].sid = NoSid => batches[i].sid = NoSid
        BY <3>1, <1>1, <1>4 DEF OldestFirst
      <4>2. batches[j].done => batches[i].done
        BY <3>1, <1>1, <1>4 DEF OldestFirst
      <4>3. j = k => batches[i].done
        <5>1. j = k => i \in 1..k-1
          BY <3>1, <1>5
        <5> QED
          BY <5>1, <1>2
      <4> QED
        BY <4>1, <4>2, <4>3, <1>5
    <3> QED
      BY <1>5, <3>1 DEF OldestFirst
  <2>4. NothingHandledIsQueued'
    BY <1>1, <1>3, <1>4, <1>5 DEF NothingHandledIsQueued
  <2> QED
    BY <1>1, <2>1, <2>2, <2>3, <2>4, SameFile DEF Ground
<1>8. CASE Untracked
  <2>1. Untracked'
    BY <1>3, <1>4, <1>5, <1>6, <1>8 DEF Untracked, Nothing
  <2> QED
    BY <1>7, <2>1 DEF TrackingInOrder
<1>9. ASSUME NEW u \in Sids, Placed(u)
      PROVE  TrackingInOrder'
  <2>1. /\ Only(u) /\ OnDisk(u) /\ Named(u) /\ InPlace(u) /\ BehindPlace(u) /\ OwedReached(u)
    BY <1>9 DEF Placed
  <2>2. Pos(tracked[u])' = Pos(tracked[u]) /\ PrefixIs(seen[u].prefix)' = PrefixIs(seen[u].prefix)
    BY <1>1, <1>3 DEF PrefixIs, Size
  <2>3. (QuietAhead(u) => QuietAhead(u)') /\ (ReadIsNews(u) => ReadIsNews(u)')
    BY <1>3, <1>6, <2>2 DEF QuietAhead, ReadIsNews
  <2>4. InPlace(u)'
    <3>1. batches # <<>>
      BY <1>4, <1>5
    <3>2. OnTrack(u)
      BY <2>1, <3>1 DEF InPlace, OffTrack
    <3>3. (\A l \in committed : ~Held(l)) => (\A l \in committed : ~Held(l)')
      BY <1>6
    <3>4. OnTrack(u)'
      BY <1>1, <1>3, <1>6, <2>2, <2>3, <3>2, <3>3 DEF OnTrack
    <3> QED
      BY <3>4 DEF InPlace
  <2>5. Only(u)' /\ OnDisk(u)' /\ Named(u)'
    BY <1>3, <2>1, <2>2 DEF Only, OnDisk, Named
  <2>6. BehindPlace(u)'
    <3>1. ASSUME NEW i \in 1..w, batches[i].sid # NoSid, NEW z, z = batches[i].cp
          PROVE  /\ batches[i].sid = u /\ tracked[u].parsed > 0 /\ z > 0 /\ z <= Pos(tracked[u])
                 /\ \A l \in batches[i].lines : Within(l, z)' /\ l \notin history
                 /\ \A l \in committed \union batches[i].lines : ~Ahead(l, z)'
                 /\ \A l \in ToSet(rd.lines) : Ahead(l, z)'
                 /\ \A j \in 1..w : i < j => z <= batches[j].cp /\ \A l \in batches[j].lines : Ahead(l, z)'
      BY <1>4, <1>6, <2>1, <3>1 DEF BehindPlace
    <3>2. ASSUME NEW i \in DOMAIN batches', batches'[i].sid # NoSid
          PROVE  /\ batches'[i].sid = u /\ tracked'[u].parsed > 0 /\ batches'[i].cp > 0
                 /\ batches'[i].cp <= Pos(tracked[u])'
                 /\ \A l \in batches'[i].lines : Within(l, batches[i].cp)' /\ l \notin history'
                 /\ \A l \in committed' \union batches'[i].lines : ~Ahead(l, batches[i].cp)'
                 /\ \A l \in ToSet(rd'.lines) : Ahead(l, batches[i].cp)'
                 /\ \A j \in 1..w : i < j => batches'[i].cp <= batches'[j].cp /\ \A l \in batches'[j].lines : Ahead(l, batches[i].cp)'
      <4>1. PICK z : z = batches[i].cp
        OBVIOUS
      <4> QED
        BY <1>3, <1>5, <2>2, <3>1, <3>2, <4>1
    <3> QED
      BY <1>5, <3>2 DEF BehindPlace
  <2>7. OwedReached(u)'
    <3>1. PICK o, p : o = tracked[u].last /\ p = Pos(tracked[u])
      OBVIOUS
    <3>2. /\ \A l \in committed : ~Ahead(l, o) /\ ~Ahead(l, p) /\ l \notin ToSet(rd.lines)
          /\ \A l \in owed \ sent :
               /\ Ahead(l, o)
               /\ Ahead(l, p) \/ l \in ToSet(rd.lines) \/ \E i \in 1..w : batches[i].sid = u /\ l \in batches[i].lines
      BY <2>1, <3>1, <1>4 DEF OwedReached
    <3>3. owed' \ sent' \subseteq owed \ sent
      BY <1>2, <1>3
    <3> QED
      BY <1>3, <1>5, <1>6, <2>2, <3>1, <3>2, <3>3 DEF OwedReached
  <2> QED
    BY <1>7, <2>1, <2>4, <2>5, <2>6, <2>7 DEF Placed, TrackingInOrder
<1> QED
  BY <1>8, <1>9 DEF TrackingInOrder

(* The biggest of a set that has one                                       *)
LEMMA MaxIs ==
  ASSUME NEW S \in SUBSET Int, NEW n \in S, \A y \in S : y <= n
  PROVE  Max(S) = n
<1>1. \E x \in S : \A y \in S : x >= y
  OBVIOUS
<1>2. Max(S) \in S /\ \A y \in S : Max(S) >= y
  BY <1>1 DEF Max
<1>3. PICK m : m = Max(S)
  OBVIOUS
<1>4. m \in Int /\ n \in Int /\ m <= n /\ m >= n
  BY <1>2, <1>3
<1> QED
  BY <1>3, <1>4

(* Where the marker of a session goes when n batches are settled           *)
MarkAfter(t, n, q) ==
  \/ q = t.last /\ \A i \in 1..n : batches[i].sid = NoSid
  \/ t.parsed > 0 /\ q = t.parsed /\ \A i \in DOMAIN batches : i > n => batches[i].sid = NoSid
  \/ n \in DOMAIN batches /\ batches[n].sid # NoSid /\ q = batches[n].cp

(* CommitMarks moves each marker in one of three ways                      *)
LEMMA CommitMarksMoves ==
  ASSUME TrackingInOrder, CommitMarks
  PROVE  \E n \in 0..Len(batches) :
           /\ \A i \in DOMAIN batches : batches[i].done <=> i <= n
           /\ batches' = SubSeq(batches, n + 1, Len(batches))
           /\ committed' = committed \union UNION {batches[i].lines : i \in {j \in 1..n : batches[j].sid # NoSid}}
           /\ tracked' \in [Sids -> Marks]
           /\ \A s \in Sids : tracked[s] = None => tracked'[s] = None
           /\ \A u \in Sids : Placed(u) => /\ MarkAfter(tracked[u], n, tracked'[u].last)
                                           /\ tracked'[u].parsed = tracked[u].parsed
                                           /\ tracked'[u].last \in Nat
<1>1. /\ TrackingTypes /\ OldestFirst /\ NoSid \notin Sids
  BY ConstantsAre DEF TrackingInOrder, Ground
<1> DEFINE of(s) == {i \in DOMAIN batches : batches[i].sid = s}
<1>2. PICK n \in 0..Len(batches) :
        /\ \A i \in DOMAIN batches : batches[i].done <=> i <= n
        /\ tracked' = [s \in Sids |-> [tracked[s] EXCEPT !.last =
             IF tracked[s] = None \/ tracked[s].parsed < 0 THEN tracked[s].last
                         ELSE IF of(s) \subseteq 1..n THEN tracked[s].parsed
                         ELSE IF of(s) \cap 1..n = {} THEN tracked[s].last
                         ELSE batches[Max(of(s) \cap 1..n)].cp]]
        /\ committed' = committed \union UNION {batches[i].lines : i \in {j \in 1..n : batches[j].sid # NoSid}}
        /\ batches' = SubSeq(batches, n + 1, Len(batches))
  BY DEF CommitMarks
<1> HIDE DEF of
<1>3. PICK w \in Nat : w = Len(batches) /\ DOMAIN batches = 1..w /\ n \in 0..w
  BY <1>1, <1>2, BatchesAre DEF TrackingTypes
<1>4. \A i \in 1..w : batches[i].sid \in Sids \union {NoSid} /\ batches[i].cp \in Int
  BY <1>1, <1>3, BatchesAre DEF TrackingTypes
<1>5. ASSUME NEW s \in Sids, tracked[s] = None
      PROVE  tracked'[s] = None
  <2>1. tracked'[s] = [None EXCEPT !.last = None.last]
    BY <1>2, <1>5
  <2> QED
    BY <2>1 DEF None
<1>6. ASSUME NEW u \in Sids, Placed(u)
      PROVE  \E q \in Nat : MarkAfter(tracked[u], n, q) /\ tracked'[u] = [tracked[u] EXCEPT !.last = q]
  <2> DEFINE t == tracked[u]
  <2>1. t \in Marks /\ t # None /\ t.last \in Nat /\ (t.parsed >= 0 => t.parsed > 0) /\ t.parsed \in Int
    <3>1. t \in Marks /\ t.last >= 0 /\ t # None
      BY <1>1, <1>6 DEF TrackingTypes, Placed, Only
    <3> QED
      BY <3>1, MarksAre
  <2>2. \A i \in 1..w : batches[i].sid # NoSid => batches[i].sid = u /\ t.parsed > 0 /\ batches[i].cp > 0
    BY <1>3, <1>6 DEF Placed, BehindPlace
  <2>3. of(u) = {i \in 1..w : batches[i].sid = u}
    BY <1>3 DEF of
  <2> HIDE DEF t
  <2>4. CASE t.parsed < 0
    <3>1. tracked'[u] = [tracked[u] EXCEPT !.last = t.last]
      BY <1>2, <2>4 DEF t
    <3>2. \A i \in 1..n : batches[i].sid = NoSid
      BY <2>2, <2>4, <1>3, <2>1
    <3>3. MarkAfter(t, n, t.last)
      BY <3>2 DEF MarkAfter
    <3> QED
      BY <3>1, <3>3, <2>1 DEF t
  <2>5. CASE ~(t.parsed < 0) /\ of(u) \subseteq 1..n
    <3>1. tracked'[u] = [tracked[u] EXCEPT !.last = t.parsed]
      BY <1>2, <2>1, <2>5 DEF t
    <3>2. \A i \in 1..w : i > n => batches[i].sid = NoSid
      BY <2>2, <2>3, <2>5
    <3>3. MarkAfter(t, n, t.parsed)
      BY <3>2, <2>1, <2>5, <1>3 DEF MarkAfter
    <3> QED
      BY <3>1, <3>3, <2>1, <2>5 DEF t
  <2>6. CASE ~(t.parsed < 0) /\ ~(of(u) \subseteq 1..n) /\ of(u) \cap 1..n = {}
    <3>1. tracked'[u] = [tracked[u] EXCEPT !.last = t.last]
      BY <1>2, <2>1, <2>6 DEF t
    <3>2. \A i \in 1..n : batches[i].sid = NoSid
      BY <2>2, <2>3, <2>6, <1>3
    <3>3. MarkAfter(t, n, t.last)
      BY <3>2 DEF MarkAfter
    <3> QED
      BY <3>1, <3>3, <2>1 DEF t
  <2>7. CASE ~(t.parsed < 0) /\ ~(of(u) \subseteq 1..n) /\ of(u) \cap 1..n # {}
    <3> DEFINE S == of(u) \cap 1..n
    <3>1. tracked'[u] = [tracked[u] EXCEPT !.last = batches[Max(S)].cp]
      BY <1>2, <2>1, <2>7 DEF t
    <3>2. PICK k \in S : TRUE
      BY <2>7
    <3>3. k \in 1..w /\ k \in 1..n /\ batches[k].sid = u /\ batches[k].sid # NoSid /\ n \in 1..w
      BY <2>3, <3>2, <1>1, <1>3
    <3>4. batches[n].sid # NoSid
      <4>1. CASE k = n
        BY <4>1, <3>3
      <4>2. CASE k < n
        BY <4>2, <3>3, <1>1, <1>3 DEF OldestFirst
      <4> QED
        BY <4>1, <4>2, <3>3
    <3>5. n \in S /\ S \in SUBSET Int /\ \A y \in S : y <= n
      BY <3>3, <3>4, <2>2, <2>3
    <3>6. Max(S) = n
      BY <3>5, MaxIs
    <3>7. MarkAfter(t, n, batches[n].cp)
      BY <3>3, <3>4, <1>3 DEF MarkAfter
    <3>8. batches[n].cp \in Nat
      BY <3>3, <3>4, <2>2, <1>4
    <3> QED
      BY <3>1, <3>6, <3>7, <3>8 DEF t
  <2> QED
    BY <2>4, <2>5, <2>6, <2>7
<1>7. ASSUME NEW u \in Sids, Placed(u)
      PROVE  /\ MarkAfter(tracked[u], n, tracked'[u].last)
             /\ tracked'[u].parsed = tracked[u].parsed /\ tracked'[u].last \in Nat /\ tracked'[u] \in Marks
  <2>1. PICK q \in Nat : MarkAfter(tracked[u], n, q) /\ tracked'[u] = [tracked[u] EXCEPT !.last = q]
    BY <1>6, <1>7
  <2>2. PICK m : m = tracked[u]
    OBVIOUS
  <2>3. PICK m2 : m2 = tracked'[u]
    OBVIOUS
  <2>4. m \in Marks
    BY <1>1, <2>2 DEF TrackingTypes
  <2>5. m2 = [m EXCEPT !.last = q]
    BY <2>1, <2>2, <2>3
  <2>6. m2 \in Marks /\ m2.last = q /\ m2.parsed = m.parsed
    BY <2>4, <2>5, MarksAre
  <2> QED
    BY <2>1, <2>2, <2>3, <2>6
<1>8. tracked' \in [Sids -> Marks]
  <2>1. ASSUME NEW s \in Sids
        PROVE  tracked'[s] \in Marks
    <3>1. CASE tracked[s] = None
      BY <3>1, <1>5, MarksAre
    <3>2. CASE tracked[s] # None
      <4>1. Placed(s)
        BY <3>2 DEF TrackingInOrder, Untracked, Nothing, Placed, Only
      <4> QED
        BY <4>1, <1>7
    <3> QED
      BY <3>1, <3>2
  <2>2. PICK f : f = [s \in Sids |-> [tracked[s] EXCEPT !.last =
             IF tracked[s] = None \/ tracked[s].parsed < 0 THEN tracked[s].last
                         ELSE IF of(s) \subseteq 1..n THEN tracked[s].parsed
                         ELSE IF of(s) \cap 1..n = {} THEN tracked[s].last
                         ELSE batches[Max(of(s) \cap 1..n)].cp]]
    OBVIOUS
  <2>3. tracked' = [s \in Sids |-> tracked'[s]]
    BY <1>2
  <2> QED
    BY <2>1, <2>3
<1> QED
  BY <1>2, <1>5, <1>7, <1>8

(* CommitMarks: the watermark passes settled lines only, and none that     *)
(* waits                                                                   *)
LEMMA CommitMarksInOrder == ASSUME TrackingInOrder, CommitMarks PROVE TrackingInOrder'
<1>1. /\ FileInLines /\ TrackingTypes /\ CachesOfOne /\ LinesSoFar /\ ReadIsReal /\ OldestFirst
      /\ NothingHandledIsQueued /\ UNCHANGED file /\ NoSid \notin Sids
  BY ConstantsAre DEF TrackingInOrder, Ground, CommitMarks
<1>2. /\ rd.pc = "commit" /\ rd' = IdleRead /\ disk' = [s \in Sids |-> tracked'[s].last]
      /\ UNCHANGED <<file, trMap, replay, seen, owed, sent, history, unnoticed>>
  BY DEF CommitMarks, Save
<1>3. PICK w \in Nat : w = Len(batches) /\ DOMAIN batches = 1..w
  BY <1>1, BatchesAre DEF TrackingTypes
<1>4. PICK n \in 0..w :
        /\ \A i \in 1..w : batches[i].done <=> i <= n
        /\ batches' = SubSeq(batches, n + 1, w)
        /\ committed' = committed \union UNION {batches[i].lines : i \in {j \in 1..n : batches[j].sid # NoSid}}
        /\ tracked' \in [Sids -> Marks]
        /\ \A s \in Sids : tracked[s] = None => tracked'[s] = None
        /\ \A u \in Sids : Placed(u) => /\ MarkAfter(tracked[u], n, tracked'[u].last)
                                        /\ tracked'[u].parsed = tracked[u].parsed
                                        /\ tracked'[u].last \in Nat
  BY <1>3, CommitMarksMoves
<1>5. \A i \in 1..w : /\ batches[i].sid \in Sids \union {NoSid} /\ batches[i].cp \in Int
                      /\ batches[i].done \in BOOLEAN /\ batches[i].lines \subseteq 1..MaxLines
  BY <1>1, <1>3, BatchesAre DEF TrackingTypes
<1>6. /\ batches' \in Seq(Sent) /\ DOMAIN batches' = 1..(w - n)
      /\ \A i \in 1..(w - n) : n + i \in 1..w /\ n + i > n /\ batches'[i] = batches[n + i]
  <2>1. batches \in Seq(Sent) /\ n + 1 \in Int /\ n + 1 >= 1 /\ w = Len(batches) /\ w \in Int
    BY <1>1, <1>3, <1>4 DEF TrackingTypes
  <2>2. CASE n = w
    <3>1. batches' = <<>>
      BY <2>1, <2>2, <1>4, SubSeqProperties
    <3>2. batches' \in Seq(Sent) /\ DOMAIN batches' = {} /\ 1..(w - n) = {}
      BY <3>1, <2>2, EmptySeq
    <3> QED
      BY <3>2
  <2>3. CASE n < w
    <3>1. batches' \in Seq(Sent) /\ Len(batches') = w - (n + 1) + 1
      BY <2>1, <2>3, <1>4, SubSeqProperties
    <3>2. Len(batches') = w - n
      BY <3>1, <2>3
    <3>3. DOMAIN batches' = 1..(w - n)
      BY <3>1, <3>2, LenProperties
    <3>4. ASSUME NEW i \in 1..(w - n)
          PROVE  n + i \in 1..w /\ n + i > n /\ batches'[i] = batches[n + i]
      <4>1. n + i \in 1..w /\ n + i > n /\ i \in 1..(w - (n + 1) + 1) /\ (n + 1) + i - 1 = n + i
        BY <3>4
      <4>2. batches'[i] = batches[(n + 1) + i - 1]
        BY <2>1, <2>3, <4>1, <1>4
      <4> QED
        BY <4>1, <4>2
    <3> QED
      BY <3>1, <3>3, <3>4
  <2> QED
    BY <2>2, <2>3
<1>7. /\ \A l, o : (Ahead(l, o)' <=> Ahead(l, o)) /\ (Within(l, o)' <=> Within(l, o))
      /\ \A l : Held(l)' <=> Held(l)
      /\ Size' = Size
  BY <1>1, SameFile
<1>8. /\ ToSet(rd'.lines) = {} /\ rd'.pc = "idle" /\ rd'.lines = <<>> /\ rd' \in Tries /\ rd'.sealed = FALSE
      /\ ToSet(rd.lines) = {}
  BY <1>1, <1>2, ReadsAre DEF ReadIsReal
<1>9. /\ committed \subseteq committed'
      /\ \A l \in committed' : l \in committed \/ \E i \in 1..n : batches[i].sid # NoSid /\ l \in batches[i].lines
  BY <1>4
<1>10. \A l \in committed' : l \in committed \/ (Held(l) /\ l \in 1..MaxLines)
  <2>1. \A i \in 1..w : \A l \in batches[i].lines : Held(l) /\ l \in 1..MaxLines
    BY <1>1, <1>3, <1>5 DEF LinesSoFar
  <2> QED
    BY <2>1, <1>4, <1>9
<1>11. disk' \in [Sids -> Nat \union {-1}] /\ \A s \in Sids : disk'[s] = tracked'[s].last
  <2>1. \A s \in Sids : tracked'[s].last \in Nat \union {-1}
    BY <1>4, MarksAre
  <2> QED
    BY <1>2, <2>1
<1>12. ASSUME \A k \in 1..n, j \in 1..w : batches[k].sid # NoSid /\ k < j => batches[k].lines \cap batches[j].lines = {},
              \A s \in Sids : IF tracked'[s] = None THEN seen[s] = NoCache ELSE tracked'[s].last >= 0
       PROVE  Ground'
  <2>1. TrackingTypes'
    <3>1. committed' \subseteq 1..MaxLines
      BY <1>1, <1>10 DEF TrackingTypes
    <3> QED
      BY <1>1, <1>2, <1>4, <1>6, <1>8, <1>11, <1>12, <3>1 DEF TrackingTypes
  <2>2. CachesOfOne'
    BY <1>1, <1>2, CachesKept
  <2>3. LinesSoFar'
    <3>1. \A l \in committed' \union history' : l < file'.next
      BY <1>1, <1>2, <1>10, AheadIs DEF LinesSoFar
    <3>2. \A i \in DOMAIN batches' : /\ \A l \in batches'[i].lines : Held(l)
                                     /\ batches'[i].done => batches'[i].lines \subseteq sent
      BY <1>1, <1>3, <1>6 DEF LinesSoFar
    <3> QED
      BY <1>1, <1>2, <1>7, <1>8, <3>1, <3>2 DEF LinesSoFar
  <2>4. ReadIsReal'
    BY <1>8 DEF ReadIsReal
  <2>5. OldestFirst'
    <3>1. ASSUME NEW i \in 1..(w - n), NEW j \in 1..(w - n), i < j
          PROVE  /\ batches'[j].sid = NoSid => batches'[i].sid = NoSid
                 /\ batches'[j].done => batches'[i].done
      <4>1. n + i < n + j /\ n + i \in DOMAIN batches /\ n + j \in DOMAIN batches
        BY <3>1, <1>3, <1>6
      <4> QED
        BY <4>1, <1>1, <1>6 DEF OldestFirst
    <3> QED
      BY <3>1, <1>6 DEF OldestFirst
  <2>6. NothingHandledIsQueued'
    <3>1. ASSUME NEW j \in 1..w, j > n, NEW l \in batches[j].lines
          PROVE  l \notin committed'
      <4>1. ~batches[j].done
        BY <3>1, <1>4, <1>5
      <4>2. l \notin committed
        BY <3>1, <4>1, <1>1, <1>3 DEF NothingHandledIsQueued
      <4>3. \A k \in 1..n : batches[k].sid # NoSid => l \notin batches[k].lines
        BY <3>1, <1>12
      <4> QED
        BY <4>2, <4>3, <1>9
    <3> QED
      BY <3>1, <1>6 DEF NothingHandledIsQueued
  <2> QED
    BY <1>1, <2>1, <2>2, <2>3, <2>4, <2>5, <2>6, SameFile DEF Ground
<1>13. CASE Untracked
  <2>1. \A s \in Sids : tracked'[s] = None
    BY <1>4, <1>13 DEF Untracked, Nothing
  <2>2. \A i \in 1..w : batches[i].sid = NoSid
    BY <1>3, <1>13 DEF Untracked
  <2>3. committed' = committed
    BY <2>2, <1>4, <1>9
  <2>4. Ground'
    BY <2>1, <2>2, <1>1, <1>4, <1>12, <1>13 DEF TrackingTypes, Untracked, Nothing
  <2>5. \A s \in Sids : disk'[s] = -1
    BY <2>1, <1>11, MarksAre
  <2>6. Untracked'
    BY <2>1, <2>2, <2>3, <2>5, <1>2, <1>6, <1>7, <1>8, <1>13 DEF Untracked, Nothing
  <2> QED
    BY <2>4, <2>6 DEF TrackingInOrder
<1>14. ASSUME NEW u \in Sids, Placed(u)
       PROVE  TrackingInOrder'
  <2> DEFINE t == tracked[u]  q == tracked'[u].last  p == Pos(tracked[u])
  <2>1. /\ Only(u) /\ OnDisk(u) /\ Named(u) /\ InPlace(u) /\ BehindPlace(u) /\ OwedReached(u)
    BY <1>14 DEF Placed
  <2>2. /\ t \in Marks /\ t.last \in Nat /\ p \in Nat /\ t.last \in Int /\ p \in Int
        /\ (t.parsed > 0 => p = t.parsed) /\ (t.parsed < 0 => p = t.last) /\ (t.parsed < 0 \/ t.parsed > 0)
    <3>1. t \in Marks /\ t.last >= 0
      BY <1>1, <2>1 DEF TrackingTypes, Only
    <3> QED
      BY <3>1, MarksAre
  <2>3. MarkAfter(t, n, q) /\ q \in Nat /\ q \in Int /\ tracked'[u].parsed = t.parsed /\ tracked'[u] \in Marks
    BY <1>4, <1>14
  <2>4. /\ tracked'[u] # None /\ Pos(tracked'[u]) \in Nat
        /\ (t.parsed > 0 => Pos(tracked'[u]) = t.parsed) /\ (t.parsed < 0 => Pos(tracked'[u]) = q)
    BY <2>3, MarksAre
  <2> HIDE DEF t, q, p
  <2>5. \A i \in 1..w : batches[i].sid # NoSid =>
          /\ batches[i].sid = u /\ t.parsed > 0 /\ batches[i].cp > 0 /\ batches[i].cp <= p /\ batches[i].cp \in Int
          /\ \A l \in batches[i].lines : Within(l, batches[i].cp) /\ l \notin history
          /\ \A l \in committed \union batches[i].lines : ~Ahead(l, batches[i].cp)
          /\ \A j \in 1..w : i < j => batches[i].cp <= batches[j].cp /\ \A l \in batches[j].lines : Ahead(l, batches[i].cp)
    BY <2>1, <1>3, <1>5 DEF BehindPlace, t, p
(* The three ways the marker moves                                         *)
  <2>6. /\ Pos(tracked'[u]) = p
        /\ (q = t.last /\ committed' = committed) \/ (q <= p /\ q > 0)
        /\ t.parsed < 0 => q = t.last
    <3>1. CASE q = t.last /\ \A i \in 1..n : batches[i].sid = NoSid
      <4>1. committed' = committed
        BY <3>1, <1>4, <1>9
      <4> QED
        BY <3>1, <4>1, <2>2, <2>4
    <3>2. CASE t.parsed > 0 /\ q = t.parsed
      BY <3>2, <2>2, <2>4
    <3>3. CASE n \in DOMAIN batches /\ batches[n].sid # NoSid /\ q = batches[n].cp
      <4>1. q <= p /\ q > 0 /\ t.parsed > 0
        BY <3>3, <2>5, <1>3
      <4> QED
        BY <4>1, <2>2, <2>4
    <3> QED
      BY <3>1, <3>2, <3>3, <2>3 DEF MarkAfter
  <2>7. /\ \A l \in committed' : ~Ahead(l, q) /\ ~Ahead(l, p)
        /\ \A i \in 1..w : i > n /\ batches[i].sid # NoSid => \A l \in committed' : ~Ahead(l, batches[i].cp)
    <3>1. ASSUME NEW l \in committed
          PROVE  /\ ~Ahead(l, q) /\ ~Ahead(l, p)
                 /\ \A i \in 1..w : i > n /\ batches[i].sid # NoSid => ~Ahead(l, batches[i].cp)
      <4>1. ~Ahead(l, t.last) /\ ~Ahead(l, p)
        BY <2>1 DEF OwedReached, t, p
      <4>2. ~Ahead(l, q)
        BY <4>1, <2>2, <2>3, <2>5, <1>3 DEF MarkAfter
      <4> QED
        BY <4>1, <4>2, <2>5
    <3>2. ASSUME NEW l, NEW k \in 1..n, batches[k].sid # NoSid, l \in batches[k].lines
          PROVE  /\ ~Ahead(l, q) /\ ~Ahead(l, p)
                 /\ \A i \in 1..w : i > n /\ batches[i].sid # NoSid => ~Ahead(l, batches[i].cp)
      <4>1. k \in 1..w /\ ~Ahead(l, batches[k].cp) /\ batches[k].cp \in Int /\ batches[k].cp <= p
        BY <3>2, <2>5
      <4>2. \A z \in Int : batches[k].cp <= z => ~Ahead(l, z)
        BY <4>1, <1>1, AheadIs
      <4>3. \A i \in 1..w : k < i => batches[k].cp <= batches[i].cp /\ batches[i].cp \in Int
        BY <3>2, <4>1, <2>5, <1>5
      <4>4. ~Ahead(l, p)
        BY <4>1, <4>2, <2>2
      <4>5. ~Ahead(l, q)
        <5>1. CASE \A i \in 1..n : batches[i].sid = NoSid
          BY <5>1, <3>2
        <5>2. CASE t.parsed > 0 /\ q = t.parsed
          BY <5>2, <4>4, <2>2
        <5>3. CASE n \in DOMAIN batches /\ batches[n].sid # NoSid /\ q = batches[n].cp
          <6>1. n = k \/ k < n
            BY <3>2
          <6>2. batches[k].cp <= q
            BY <6>1, <5>3, <4>1, <4>3, <1>3
          <6> QED
            BY <6>2, <4>2, <2>3
        <5> QED
          BY <5>1, <5>2, <5>3, <2>3 DEF MarkAfter
      <4>6. \A i \in 1..w : i > n => k < i
        BY <3>2
      <4> QED
        BY <4>2, <4>3, <4>4, <4>5, <4>6
    <3> QED
      BY <3>1, <3>2, <1>9
  <2>8. Ground'
    <3>1. \A k \in 1..n, j \in 1..w : batches[k].sid # NoSid /\ k < j => batches[k].lines \cap batches[j].lines = {}
      BY <2>5, <1>4
    <3>2. \A s \in Sids : IF tracked'[s] = None THEN seen[s] = NoCache ELSE tracked'[s].last >= 0
      <4>1. \A s \in Sids : s # u => tracked[s] = None /\ tracked'[s] = None
        BY <2>1, <1>4 DEF Only
      <4> QED
        BY <4>1, <2>3, <2>4, <1>1 DEF TrackingTypes, q
    <3> QED
      BY <3>1, <3>2, <1>12
  <2>9. Only(u)' /\ OnDisk(u)'
    <3>1. \A s \in Sids : s # u => tracked'[s] = None /\ disk'[s] = -1
      BY <2>1, <1>4, <1>11, MarksAre DEF Only
    <3> QED
      BY <3>1, <2>4, <1>11, <2>3 DEF Only, OnDisk
  <2>10. Named(u)'
    <3>1. PICK z : z = Pos(tracked'[u])
      OBVIOUS
    <3>2. trMap # NoSid /\ (trMap # u => ~replay /\ t.last <= p)
      BY <2>1 DEF Named, t, p
    <3>3. trMap # u => q <= z
      BY <3>1, <3>2, <2>6, <2>2, <2>3
    <3> QED
      BY <1>2, <1>8, <3>1, <3>2, <3>3 DEF Named, q
  <2>11. InPlace(u)'
    <3>1. QuietAhead(u) => QuietAhead(u)'
      <4>1. PICK z : z = Pos(tracked'[u])
        OBVIOUS
      <4> QED
        BY <1>2, <1>7, <2>6, <4>1 DEF QuietAhead, p
    <3>2. ReadIsNews(u)'
      BY <1>8 DEF ReadIsNews
    <3>3. PrefixIs(seen[u].prefix)' <=> PrefixIs(seen[u].prefix)
      BY <1>1, <1>2 DEF PrefixIs, Size
    <3>4. committed' = committed /\ (\A l \in committed : ~Held(l)) => (\A l \in committed' : ~Held(l)')
      BY <1>7
    <3>5. OnTrack(u) => OnTrack(u)'
      <4> SUFFICES ASSUME OnTrack(u)
                   PROVE  OnTrack(u)'
        OBVIOUS
      <4>1. PICK z : z = Pos(tracked'[u])
        OBVIOUS
      <4>2. z = p
        BY <4>1, <2>6
      <4>c. PICK c : c = seen[u]
        OBVIOUS
      <4>3. /\ PrefixIs(c.prefix) /\ (c.known => c.mpos <= Len(c.prefix))
            /\ c.bsize >= 0 => c.bgen = file.gen /\ c.bsize <= Size
            /\ p <= Size /\ (p = 0 \/ (c.known /\ p <= Len(c.prefix)))
            /\ ~c.known => t.last = 0
            /\ t.last = 0 /\ c.known => c.prefix = file.body /\ c.gen = file.gen /\ c.ctime = file.ctime
            /\ t.last <= p \/ (owed = {} /\ \A l \in committed : ~Held(l))
            /\ QuietAhead(u)
        BY <4>c, <1>2 DEF OnTrack, t, p
      <4>4. ~c.known => q = 0
        <5>1. ~c.known => p = 0 /\ t.parsed < 0
          BY <4>3, <2>2
        <5> QED
          BY <5>1, <4>3, <2>6
      <4>5. q = 0 => t.last = 0
        BY <2>6
      <4>6. q <= p \/ (owed = {} /\ \A l \in committed' : ~Held(l)')
        BY <4>3, <3>4, <2>6, <2>3, <2>2
      <4>7. seen'[u] = c /\ tracked'[u].last = q
        BY <4>c, <1>2 DEF q
      <4>8. z <= Size /\ (z = 0 \/ (c.known /\ z <= Len(c.prefix))) /\ (q <= z \/ (owed = {} /\ \A l \in committed' : ~Held(l)'))
        BY <4>2, <4>3, <4>6
      <4>9. QuietAhead(u)' /\ ReadIsNews(u)' /\ PrefixIs(seen[u].prefix)'
        BY <3>1, <3>2, <3>3, <4>3, <4>c
      <4>10. /\ (c.known => c.mpos <= Len(c.prefix))
             /\ c.bsize >= 0 => c.bgen = file'.gen /\ c.bsize <= Size'
             /\ z <= Size'
             /\ ~c.known => q = 0
             /\ q = 0 /\ c.known => c.prefix = file'.body /\ c.gen = file'.gen /\ c.ctime = file'.ctime
             /\ owed' = owed
        BY <4>3, <4>4, <4>5, <4>8, <1>2, <1>7
      <4> QED
        BY <4>1, <4>7, <4>8, <4>9, <4>10, <1>8 DEF OnTrack
    <3>6. OffTrack(u) => OffTrack(u)'
      <4> SUFFICES ASSUME OffTrack(u)
                   PROVE  OffTrack(u)'
        OBVIOUS
      <4>1. w = 0 /\ n = 0 /\ batches' = <<>>
        <5>1. w = 0 /\ n = 0
          BY <1>3, <1>4, EmptySeq DEF OffTrack
        <5>2. batches' \in Seq(Sent) /\ DOMAIN batches' = {}
          BY <5>1, <1>6
        <5>3. PICK bs \in Seq(Sent) : bs = batches'
          BY <5>2
        <5>4. PICK k \in Nat : k = Len(bs) /\ 1..k = {}
          BY <5>2, <5>3, LenProperties
        <5>5. bs = <<>>
          BY <5>4, EmptySeq
        <5> QED
          BY <5>1, <5>3, <5>5
      <4>2. committed' = committed
        BY <4>1, <1>4, <1>9
      <4>3. q # 0
        <5>1. t.last # 0
          BY DEF OffTrack, t
        <5> QED
          BY <5>1, <2>6
      <4>4. WasShort(u) => WasShort(u)'
        BY <1>2, <1>8, <3>1 DEF WasShort
      <4>5. WillNotice(u)'
        BY <1>8 DEF WillNotice
      <4>6. (\A l \in committed : ~Held(l)) => (\A l \in committed' : ~Held(l)')
        BY <4>2, <3>4
      <4>7. tracked'[u].last # 0
        BY <4>3 DEF q
      <4> QED
        BY <1>2, <1>8, <3>3, <4>1, <4>4, <4>5, <4>6, <4>7 DEF OffTrack
    <3> QED
      BY <1>2, <2>1, <3>5, <3>6 DEF InPlace
  <2>12. BehindPlace(u)'
    <3>1. PICK z : z = Pos(tracked'[u])
      OBVIOUS
    <3>2. ASSUME NEW i \in 1..(w - n), batches'[i].sid # NoSid
          PROVE  /\ batches'[i].sid = u /\ tracked'[u].parsed > 0 /\ batches'[i].cp > 0 /\ batches'[i].cp <= z
                 /\ \A l \in batches'[i].lines : Within(l, batches[i].cp)' /\ l \notin history'
                 /\ \A l \in committed' \union batches'[i].lines : ~Ahead(l, batches[i].cp)'
                 /\ \A j \in 1..(w - n) : i < j => batches'[i].cp <= batches'[j].cp /\ \A l \in batches'[j].lines : Ahead(l, batches[i].cp)'
      <4>1. PICK b, y : b = batches'[i] /\ y = batches'[i].cp
        OBVIOUS
      <4>2. n + i \in 1..w /\ n + i > n /\ b = batches[n + i] /\ b.sid # NoSid /\ y = batches[n + i].cp
        BY <3>2, <4>1, <1>6
      <4>3. /\ b.sid = u /\ t.parsed > 0 /\ y > 0 /\ y <= p
            /\ \A l \in b.lines : Within(l, y) /\ l \notin history
            /\ \A l \in committed' \union b.lines : ~Ahead(l, y)
        BY <4>2, <2>5, <2>7
      <4>4. \A j \in 1..(w - n) : i < j => y <= batches'[j].cp /\ \A l \in batches'[j].lines : Ahead(l, y)
        <5>1. ASSUME NEW j \in 1..(w - n), i < j
              PROVE  y <= batches'[j].cp /\ \A l \in batches'[j].lines : Ahead(l, y)
          <6>1. n + j \in 1..w /\ n + i < n + j /\ batches'[j] = batches[n + j]
            BY <5>1, <1>6
          <6> QED
            BY <6>1, <4>2, <2>5
        <5> QED
          BY <5>1
      <4> QED
        BY <4>1, <4>3, <4>4, <3>1, <2>3, <2>6, <1>2, <1>7
    <3> QED
      BY <3>1, <3>2, <1>6, <1>8 DEF BehindPlace
  <2>13. OwedReached(u)'
    <3>1. PICK y, z : y = tracked'[u].last /\ z = Pos(tracked'[u])
      OBVIOUS
    <3>2. y = q /\ z = p
      BY <3>1, <2>6 DEF q
    <3>3. ASSUME NEW l \in owed \ sent
          PROVE  /\ Ahead(l, q)
                 /\ Ahead(l, p) \/ \E i \in DOMAIN batches' : batches'[i].sid = u /\ l \in batches'[i].lines
      <4>1. /\ Ahead(l, t.last)
            /\ Ahead(l, p) \/ \E i \in 1..w : batches[i].sid = u /\ l \in batches[i].lines
        BY <2>1, <1>3, <1>8 DEF OwedReached, t, p
      <4>2. CASE Ahead(l, p)
        <5>1. q = t.last \/ q <= p
          BY <2>6
        <5>2. Ahead(l, q)
          BY <5>1, <4>1, <4>2, <2>2, <2>3, <1>1, AheadIs
        <5> QED
          BY <5>2, <4>2
      <4>3. ASSUME NEW i \in 1..w, batches[i].sid = u, l \in batches[i].lines
            PROVE  Ahead(l, q) /\ \E k \in DOMAIN batches' : batches'[k].sid = u /\ l \in batches'[k].lines
        <5>1. i > n
          BY <4>3, <3>3, <1>1, <1>3, <1>4 DEF LinesSoFar
        <5>2. i - n \in 1..(w - n) /\ n + (i - n) = i
          BY <5>1, <1>4
        <5>3. batches'[i - n] = batches[i]
          BY <5>2, <1>6
        <5>4. batches[i].sid # NoSid
          BY <4>3, <1>1
        <5>5. Ahead(l, q)
          <6>1. ~(\A j \in DOMAIN batches : j > n => batches[j].sid = NoSid)
            BY <5>1, <5>4, <4>3, <1>3
          <6>2. CASE q = t.last
            BY <6>2, <4>1
          <6>3. CASE n \in DOMAIN batches /\ batches[n].sid # NoSid /\ q = batches[n].cp
            BY <6>3, <5>1, <4>3, <2>5, <1>3
          <6> QED
            BY <6>1, <6>2, <6>3, <2>3 DEF MarkAfter
        <5> QED
          BY <5>2, <5>3, <5>5, <4>3, <1>6
      <4> QED
        BY <4>1, <4>2, <4>3
    <3> QED
      BY <1>2, <1>7, <1>8, <2>7, <3>1, <3>2, <3>3 DEF OwedReached
  <2> QED
    BY <2>8, <2>9, <2>10, <2>11, <2>12, <2>13 DEF Placed, TrackingInOrder
<1> QED
  BY <1>13, <1>14 DEF TrackingInOrder

(* The caches after a start are of the file as it is, marked at the        *)
(* watermark                                                               *)
LEMMA SnapshotIs ==
  ASSUME FileInLines, NEW t \in Marks, NEW o \in Nat, o = t.last
  PROVE  \A c : c = Snapshot(t) =>
         /\ c \in Caches /\ CacheOfOne(c) /\ c.known = TRUE /\ c.prefix = file.body /\ c.mpos = o
         /\ c.bsize = Size /\ c.bgen = file.gen /\ c.gen = file.gen /\ c.ctime = file.ctime
         /\ PrefixIs(c.prefix) /\ Len(c.prefix) = Size
<1>1. PICK e : e = Primed(o, Size, file.gen)
  OBVIOUS
<1>2. Size \in Int /\ file.gen \in Int /\ Size >= 2
  BY LinesOfFile DEF FileInLines, Files
<1>3. /\ e \in Caches /\ CacheOfOne(e) /\ e.known = TRUE /\ e.prefix = file.body /\ e.mpos = o
      /\ e.bsize = Size /\ e.bgen = file.gen /\ e.gen = file.gen /\ e.ctime = file.ctime
      /\ PrefixIs(e.prefix) /\ Len(e.prefix) = Size
  <2>1. /\ e.known = TRUE /\ e.prefix = file.body /\ e.mpos = o
        /\ e.bsize = Size /\ e.bgen = file.gen /\ e.gen = file.gen /\ e.ctime = file.ctime
    BY <1>1 DEF Primed
  <2>2. e \in Caches /\ CacheOfOne(e) /\ PrefixIs(e.prefix) /\ Len(e.prefix) = Size
    <3>1. PICK b, g \in Int : b = Size /\ g = file.gen
      BY <1>2
    <3>2. e = Primed(o, b, g)
      BY <1>1, <3>1
    <3>3. FileInLines
      OBVIOUS
    <3> QED
      BY <3>2, <3>3, PrimedIs
  <2> QED
    BY <2>1, <2>2
<1>4. ASSUME NEW c, c = [e EXCEPT !.mtime = -1]
      PROVE  /\ c \in Caches /\ c.known = e.known /\ c.prefix = e.prefix /\ c.mpos = e.mpos
             /\ c.mval = e.mval /\ c.bsize = e.bsize /\ c.bgen = e.bgen /\ c.gen = e.gen /\ c.ctime = e.ctime
  BY <1>3, <1>4 DEF Caches
<1>5. ASSUME NEW c, c = Snapshot(t)
      PROVE  c = [e EXCEPT !.mtime = -1]
  BY <1>1, <1>5 DEF Snapshot
<1>6. ASSUME NEW c, c = Snapshot(t)
      PROVE  CacheOfOne(c)
  <2>1. /\ c.known = e.known /\ c.prefix = e.prefix /\ c.mpos = e.mpos /\ c.mval = e.mval
    BY <1>4, <1>5, <1>6
  <2> QED
    BY <2>1, <1>3 DEF CacheOfOne
<1> QED
  BY <1>3, <1>4, <1>5, <1>6

(* CrashAndRestart: the watermark on disk is below everything owed and not *)
(* sent                                                                    *)
LEMMA CrashAndRestartInOrder == ASSUME Hazards = {}, TrackingInOrder, CrashAndRestart PROVE TrackingInOrder'
<1>1. /\ FileInLines /\ TrackingTypes /\ CachesOfOne /\ LinesSoFar /\ UNCHANGED file /\ NoSid \notin Sids
  BY ConstantsAre DEF TrackingInOrder, Ground, CrashAndRestart
<1>2. /\ rd' = IdleRead /\ batches' = <<>> /\ UNCHANGED <<file, trMap, replay, owed, sent, committed>>
      /\ \A s \in Sids : disk[s] >= 0 => s = trMap
      /\ unnoticed' = (unnoticed \/ \E s \in Sids : disk[s] > Size)
      /\ history' = history \ UNION {StartFrom(disk[s]) : s \in {d \in Sids : disk[d] >= 0}}
      /\ disk' = [s \in Sids |-> tracked'[s].last]
  BY ConstantsAre DEF CrashAndRestart, Save
<1> DEFINE kept(s) == IF s = trMap /\ disk[s] >= 0 THEN [last |-> disk[s], parsed |-> -1] ELSE None
<1>3. /\ tracked' = [s \in Sids |-> kept(s)]
      /\ seen' = [s \in Sids |-> IF kept(s) = None THEN NoCache ELSE Snapshot(kept(s))]
  BY DEF CrashAndRestart
<1> HIDE DEF kept
<1>4. \A s \in Sids : disk[s] \in Nat \union {-1}
  BY <1>1 DEF TrackingTypes
<1>5. \A s \in Sids : /\ kept(s) \in Marks /\ (disk[s] = -1 => kept(s) = None) /\ kept(s).last = disk[s]
                      /\ disk[s] # -1 => kept(s) # None /\ kept(s) = [last |-> disk[s], parsed |-> -1]
                                         /\ kept(s).parsed = -1 /\ Pos(kept(s)) = disk[s]
  <2>1. ASSUME NEW s \in Sids
        PROVE  /\ kept(s) \in Marks /\ (disk[s] = -1 => kept(s) = None) /\ kept(s).last = disk[s]
               /\ disk[s] # -1 => kept(s) # None /\ kept(s) = [last |-> disk[s], parsed |-> -1]
                                  /\ kept(s).parsed = -1 /\ Pos(kept(s)) = disk[s]
    <3>1. CASE disk[s] = -1
      BY <3>1, MarksAre DEF kept
    <3>2. CASE disk[s] # -1
      <4>1. disk[s] \in Nat /\ disk[s] >= 0 /\ s = trMap
        BY <3>2, <1>2, <1>4
      <4>2. kept(s) = [last |-> disk[s], parsed |-> -1]
        BY <4>1 DEF kept
      <4>3. PICK z \in Nat : z = disk[s]
        BY <4>1
      <4>k. PICK k : k = kept(s)
        OBVIOUS
      <4>4. k = [last |-> z, parsed |-> -1]
        BY <4>2, <4>3, <4>k
      <4>5. k \in Marks /\ k.last = z /\ k.parsed = -1 /\ Pos(k) = z
        BY <4>4, MarksAre
      <4>6. k # None
        BY <4>5, MarksAre
      <4> QED
        BY <3>2, <4>2, <4>3, <4>k, <4>5, <4>6
    <3> QED
      BY <3>1, <3>2
  <2> QED
    BY <2>1
<1>6. \A s \in Sids : /\ seen'[s] \in Caches /\ CacheOfOne(seen'[s])
                      /\ tracked'[s] = kept(s) /\ disk'[s] = disk[s]
                      /\ IF tracked'[s] = None THEN seen'[s] = NoCache ELSE tracked'[s].last >= 0
  <2>1. ASSUME NEW s \in Sids
        PROVE  /\ seen'[s] \in Caches /\ CacheOfOne(seen'[s])
               /\ tracked'[s] = kept(s) /\ disk'[s] = disk[s]
               /\ IF tracked'[s] = None THEN seen'[s] = NoCache ELSE tracked'[s].last >= 0
    <3>1. tracked'[s] = kept(s) /\ disk'[s] = disk[s]
      BY <1>2, <1>3, <1>5
    <3>2. CASE kept(s) = None
      <4>1. seen'[s] = NoCache
        BY <1>3, <3>2
      <4> QED
        BY <3>1, <3>2, <4>1, CachesAre DEF CacheOfOne
    <3>3. CASE kept(s) # None
      <4>1. seen'[s] = Snapshot(kept(s)) /\ disk[s] \in Nat
        BY <1>3, <1>4, <1>5, <3>3
      <4>2. PICK z \in Nat : z = disk[s]
        BY <4>1
      <4>k. PICK k, c : k = kept(s) /\ c = seen'[s]
        OBVIOUS
      <4>3. k \in Marks /\ z = k.last /\ c = Snapshot(k)
        BY <4>1, <4>2, <4>k, <1>5
      <4>4. \A x : x = Snapshot(k) => x \in Caches /\ CacheOfOne(x)
        BY <4>3, <1>1, SnapshotIs
      <4> QED
        BY <3>1, <3>3, <4>2, <4>k, <4>3, <4>4
    <3> QED
      BY <3>2, <3>3
  <2> QED
    BY <2>1
<1>7. /\ \A l, o : (Ahead(l, o)' <=> Ahead(l, o)) /\ (Within(l, o)' <=> Within(l, o))
      /\ \A l : Held(l)' <=> Held(l)
      /\ \A p : PrefixIs(p)' <=> PrefixIs(p)
      /\ \A c : CacheOfOne(c)' <=> CacheOfOne(c)
      /\ Size' = Size
  BY <1>1, SameFile
<1>8. /\ ToSet(rd'.lines) = {} /\ rd'.pc = "idle" /\ rd'.lines = <<>> /\ rd' \in Tries /\ rd'.sealed = FALSE
  BY <1>2, ReadsAre
<1>9. DOMAIN batches' = {} /\ batches' \in Seq(Sent)
  BY <1>2, EmptySeq
<1>10. Ground'
  <2>1. TrackingTypes'
    <3>1. tracked' \in [Sids -> Marks]
      BY <1>3, <1>5
    <3>2. seen' \in [Sids -> Caches]
      BY <1>3, <1>6
    <3>3. disk' \in [Sids -> Nat \union {-1}]
      <4>1. \A s \in Sids : disk'[s] \in Nat \union {-1}
        BY <1>4, <1>6
      <4> QED
        BY <1>2, <4>1
    <3>4. unnoticed' \in BOOLEAN /\ history' \subseteq 1..MaxLines
      BY <1>1, <1>2 DEF TrackingTypes
    <3> QED
      BY <1>1, <1>2, <1>6, <1>8, <1>9, <3>1, <3>2, <3>3, <3>4 DEF TrackingTypes
  <2>2. CachesOfOne'
    BY <1>6, <1>1, CachesKept
  <2>3. LinesSoFar'
    BY <1>1, <1>2, <1>7, <1>8, <1>9 DEF LinesSoFar
  <2>4. ReadIsReal'
    BY <1>8 DEF ReadIsReal
  <2>5. OldestFirst' /\ NothingHandledIsQueued'
    BY <1>9 DEF OldestFirst, NothingHandledIsQueued
  <2> QED
    BY <1>1, <2>1, <2>2, <2>3, <2>4, <2>5, SameFile DEF Ground
<1>11. CASE Untracked
  <2>1. \A s \in Sids : disk[s] = -1
    BY <1>11 DEF Untracked
  <2>2. \A s \in Sids : tracked'[s] = None /\ disk'[s] = -1
    BY <2>1, <1>5, <1>6
  <2>3. Untracked'
    BY <2>2, <1>2, <1>7, <1>8, <1>9, <1>11 DEF Untracked, Nothing
  <2> QED
    BY <2>3, <1>10 DEF TrackingInOrder
<1>12. ASSUME NEW u \in Sids, Placed(u)
       PROVE  TrackingInOrder'
  <2>1. Only(u) /\ OnDisk(u) /\ Named(u) /\ InPlace(u) /\ OwedReached(u)
    BY <1>12 DEF Placed
  <2>2. PICK z : z = tracked[u].last
    OBVIOUS
  <2>3. PICK d \in Sids : disk[d] = z /\ \A e \in Sids : e # d => disk[e] = -1
    BY <2>1, <2>2 DEF OnDisk
  <2>4. z \in Nat /\ z \in Int /\ z >= 0 /\ z # -1
    <3>1. z \in Nat \union {-1} /\ z >= 0
      BY <1>1, <1>4, <2>1, <2>2, <2>3 DEF TrackingTypes, Only
    <3> QED
      BY <3>1
  <2>5. d = trMap
    BY <1>2, <2>3, <2>4
  <2>6. Size \in Nat /\ Size \in Int /\ Size >= 2
    BY <1>1, LinesOfFile
  <2>7. PICK k, c : k = tracked'[d] /\ c = seen'[d]
    OBVIOUS
  <2>8. /\ k \in Marks /\ k # None /\ k.last = z /\ k.parsed = -1 /\ Pos(k) = z
        /\ \A s \in Sids : s # d => tracked'[s] = None /\ disk'[s] = -1
        /\ disk'[d] = z
    BY <1>5, <1>6, <2>3, <2>4, <2>7
  <2>9. /\ c \in Caches /\ CacheOfOne(c) /\ c.known = TRUE /\ c.prefix = file.body /\ c.mpos = z
        /\ c.bsize = Size /\ c.bgen = file.gen /\ c.gen = file.gen /\ c.ctime = file.ctime
        /\ PrefixIs(c.prefix) /\ Len(c.prefix) = Size
    <3>1. c = Snapshot(k)
      BY <1>3, <1>6, <2>7, <2>8
    <3>2. z = k.last
      BY <2>8
    <3>3. \A x : x = Snapshot(k) =>
         /\ x \in Caches /\ CacheOfOne(x) /\ x.known = TRUE /\ x.prefix = file.body /\ x.mpos = z
         /\ x.bsize = Size /\ x.bgen = file.gen /\ x.gen = file.gen /\ x.ctime = file.ctime
         /\ PrefixIs(x.prefix) /\ Len(x.prefix) = Size
      BY <3>2, <2>4, <2>8, <1>1, SnapshotIs
    <3> QED
      BY <3>1, <3>3
  <2>10. Only(d)' /\ OnDisk(d)'
    BY <2>7, <2>8 DEF Only, OnDisk
  <2>11. Named(d)'
    BY <2>5, <1>1, <1>2, <1>8 DEF Named
  <2>12. BehindPlace(d)'
    BY <1>9 DEF BehindPlace
  <2>13. OwedReached(d)'
    <3>1. /\ \A l \in committed : ~Ahead(l, z)
          /\ \A l \in owed \ sent : Ahead(l, z)
      BY <2>1, <2>2 DEF OwedReached
    <3>2. PICK p : p = Pos(tracked'[d])
      OBVIOUS
    <3>3. p = z /\ tracked'[d].last = z
      BY <3>2, <2>7, <2>8
    <3> QED
      BY <1>2, <1>7, <1>8, <3>1, <3>2, <3>3 DEF OwedReached
  <2>14. QuietAhead(d)'
    <3>1. history' = history \ StartFrom(z)
      <4>1. {e \in Sids : disk[e] >= 0} = {d}
        BY <2>3, <2>4
      <4>2. {StartFrom(disk[e]) : e \in {d}} = {StartFrom(z)}
        BY <2>3
      <4> QED
        BY <1>2, <4>1, <4>2
    <3>2. \A l \in history' : ~Ahead(l, z)
      BY <3>1, <1>1, <2>4, StartFromIs
    <3>3. PICK p : p = Pos(tracked'[d])
      OBVIOUS
    <3>4. p = z
      BY <3>3, <2>7, <2>8
    <3> QED
      BY <1>7, <3>2, <3>3, <3>4 DEF QuietAhead
  <2>15. ReadIsNews(d)'
    BY <1>8 DEF ReadIsNews
  <2>16. PICK p : p = Pos(tracked'[d])
    OBVIOUS
  <2>17. p = z
    BY <2>16, <2>7, <2>8
  <2>18. /\ PrefixIs(seen[d].prefix)'
    <3>1. PICK x : x = seen'[d].prefix
      OBVIOUS
    <3>2. x = file.body
      BY <3>1, <2>7, <2>9
    <3>3. PrefixIs(x)'
      BY <3>2, <2>9, <1>7
    <3> QED
      BY <3>1, <3>3
  <2>19. CASE z <= Size
    <3>1. OnTrack(d)'
      BY <1>2, <1>7, <1>8, <2>4, <2>6, <2>7, <2>8, <2>9, <2>14, <2>15, <2>16, <2>17, <2>18, <2>19 DEF OnTrack
    <3> QED
      BY <3>1, <1>10, <2>10, <2>11, <2>12, <2>13 DEF InPlace, Placed, TrackingInOrder
  <2>20. CASE z > Size
    <3>1. unnoticed' = TRUE
      BY <1>1, <1>2, <2>3, <2>20 DEF TrackingTypes
    <3>2. owed = {} /\ \A l \in committed : ~Held(l)
      <4>1. CASE OffTrack(u)
        BY <4>1 DEF OffTrack
      <4>2. CASE OnTrack(u)
        <5>1. PICK y : y = Pos(tracked[u])
          OBVIOUS
        <5>2. y <= Size /\ (z <= y \/ (owed = {} /\ \A l \in committed : ~Held(l)))
          BY <4>2, <5>1, <2>2 DEF OnTrack
        <5>3. y \in Int
          BY <5>1, <1>1, <2>1, <2>2, <2>4, MarksAre DEF TrackingTypes
        <5> QED
          BY <5>2, <5>3, <2>4, <2>6, <2>20
      <4> QED
        BY <4>1, <4>2, <2>1 DEF InPlace
    <3>3. WasShort(d)'
      BY <1>8, <2>4, <2>6, <2>7, <2>8, <2>9, <2>14, <2>20 DEF WasShort
    <3>4. z # 0
      BY <2>4, <2>6, <2>20
    <3>5. OffTrack(d)'
      BY <1>2, <1>7, <1>8, <2>7, <2>8, <2>9, <2>18, <3>1, <3>2, <3>3, <3>4 DEF OffTrack
    <3> QED
      BY <3>1, <3>5, <1>10, <2>10, <2>11, <2>12, <2>13 DEF InPlace, Placed, TrackingInOrder
  <2> QED
    BY <2>19, <2>20, <2>4, <2>6
<1> QED
  BY <1>11, <1>12 DEF TrackingInOrder

----------------------------------------------------------------------------
(* All of it together.                                                      *)

(* The file as it is met first                                             *)
LEMMA FileAtStart ==
  ASSUME NEW n \in {2, 3},
         file = [gen |-> 1, ctime |-> 0, mtime |-> 0, next |-> (n + 1) \div 2 + 1,
                  body |-> [i \in 1..n |-> (i + 1) \div 2]]
  PROVE  FileInLines
<1>1. MaxLines \in Nat /\ MaxLines >= 2 /\ MaxChanges \in Nat
  BY TrackingAssumption
<1>2. PICK b : b = [i \in 1..n |-> (i + 1) \div 2]
  OBVIOUS
<1>3. PICK x : x = (n + 1) \div 2 + 1
  OBVIOUS
<1>4. \A i \in 1..n : b[i] \in 1..MaxLines /\ b[i] \in Int
  <2>1. ASSUME NEW i \in 1..n
        PROVE  (i + 1) \div 2 \in 1..2
    <3>1. i \in 1..3
      OBVIOUS
    <3>2. i = 1 \/ i = 2 \/ i = 3
      BY <3>1
    <3> QED
      BY <3>2
  <2> QED
    BY <1>1, <1>2, <2>1
<1>5. b \in Bodies /\ Len(b) = n /\ DOMAIN b = 1..n
  <2>1. b \in [1..n -> 1..MaxLines] /\ n \in Nat
    BY <1>2, <1>4
  <2>2. b \in Seq(1..MaxLines)
    BY <2>1, SeqDef
  <2>3. DOMAIN b = 1..n /\ n \in Nat
    BY <2>1
  <2> QED
    BY <2>2, <2>3, LenProperties DEF Bodies
<1>6. x \in 1..(MaxLines + 1) /\ x \in Int /\ (n = 2 => x = 2) /\ (n = 3 => x = 3)
  BY <1>1, <1>3
<1>7. b[1] = 1 /\ b[2] = 1 /\ (n = 3 => b[3] = 2)
  BY <1>2
<1>8. Halved(b, x)
  <2>1. \A i \in 1..n : i \in {2 * (b[i] - b[1]) + 1, 2 * (b[i] - b[1]) + 2}
    <3>1. ASSUME NEW i \in 1..n
          PROVE  i = 1 \/ i = 2 \/ (i = 3 /\ n = 3)
      OBVIOUS
    <3>2. 1 \in {2 * (1 - 1) + 1, 2 * (1 - 1) + 2} /\ 2 \in {2 * (1 - 1) + 1, 2 * (1 - 1) + 2}
      OBVIOUS
    <3>3. 3 \in {2 * (2 - 1) + 1, 2 * (2 - 1) + 2}
      OBVIOUS
    <3>4. ASSUME NEW i \in 1..n
          PROVE  i \in {2 * (b[i] - b[1]) + 1, 2 * (b[i] - b[1]) + 2}
      <4>1. CASE i = 1
        BY <4>1, <3>2, <1>7
      <4>2. CASE i = 2
        BY <4>2, <3>2, <1>7
      <4>3. CASE i = 3 /\ n = 3
        BY <4>3, <3>3, <1>7
      <4> QED
        BY <3>1, <3>4, <4>1, <4>2, <4>3
    <3> QED
      BY <3>4
  <2>2. 2 * (x - b[1]) \in {n, n + 1}
    BY <1>6, <1>7
  <2> QED
    BY <1>5, <2>1, <2>2 DEF Halved
<1>9. file = [gen |-> 1, ctime |-> 0, mtime |-> 0, next |-> x, body |-> b]
  BY <1>2, <1>3
<1>10. file \in Files
  <2>1. 1 \in Nat /\ 0 \in 0..MaxChanges
    BY <1>1
  <2>2. PICK g, c : g = 1 /\ c = 0
    OBVIOUS
  <2>3. [gen |-> g, ctime |-> c, mtime |-> c, next |-> x, body |-> b] \in Files
    BY <2>1, <2>2, <1>5, <1>6, FileMade
  <2> QED
    BY <2>2, <2>3, <1>9
<1>11. file.body = b /\ file.next = x
  BY <1>9
<1> QED
  BY <1>8, <1>10, <1>11 DEF FileInLines

(* Nothing is tracked at the start                                         *)
LEMMA InitInOrder == ASSUME Hazards = {}, TrackingInit PROVE TrackingInOrder
<1>1. Sids # {} /\ NoSid \notin Sids
  BY ConstantsAre
<1>2. PICK n \in {2, 3} :
        file = [gen |-> 1, ctime |-> 0, mtime |-> 0, next |-> (n + 1) \div 2 + 1,
                  body |-> [i \in 1..n |-> (i + 1) \div 2]]
  BY ConstantsAre DEF TrackingInit
<1>3. FileInLines
  BY <1>2, FileAtStart
<1>4. /\ trMap \in Sids /\ replay = FALSE /\ tracked = [s \in Sids |-> None] /\ seen = [s \in Sids |-> NoCache]
      /\ rd = IdleRead /\ batches = <<>> /\ disk = [s \in Sids |-> -1]
      /\ owed = {} /\ sent = {} /\ committed = {} /\ history = {} /\ unnoticed = FALSE
  BY <1>1 DEF TrackingInit
<1>5. rd.pc = "idle" /\ rd.lines = <<>> /\ rd \in Tries /\ rd.sealed = FALSE /\ ToSet(rd.lines) = {}
  BY <1>4, ReadsAre
<1>6. batches \in Seq(Sent) /\ DOMAIN batches = {}
  BY <1>4, EmptySeq
<1>7. TrackingTypes
  <2>1. tracked \in [Sids -> Marks] /\ seen \in [Sids -> Caches] /\ disk \in [Sids -> Nat \union {-1}]
    BY <1>4, MarksAre, CachesAre
  <2> QED
    BY <1>4, <1>5, <1>6, <2>1 DEF TrackingTypes
<1>8. CachesOfOne
  BY <1>4, CachesAre DEF CachesOfOne, CacheOfOne
<1>9. LinesSoFar /\ ReadIsReal /\ OldestFirst /\ NothingHandledIsQueued
  BY <1>4, <1>5, <1>6 DEF LinesSoFar, ReadIsReal, OldestFirst, NothingHandledIsQueued
<1>10. Untracked
  BY <1>4, <1>5, <1>6 DEF Untracked, Nothing
<1> QED
  BY <1>3, <1>7, <1>8, <1>9, <1>10 DEF Ground, TrackingInOrder

(* What names the file's readers changes nothing of the place              *)
LEMMA StutterInOrder == ASSUME TrackingInOrder, UNCHANGED trVars PROVE TrackingInOrder'
<1>1. UNCHANGED <<file, trMap, replay, tracked, seen, rd, batches, disk, owed, sent, committed, history, unnoticed, events>>
  BY DEF trVars
<1>2. Ground'
  <2>1. UNCHANGED file
    BY <1>1
  <2>2. TrackingTypes' /\ CachesOfOne' /\ LinesSoFar' /\ ReadIsReal' /\ OldestFirst' /\ NothingHandledIsQueued'
    <3>1. TrackingTypes /\ CachesOfOne /\ LinesSoFar /\ ReadIsReal /\ OldestFirst /\ NothingHandledIsQueued /\ FileInLines
      BY DEF TrackingInOrder, Ground
    <3>2. TrackingTypes' /\ ReadIsReal' /\ OldestFirst' /\ NothingHandledIsQueued'
      BY <1>1, <3>1 DEF TrackingTypes, ReadIsReal, OldestFirst, NothingHandledIsQueued
    <3>3. CachesOfOne'
      BY <1>1, <2>1, <3>1, CachesKept
    <3>4. LinesSoFar'
      BY <1>1, <3>1, <2>1, SameFile DEF LinesSoFar
    <3> QED
      BY <3>2, <3>3, <3>4
  <2>3. FileInLines'
    BY <2>1, SameFile DEF TrackingInOrder, Ground
  <2> QED
    BY <2>2, <2>3 DEF Ground
<1>3. CASE Untracked
  <2>1. Untracked'
    BY <1>1, <1>3, SameFile DEF Untracked, Nothing
  <2> QED
    BY <1>2, <2>1 DEF TrackingInOrder
<1>4. ASSUME NEW u \in Sids, Placed(u)
      PROVE  TrackingInOrder'
  <2>1. /\ Only(u)' <=> Only(u)
        /\ OnDisk(u)' <=> OnDisk(u)
        /\ Named(u)' <=> Named(u)
        /\ InPlace(u)' <=> InPlace(u)
        /\ BehindPlace(u)' <=> BehindPlace(u)
        /\ OwedReached(u)' <=> OwedReached(u)
    BY <1>1 DEF Only, OnDisk, Named, InPlace, OnTrack, OffTrack, WasShort, WillNotice, QuietAhead, ReadIsNews,
                BehindPlace, OwedReached, Ahead, Within, Held, First, PrefixIs, Size, Pos
  <2> QED
    BY <1>2, <1>4, <2>1 DEF Placed, TrackingInOrder
<1> QED
  BY <1>3, <1>4 DEF TrackingInOrder

(* Every step keeps the reader in order                                    *)
LEMMA StepInOrder == ASSUME Hazards = {}, TrackingInOrder, TrackingNext PROVE TrackingInOrder'
<1>1. CASE TrAppend BY <1>1, AppendInOrder
<1>2. CASE TrTouch BY <1>2, TouchInOrder
<1>3. CASE TrReplace BY <1>3, ReplaceInOrder
<1>4. CASE FirstSighting BY <1>4, FirstSightingInOrder
<1>5. CASE ReserveReplay BY <1>5, ReserveReplayInOrder
<1>6. CASE Adopt BY <1>6, AdoptInOrder
<1>7. CASE Observe BY <1>7, ObserveInOrder
<1>8. CASE ReadLines BY <1>8, ReadLinesInOrder
<1>9. CASE RetryRead BY <1>9, RetryReadInOrder
<1>10. CASE KeepRead BY <1>10, KeepReadInOrder
<1>11. CASE Collect BY <1>11, CollectInOrder
<1>12. CASE DeliverBatch BY <1>12, DeliverBatchInOrder
<1>13. CASE CommitMarks BY <1>13, CommitMarksInOrder
<1>14. CASE Refresh BY <1>14, RefreshInOrder
<1>15. CASE AskReplay BY <1>15, AskReplayInOrder
<1>16. CASE Seal BY <1>16, SealInOrder
<1>17. CASE Clear BY <1>17, ClearInOrder
<1>18. CASE Return BY <1>18, ReturnInOrder
<1>19. CASE CrashAndRestart BY <1>19, CrashAndRestartInOrder
<1> QED
  BY <1>1, <1>2, <1>3, <1>4, <1>5, <1>6, <1>7, <1>8, <1>9, <1>10, <1>11, <1>12, <1>13, <1>14, <1>15, <1>16,
     <1>17, <1>18, <1>19 DEF TrackingNext

(* An orderly reader has what TrackingInv asks                             *)
LEMMA InOrderIsEnough == ASSUME TrackingInOrder PROVE TrackingInv
<1>1. /\ FileInLines /\ TrackingTypes /\ NothingHandledIsQueued
  BY DEF TrackingInOrder, Ground
<1>2. \A s \in Sids : tracked[s] \in Marks /\ tracked[s].last \in Nat \union {-1} /\ tracked[s].parsed \in Nat \union {-1}
  BY <1>1, MarksAre DEF TrackingTypes
<1>3. TrackingTypeOK
  <2>1. rd.pc \in Steps
    BY <1>1 DEF TrackingTypes, Tries
  <2>2. rd.pc \notin {"idle", "commit"} => rd.sid \in Sids /\ Mine # None
    <3> SUFFICES ASSUME rd.pc \notin {"idle", "commit"}
                 PROVE  rd.sid \in Sids /\ Mine # None
      OBVIOUS
    <3>1. rd.pc \in {"read", "check", "collected"}
      BY <2>1 DEF Steps
    <3>2. PICK u \in Sids : u = rd.sid /\ Placed(u) /\ Mine = tracked[u]
      BY <3>1, ReaderAt
    <3> QED
      BY <3>2 DEF Placed, Only
  <2>3. \A i \in DOMAIN batches : batches[i].lines \subseteq 1..MaxLines
    BY <1>1, BatchesAre DEF TrackingTypes
  <2>4. \A s \in Sids : tracked[s] # None => tracked[s].last >= 0
    BY <1>1 DEF TrackingTypes
  <2>5. file \in [gen : Nat, ctime : 0..MaxChanges, mtime : 0..MaxChanges,
                 next : 1..MaxLines + 1, body : Seq(1..MaxLines)]
    BY <1>1 DEF FileInLines, Files, Bodies
  <2>6. \A s \in Sids : disk[s] \in Nat \cup {-1}
    BY <1>1 DEF TrackingTypes
  <2>7. trMap \in Sids \cup {NoSid} /\ replay \in BOOLEAN
    BY <1>1 DEF TrackingTypes
  <2> QED
    BY <1>2, <2>1, <2>2, <2>3, <2>4, <2>5, <2>6, <2>7 DEF TrackingTypeOK, Steps
<1>4. CASE Untracked
  <2>1. OwedLinesAhead /\ HistoryStaysQuiet
    BY <1>4 DEF Untracked, OwedLinesAhead, HistoryStaysQuiet
  <2> QED
    BY <1>1, <1>3, <2>1 DEF TrackingInv
<1>5. ASSUME NEW u \in Sids, Placed(u)
      PROVE  TrackingInv
  <2>1. Only(u) /\ OnDisk(u) /\ BehindPlace(u) /\ OwedReached(u)
    BY <1>5 DEF Placed
  <2>2. HistoryStaysQuiet
    BY <2>1 DEF BehindPlace, HistoryStaysQuiet
  <2>3. PICK o, p : o = tracked[u].last /\ p = Pos(tracked[u])
    OBVIOUS
  <2>4. o \in Nat /\ p \in Nat /\ o >= 0
    <3>1. tracked[u] \in Marks /\ tracked[u].last >= 0
      BY <1>1, <1>2, <2>1 DEF TrackingTypes, Only
    <3> QED
      BY <3>1, <2>3, MarksAre
  <2>5. OwedLinesAhead
    <3>1. ASSUME NEW l \in owed \ sent
          PROVE  /\ Reads(u)
                 /\ \/ \E i \in DOMAIN batches : l \in batches[i].lines
                    \/ l \in ToSet(rd.lines)
                    \/ l \in StartFrom(p)
                 /\ l \in StartFrom(o)
                 /\ \E d \in Sids : disk[d] >= 0 /\ l \in StartFrom(disk[d])
      <4>1. /\ Ahead(l, o)
            /\ Ahead(l, p) \/ l \in ToSet(rd.lines) \/ \E i \in DOMAIN batches : l \in batches[i].lines
        BY <2>1, <2>3 DEF OwedReached
      <4>2. l \in StartFrom(o) /\ (Ahead(l, p) => l \in StartFrom(p))
        BY <4>1, <1>1, <2>4, StartFromIs
      <4>3. PICK d \in Sids : disk[d] = o
        BY <2>1, <2>3 DEF OnDisk
      <4>4. Reads(u)
        BY <2>1, OthersAre
      <4> QED
        BY <4>1, <4>2, <4>3, <4>4, <2>4
    <3> QED
      BY <3>1, <2>3 DEF OwedLinesAhead
  <2> QED
    BY <1>1, <1>3, <2>2, <2>5 DEF TrackingInv
<1> QED
  BY <1>4, <1>5 DEF TrackingInOrder

(* At most one session tracks the file; its caches are of what is in the   *)
(* file, or the file was replaced, nothing is owed or on its way, and the  *)
(* next checks will find out; and the watermark on disk is the one in      *)
(* memory (transcript_reader.py, _prepare_observed_generation and          *)
(* _read_session_entries, with none of the weaknesses Hazards lists).      *)
THEOREM TrackingStaysInOrder ==
  ASSUME Hazards = {}
  PROVE  TrackingSpec => []TrackingInOrder
<1>1. TrackingInit => TrackingInOrder
  BY InitInOrder
<1>2. TrackingInOrder /\ [TrackingNext]_trVars => TrackingInOrder'
  BY StepInOrder, StutterInOrder
<1> QED
  BY <1>1, <1>2, PTL DEF TrackingSpec

(* No line that live delivery owes is skipped, whatever is appended while  *)
(* it is read, whatever id the session gets and wherever the process dies; *)
(* nothing a watermark has passed is queued again, and old content is      *)
(* never told as news (transcript_reader.py, with the watermark it moves   *)
(* in monitor_state.py).                                                   *)
THEOREM TrackingKept ==
  ASSUME Hazards = {}
  PROVE  TrackingSpec => []TrackingInv
<1>1. TrackingInOrder => TrackingInv
  BY InOrderIsEnough
<1> QED
  BY <1>1, TrackingStaysInOrder, PTL

============================================================================
