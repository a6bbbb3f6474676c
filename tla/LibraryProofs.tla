--------------------------- MODULE LibraryProofs ---------------------------
(***************************************************************************)
(* The difficulty cache under the library's scans, saves, rebuilds and     *)
(* crashes, and then the library's own index and notes: that a record      *)
(* leads to its chart's notes whatever fails (Sound, below).               *)
(***************************************************************************)
EXTENDS Library, DataLemmas, SequenceTheorems

(* What a save has copied is what is in memory, unless something was       *)
(* stored or forgotten since and dirty says so.                            *)
CopyIsCurrent == \A c \in copied : dirty \/ c = entries

NotSaving == saver = NoSaver => copied = {}

SaveSound == NotSaving /\ CopyIsCurrent /\ NothingUnsaved

(* A step of the cache alone.                                              *)
CacheStep ==
  \/ \E new \in SUBSET Keys : Store(new)
  \/ ClearCache
  \/ \E s \in Savers : BeginSave(s) \/ CopyEntries(s) \/ WriteCopy(s) \/ WriteCopyFails(s)
  \/ LoadCache
  \/ UNCHANGED cacheVars

(* Each operation of the cache keeps SaveSound.                            *)
LEMMA CacheStepSound == SaveSound /\ CacheStep => SaveSound'
<1> SUFFICES ASSUME SaveSound, CacheStep PROVE SaveSound'
  OBVIOUS
<1> USE SaversAssumption DEF SaveSound, NotSaving, CopyIsCurrent, NothingUnsaved
<1>1. CASE \E new \in SUBSET Keys : Store(new)
  BY <1>1 DEF Store
<1>2. CASE ClearCache
  BY <1>2 DEF ClearCache
<1>3. CASE \E s \in Savers : BeginSave(s)
  BY <1>3 DEF BeginSave, SaveNeeded
<1>4. CASE \E s \in Savers : CopyEntries(s)
  BY <1>4 DEF CopyEntries
<1>5. CASE \E s \in Savers : WriteCopy(s)
  BY <1>5 DEF WriteCopy, DirtyAfterWrite
<1>6. CASE \E s \in Savers : WriteCopyFails(s)
  BY <1>6 DEF WriteCopyFails
<1>7. CASE LoadCache
  BY <1>7 DEF LoadCache
<1>8. CASE UNCHANGED cacheVars
  BY <1>8 DEF cacheVars
<1>9. QED
  BY <1>1, <1>2, <1>3, <1>4, <1>5, <1>6, <1>7, <1>8 DEF CacheStep

(* A step of the library is, for the cache, one of its operations.         *)
LEMMA LibraryStepsTheCache == [Next]_vars => CacheStep
<1> SUFFICES ASSUME [Next]_vars PROVE CacheStep
  OBVIOUS
<1>1. ASSUME NEW f \in Files, Edit(f) PROVE UNCHANGED cacheVars
  BY <1>1, Zenon DEF Edit
<1>2. CASE Load \/ Rebuild \/ ScanFolder
  <2>1. UNCHANGED cacheVars
    BY <1>2, Zenon DEF Load, Rebuild, ScanFolder
  <2>2. QED
    BY <2>1 DEF CacheStep
<1>3. CASE StoreDifficulty
  <2>1. PICK f \in Files, v \in Versions : Store({DifficultyKey[<<f, v>>]})
    BY <1>3, Zenon DEF StoreDifficulty
  <2>2. {DifficultyKey[<<f, v>>]} \in SUBSET Keys
    BY <2>1, LibraryAssumption
  <2>3. QED
    BY <2>1, <2>2, Zenon DEF CacheStep
<1>4. CASE Rewrite
  <2>1. CASE Prepare \/ PrepareFails
    BY <2>1, Zenon DEF Prepare, PrepareFails, CacheStep
  <2>2. CASE AppendNotes \/ AppendFails
    BY <2>2, Zenon DEF AppendNotes, AppendFails, CacheStep
  <2>3. CASE WriteIndex \/ WriteIndexFails
    BY <2>3, Zenon DEF WriteIndex, WriteIndexFails, CacheStep
  <2>4. CASE RenameNotes \/ RenameNotesFails
    BY <2>4, Zenon DEF RenameNotes, RenameNotesFails, CacheStep
  <2>5. CASE RenameIndex \/ RenameIndexFails
    BY <2>5, Zenon DEF RenameIndex, RenameIndexFails, CacheStep
  <2>6. QED
    BY <1>4, <2>1, <2>2, <2>3, <2>4, <2>5, Zenon DEF Rewrite
<1>5. ASSUME NEW s \in Savers, SaveStep(s) PROVE CacheStep
  BY <1>5, Zenon DEF SaveStep, CacheStep
<1>6. CASE NothingToSave
  BY <1>6, Zenon DEF NothingToSave, CacheStep
<1>7. CASE ForgetDifficulties
  BY <1>7, Zenon DEF ForgetDifficulties, CacheStep
<1>8. CASE Crash
  BY <1>8, Zenon DEF Crash, CacheStep
<1>9. CASE UNCHANGED vars
  BY <1>9, Zenon DEF vars, CacheStep
<1>10. QED
  <2>1. CASE \E f \in Files : Edit(f)
    BY <1>1, <2>1, Zenon DEF CacheStep
  <2>2. QED
    BY <2>1, <1>2, <1>3, <1>4, <1>5, <1>6, <1>7, <1>8, <1>9, Zenon DEF Next

(* Whatever is stored or forgotten while a save runs, and however saves    *)
(* fail or the game dies, a cache that is clean and not being saved is     *)
(* what the file holds (DifficultyCache.cpp:147).                          *)
THEOREM SavesForgetNothing == Spec => []NothingUnsaved
<1>1. Init => SaveSound
  <2>1. Init => CacheInit
    BY Zenon DEF Init
  <2>2. CacheInit => SaveSound
    BY DEF CacheInit, SaveSound, NotSaving, CopyIsCurrent, NothingUnsaved
  <2>3. QED
    BY <2>1, <2>2
<1>2. SaveSound => NothingUnsaved
  BY DEF SaveSound
<1>3. SaveSound /\ [Next]_vars => SaveSound'
  BY CacheStepSound, LibraryStepsTheCache, Zenon
<1>4. QED
  BY <1>1, <1>2, <1>3, PTL DEF Spec

(* What the library does to the difficulty cache is a run of the cache:    *)
(* the scans, rewrites and reloads around it touch none of its state but   *)
(* through its operations.                                                 *)
THEOREM LibraryRunsTheCache == Spec => CacheInit /\ [][CacheStep]_cacheVars
<1>1. Init => CacheInit
  BY Zenon DEF Init
<1>2. [Next]_vars => [CacheStep]_cacheVars
  BY LibraryStepsTheCache, Zenon
<1>3. QED
  BY <1>1, <1>2, PTL DEF Spec

-----------------------------------------------------------------------------
(* Parts of sequences and blobs laid out one behind the other.             *)

(* A part of a sequence is a sequence b exactly if it has its members.     *)
LEMMA PartIs ==
  ASSUME NEW C, NEW s \in Seq(C), NEW b \in Seq(C), NEW o \in Nat, o + Len(b) <= Len(s)
  PROVE  SubSeq(s, o + 1, o + Len(b)) = b <=> \A i \in 1 .. Len(b) : s[o + i] = b[i]
<1> DEFINE t == SubSeq(s, o + 1, o + Len(b))
<1>1. Len(b) \in Nat /\ Len(s) \in Nat
  BY LenProperties
<1>2. \A i \in o + 1 .. o + Len(b) : s[i] \in C
  BY <1>1, ElementOfSeq
<1>3. /\ t \in Seq(C) /\ Len(t) = Len(b)
      /\ \A i \in 1 .. Len(b) : t[i] = s[o + i]
  <2> DEFINE n == Len(b)
  <2>1. n \in Nat
    BY <1>1
  <2>2. \A i \in o + 1 .. o + n : s[i] \in C
    BY <1>2
  <2> HIDE DEF n
  <2>3. /\ SubSeq(s, o + 1, o + n) \in Seq(C)
        /\ Len(SubSeq(s, o + 1, o + n)) = IF o + 1 <= o + n THEN (o + n) - (o + 1) + 1 ELSE 0
        /\ \A i \in 1 .. (o + n) - (o + 1) + 1 : SubSeq(s, o + 1, o + n)[i] = s[(o + 1) + i - 1]
    BY <2>1, <2>2, SubSeqProperties
  <2> DEFINE u == SubSeq(s, o + 1, o + n)
  <2>4. (o + n) - (o + 1) + 1 = n /\ \A i \in 1 .. n : (o + 1) + i - 1 = o + i
    BY <2>1
  <2>5. u \in Seq(C) /\ Len(u) = n /\ \A i \in 1 .. n : u[i] = s[o + i]
    <3> HIDE DEF u
    <3>1. u \in Seq(C) /\ Len(u) = (IF o + 1 <= o + n THEN (o + n) - (o + 1) + 1 ELSE 0)
      BY <2>3 DEF u
    <3>2. \A i \in 1 .. (o + n) - (o + 1) + 1 : u[i] = s[(o + 1) + i - 1]
      BY <2>3 DEF u
    <3>3. QED
      BY <2>1, <2>4, <3>1, <3>2
  <2>6. u = t
    BY Zenon DEF n
  <2> HIDE DEF u, t
  <2>7. QED
    BY <2>5, <2>6 DEF n
<1> HIDE DEF t
<1>4. (\A i \in 1 .. Len(b) : s[o + i] = b[i]) => t = b
  BY <1>3, SeqEqual
<1>5. QED
  BY <1>3, <1>4 DEF t

(* A part is a sequence, and stays what it is when something is appended.  *)
LEMMA PartStays ==
  ASSUME NEW C, NEW s \in Seq(C), NEW t \in Seq(C), NEW o \in Nat, NEW n \in Nat,
         o + n <= Len(s)
  PROVE  /\ SubSeq(s, o + 1, o + n) \in Seq(C)
         /\ o + n <= Len(s \o t)
         /\ SubSeq(s \o t, o + 1, o + n) = SubSeq(s, o + 1, o + n)
<1> DEFINE b == SubSeq(s, o + 1, o + n)
<1>1. Len(s) \in Nat /\ Len(t) \in Nat
  BY LenProperties
<1>2. \A i \in o + 1 .. o + n : s[i] \in C
  BY <1>1, ElementOfSeq
<1>3. /\ b \in Seq(C) /\ Len(b) = n /\ \A i \in 1 .. n : b[i] = s[o + i]
  <2>1. /\ b \in Seq(C)
        /\ Len(b) = IF o + 1 <= o + n THEN (o + n) - (o + 1) + 1 ELSE 0
        /\ \A i \in 1 .. (o + n) - (o + 1) + 1 : b[i] = s[(o + 1) + i - 1]
    BY <1>1, <1>2, SubSeqProperties
  <2>2. (o + n) - (o + 1) + 1 = n /\ \A i \in 1 .. n : (o + 1) + i - 1 = o + i
    OBVIOUS
  <2>3. QED
    BY <2>1, <2>2
<1>4. /\ s \o t \in Seq(C) /\ Len(s \o t) = Len(s) + Len(t)
      /\ \A i \in 1 .. Len(s) : (s \o t)[i] = s[i]
  BY <1>1, ConcatProperties
<1> HIDE DEF b
<1>5. \A i \in 1 .. n : (s \o t)[o + i] = b[i]
  BY <1>1, <1>3, <1>4
<1> DEFINE u == s \o t
<1>6. u \in Seq(C) /\ o + Len(b) <= Len(u)
  BY <1>1, <1>3, <1>4
<1>7. \A i \in 1 .. Len(b) : u[o + i] = b[i]
  BY <1>3, <1>5
<1> HIDE DEF u
<1>8. SubSeq(u, o + 1, o + Len(b)) = b
  BY <1>3, <1>6, <1>7, PartIs
<1>9. QED
  BY <1>3, <1>6, <1>8 DEF b, u

(* What is appended begins where the sequence ended.                       *)
LEMMA PartAppended ==
  ASSUME NEW C, NEW s \in Seq(C), NEW t \in Seq(C), NEW o \in Nat, NEW n \in Nat,
         o + n <= Len(t)
  PROVE  /\ Len(s) + o + n <= Len(s \o t)
         /\ SubSeq(s \o t, Len(s) + o + 1, Len(s) + o + n) = SubSeq(t, o + 1, o + n)
<1> DEFINE b == SubSeq(t, o + 1, o + n)
           u == s \o t
<1>1. Len(s) \in Nat /\ Len(t) \in Nat
  BY LenProperties
<1>2. b \in Seq(C)
  BY PartStays
<1>3. Len(b) = n /\ \A i \in 1 .. n : b[i] = t[o + i]
  <2>1. \A i \in o + 1 .. o + n : t[i] \in C
    BY <1>1, ElementOfSeq
  <2>2. /\ Len(b) = IF o + 1 <= o + n THEN (o + n) - (o + 1) + 1 ELSE 0
        /\ \A i \in 1 .. (o + n) - (o + 1) + 1 : b[i] = t[(o + 1) + i - 1]
    BY <1>1, <2>1, SubSeqProperties
  <2>3. (o + n) - (o + 1) + 1 = n /\ \A i \in 1 .. n : (o + 1) + i - 1 = o + i
    OBVIOUS
  <2>4. QED
    BY <2>2, <2>3
<1>4. /\ u \in Seq(C) /\ Len(u) = Len(s) + Len(t)
      /\ \A i \in 1 .. Len(s) + Len(t) : u[i] = IF i <= Len(s) THEN s[i] ELSE t[i - Len(s)]
  BY ConcatProperties
<1> HIDE DEF b, u
<1>5. \A i \in 1 .. n : u[(Len(s) + o) + i] = b[i]
  <2> TAKE i \in 1 .. n
  <2>1. /\ (Len(s) + o) + i \in 1 .. Len(s) + Len(t) /\ ~((Len(s) + o) + i <= Len(s))
        /\ ((Len(s) + o) + i) - Len(s) = o + i
    BY <1>1
  <2>2. QED
    BY <1>3, <1>4, <2>1
<1> DEFINE k == Len(s) + o
<1>6. k \in Nat /\ k + Len(b) <= Len(u) /\ \A i \in 1 .. Len(b) : u[k + i] = b[i]
  BY <1>1, <1>3, <1>4, <1>5
<1> HIDE DEF k
<1>7. SubSeq(u, k + 1, k + Len(b)) = b
  BY <1>2, <1>4, <1>6, PartIs
<1>8. QED
  BY <1>3, <1>6, <1>7 DEF k, b, u

(* Flattening appends one sequence after the other.                        *)
Appends(p, b, n) == p[0] = <<>> /\ \A i \in 1 .. n : p[i] = p[i - 1] \o b[i]

(* There is one way to append sequence after sequence, and one result.     *)
LEMMA AppendsExists ==
  ASSUME NEW C, NEW n \in Nat, NEW b \in [1 .. n -> Seq(C)]
  PROVE  \E p \in [0 .. n -> Seq(C)] : Appends(p, b, n)
<1> DEFINE Has(m) == \E p \in [0 .. m -> Seq(C)] : Appends(p, b, m)
           T == {m \in Nat : m <= n => Has(m)}
<1>1. 0 \in T
  <2> DEFINE p == [i \in 0 .. 0 |-> <<>>]
  <2>1. p \in [0 .. 0 -> Seq(C)] /\ p[0] = <<>>
    <3>1. <<>> \in Seq(C)
      BY EmptySeq
    <3>2. QED
      BY <3>1
  <2>2. Appends(p, b, 0)
    BY <2>1 DEF Appends
  <2>3. Has(0)
    BY <2>1, <2>2
  <2>4. QED
    BY <2>3
<1>2. ASSUME NEW m \in Nat, m \in T PROVE m + 1 \in T
  <2>1. SUFFICES ASSUME m + 1 <= n PROVE Has(m + 1)
    OBVIOUS
  <2>2. PICK p \in [0 .. m -> Seq(C)] : Appends(p, b, m)
    <3>1. Has(m)
      BY <1>2, <2>1
    <3>2. QED
      BY <3>1
  <2> DEFINE q == [i \in 0 .. m + 1 |-> IF i = m + 1 THEN p[m] \o b[m + 1] ELSE p[i]]
  <2>3. p[m] \o b[m + 1] \in Seq(C)
    <3>1. p[m] \in Seq(C) /\ b[m + 1] \in Seq(C)
      BY <2>1
    <3>2. QED
      BY <3>1, ConcatProperties
  <2>4. q \in [0 .. m + 1 -> Seq(C)]
    <3>1. \A i \in 0 .. m + 1 : (IF i = m + 1 THEN p[m] \o b[m + 1] ELSE p[i]) \in Seq(C)
      BY <2>3
    <3>2. QED
      BY <3>1, Zenon
  <2>5. /\ q[m + 1] = p[m] \o b[m + 1]
        /\ \A i \in 0 .. m : q[i] = p[i]
    OBVIOUS
  <2> HIDE DEF q
  <2>6. Appends(q, b, m + 1)
    <3>1. q[0] = <<>>
      BY <2>2, <2>5 DEF Appends
    <3>2. ASSUME NEW i \in 1 .. m + 1 PROVE q[i] = q[i - 1] \o b[i]
      <4>1. CASE i = m + 1
        <5>1. i - 1 = m /\ q[m] = p[m]
          BY <2>5, <4>1
        <5>2. QED
          BY <2>5, <4>1, <5>1
      <4>2. CASE i # m + 1
        <5>1. i \in 1 .. m /\ i \in 0 .. m /\ i - 1 \in 0 .. m
          BY <4>2
        <5>2. p[i] = p[i - 1] \o b[i]
          BY <2>2, <5>1 DEF Appends
        <5>3. QED
          BY <2>5, <5>1, <5>2
      <4>3. QED
        BY <4>1, <4>2
    <3>3. QED
      BY <3>1, <3>2 DEF Appends
  <2>7. QED
    BY <2>4, <2>6
<1>3. \A m \in Nat : m \in T
  <2> HIDE DEF T
  <2> QED
    BY <1>1, <1>2, NatInduct
<1>4. Has(n)
  <2> HIDE DEF Has
  <2> QED
    BY <1>3
<1>5. QED
  BY <1>4

(* The appending ends in the sequence that FlattenSeq makes.               *)
LEMMA FlattenAppends ==
  ASSUME NEW C, NEW n \in Nat, NEW b \in [1 .. n -> Seq(C)],
         NEW p \in [0 .. n -> Seq(C)], Appends(p, b, n)
  PROVE  FlattenSeq(b) = p[n]
<1>1. Len(b) = n /\ DOMAIN b = 1 .. n
  <2>1. b \in Seq(Seq(C))
    BY SeqDef
  <2>2. Len(b) \in Nat /\ DOMAIN b = 1 .. Len(b) /\ DOMAIN b = 1 .. n
    BY <2>1, LenProperties
  <2>3. QED
    BY <2>2
<1>2. CASE n = 0
  <2>1. FlattenSeq(b) = b
    BY <1>1, <1>2, Zenon DEF FlattenSeq
  <2>2. b = <<>>
    BY <1>2
  <2>3. QED
    BY <1>2, <2>1, <2>2 DEF Appends
<1>3. CASE n # 0
  <2> DEFINE Eq(f) == f = [i \in 1 .. Len(b) |-> IF i = 1 THEN b[i] ELSE f[i - 1] \o b[i]]
             h == CHOOSE f : Eq(f)
             g == [i \in 1 .. n |-> p[i]]
             T == {m \in Nat : m \in 1 .. n => h[m] = p[m]}
  <2>1. FlattenSeq(b) = h[n]
    <3>1. Len(b) # 0
      BY <1>1, <1>3
    <3>2. FlattenSeq(b) = h[Len(b)]
      BY <3>1, Zenon DEF FlattenSeq
    <3> HIDE DEF h
    <3>3. QED
      BY <1>1, <3>2
  <2>2. p[1] = b[1]
    <3>1. 1 \in 1 .. n /\ p[0] = <<>> /\ b[1] \in Seq(C)
      BY <1>3 DEF Appends
    <3>2. p[1] = p[0] \o b[1]
      <4>1. p[1] = p[1 - 1] \o b[1]
        BY <3>1, Zenon DEF Appends
      <4>2. 1 - 1 = 0
        OBVIOUS
      <4>3. QED
        BY <4>1, <4>2
    <3>3. QED
      BY <3>1, <3>2, ConcatEmptySeq
  <2>3. Eq(g)
    <3>1. ASSUME NEW i \in 1 .. n PROVE g[i] = IF i = 1 THEN b[i] ELSE g[i - 1] \o b[i]
      <4>1. CASE i = 1
        BY <2>2, <4>1
      <4>2. CASE i # 1
        <5>1. i - 1 \in 1 .. n
          BY <4>2
        <5>2. QED
          BY <4>2, <5>1 DEF Appends
      <4>3. QED
        BY <4>1, <4>2
    <3>2. g = [i \in 1 .. n |-> IF i = 1 THEN b[i] ELSE g[i - 1] \o b[i]]
      BY <3>1, Zenon
    <3> HIDE DEF g
    <3>3. QED
      BY <1>1, <3>2
  <2>4. Eq(h)
    <3> HIDE DEF Eq, g
    <3> QED
      BY <2>3
  <2> HIDE DEF h
  <2>5. \A i \in 1 .. n : h[i] = IF i = 1 THEN b[i] ELSE h[i - 1] \o b[i]
    <3>1. h = [i \in 1 .. n |-> IF i = 1 THEN b[i] ELSE h[i - 1] \o b[i]]
      BY <1>1, <2>4
    <3>2. QED
      BY <3>1
  <2>6. 0 \in T
    OBVIOUS
  <2>7. ASSUME NEW m \in Nat, m \in T PROVE m + 1 \in T
    <3>1. SUFFICES ASSUME m + 1 \in 1 .. n PROVE h[m + 1] = p[m + 1]
      OBVIOUS
    <3>2. CASE m = 0
      BY <2>2, <2>5, <3>1, <3>2
    <3>3. CASE m # 0
      <4>1. m \in 1 .. n /\ (m + 1) - 1 = m /\ m + 1 # 1
        BY <3>1, <3>3
      <4>2. h[m] = p[m]
        BY <2>7, <4>1
      <4>3. p[m + 1] = p[m] \o b[m + 1]
        BY <3>1, <4>1 DEF Appends
      <4>4. h[m + 1] = h[m] \o b[m + 1]
        BY <2>5, <3>1, <4>1
      <4>5. QED
        BY <4>2, <4>3, <4>4
    <3>4. QED
      BY <3>2, <3>3
  <2>8. \A m \in Nat : m \in T
    <3> HIDE DEF T
    <3> QED
      BY <2>6, <2>7, NatInduct
  <2>9. h[n] = p[n]
    BY <1>3, <2>8
  <2>10. QED
    BY <2>1, <2>9
<1>4. QED
  BY <1>2, <1>3

(* A sequence stands at an offset of another.                              *)
Placed(o, b, s) ==
  o \in Nat /\ o + Len(b) <= Len(s) /\ SubSeq(s, o + 1, o + Len(b)) = b

(* What is placed stays there when something is appended; what is appended *)
(* is placed at the end, and what was placed in it, behind that.           *)
LEMMA PlacedInConcat ==
  ASSUME NEW C, NEW s \in Seq(C), NEW t \in Seq(C), NEW o, NEW b \in Seq(C)
  PROVE  /\ Placed(o, b, s) => Placed(o, b, s \o t)
         /\ Placed(Len(s), t, s \o t)
         /\ Placed(o, b, t) => Placed(Len(s) + o, b, s \o t)
<1> DEFINE n == Len(b)
           k == Len(s)
           u == s \o t
<1>1. n \in Nat /\ k \in Nat /\ Len(t) \in Nat
  BY LenProperties
<1>2. ASSUME Placed(o, b, s) PROVE Placed(o, b, u)
  <2>1. o \in Nat /\ o + n <= Len(s) /\ SubSeq(s, o + 1, o + n) = b
    BY <1>2 DEF Placed
  <2> HIDE DEF n
  <2>2. o + n <= Len(u) /\ SubSeq(u, o + 1, o + n) = SubSeq(s, o + 1, o + n)
    BY <1>1, <2>1, PartStays
  <2> HIDE DEF u
  <2>3. QED
    BY <2>1, <2>2 DEF Placed, n
<1>3. ASSUME Placed(o, b, t) PROVE Placed(k + o, b, u)
  <2>1. o \in Nat /\ o + n <= Len(t) /\ SubSeq(t, o + 1, o + n) = b
    BY <1>3 DEF Placed
  <2> HIDE DEF n
  <2>2. Len(s) + o + n <= Len(u) /\ SubSeq(u, Len(s) + o + 1, Len(s) + o + n) = SubSeq(t, o + 1, o + n)
    BY <1>1, <2>1, PartAppended
  <2>3. k + o \in Nat /\ Len(s) = k
    BY <1>1, <2>1
  <2> HIDE DEF u, k
  <2>4. QED
    BY <2>1, <2>2, <2>3 DEF Placed, n
<1>4. Placed(k, t, u)
  <2> DEFINE m == Len(t)
  <2>1. m \in Nat /\ 0 + m <= Len(t)
    BY <1>1
  <2> HIDE DEF m
  <2>2. /\ Len(s) + 0 + m <= Len(u)
        /\ SubSeq(u, Len(s) + 0 + 1, Len(s) + 0 + m) = SubSeq(t, 0 + 1, 0 + m)
    BY <2>1, PartAppended
  <2>3. Len(s) + 0 = k
    BY <1>1
  <2>4. 0 + 1 = 1 /\ 0 + m = m
    BY <2>1
  <2>5. SubSeq(t, 0 + 1, 0 + m) = t
    <3>1. SubSeq(t, 1, Len(t)) = t
      BY SubSeqFull
    <3>2. QED
      BY <2>4, <3>1 DEF m
  <2> HIDE DEF u, k
  <2>6. QED
    BY <1>1, <2>2, <2>3, <2>5 DEF Placed, m
<1>5. QED
  BY <1>2, <1>3, <1>4 DEF u, k

(* The blobs of S, in order and without gaps.                              *)
Below(f, S) == {g \in S : g < f}

Laid(S, blob) == FlattenSeq([i \in 1 .. Cardinality(S) |-> blob[Ascending(S)[i]]])

(* Each blob is at the offset that the sizes of those before it add up to. *)
LEMMA LaidOut ==
  ASSUME NEW C, NEW S, S \subseteq Int, IsFiniteSet(S), NEW blob \in [S -> Seq(C)],
         NEW v, \A f \in S : v[f] = Len(blob[f])
  PROVE  /\ Laid(S, blob) \in Seq(C)
         /\ Len(Laid(S, blob)) = SumOver(v, S)
         /\ \A f \in S : Placed(SumOver(v, Below(f, S)), blob[f], Laid(S, blob))
<1> DEFINE n == Cardinality(S)
           A == Ascending(S)
           b == [i \in 1 .. n |-> blob[A[i]]]
           First(m) == {g \in S : Rank(g, S) < m}
<1>1. /\ n \in Nat
      /\ A \in [1 .. n -> S]
      /\ \A i \in 1 .. n : Rank(A[i], S) = i - 1
      /\ \A f \in S : Rank(f, S) + 1 \in 1 .. n /\ A[Rank(f, S) + 1] = f
  BY AscendingEnumerates
<1>2. /\ \A f \in S : Rank(f, S) \in 0 .. n - 1
      /\ \A f, g \in S : f < g <=> Rank(f, S) < Rank(g, S)
  BY RankIncreases
<1>3. \A f \in S : Below(f, S) = First(Rank(f, S))
  BY <1>2 DEF Below
<1> HIDE DEF A, n
<1>4. b \in [1 .. n -> Seq(C)]
  BY <1>1
<1>5. PICK p \in [0 .. n -> Seq(C)] : Appends(p, b, n)
  <2> HIDE DEF b
  <2> QED
    BY <1>1, <1>4, AppendsExists
<1>6. Laid(S, blob) = p[n]
  <2>1. Laid(S, blob) = FlattenSeq(b)
    BY DEF Laid, n, A
  <2> HIDE DEF b
  <2>2. FlattenSeq(b) = p[n]
    BY <1>1, <1>4, <1>5, FlattenAppends
  <2>3. QED
    BY <2>1, <2>2
<1>7. \A m \in 1 .. n : p[m] = p[m - 1] \o blob[A[m]]
  BY <1>5 DEF Appends
<1> HIDE DEF b
<1> DEFINE At(f, s) == Placed(SumOver(v, Below(f, S)), blob[f], s)
           T == {m \in Nat : m <= n => /\ Len(p[m]) = SumOver(v, First(m))
                                       /\ \A f \in First(m) : At(f, p[m])}
<1>8. 0 \in T
  <2>1. First(0) = {}
    BY <1>2
  <2>2. Len(p[0]) = 0
    <3>1. p[0] = <<>>
      BY <1>5 DEF Appends
    <3>2. QED
      BY <3>1
  <2>3. SumOver(v, First(0)) = 0
    <3> HIDE DEF First
    <3> QED
      BY <2>1, SumOfNone
  <2> HIDE DEF First, At
  <2>4. QED
    BY <2>1, <2>2, <2>3
<1>9. ASSUME NEW m \in Nat, m \in T PROVE m + 1 \in T
  <2> SUFFICES ASSUME m + 1 <= n
               PROVE  /\ Len(p[m + 1]) = SumOver(v, First(m + 1))
                      /\ \A f \in First(m + 1) : At(f, p[m + 1])
    OBVIOUS
  <2> DEFINE x == A[m + 1]
             R == First(m)
  <2>1. /\ Len(p[m]) = SumOver(v, R) /\ \A f \in R : At(f, p[m])
    BY <1>1, <1>9
  <2>2. /\ x \in S /\ Rank(x, S) = m
        /\ p[m + 1] = p[m] \o blob[x]
        /\ p[m] \in Seq(C) /\ blob[x] \in Seq(C)
    <3>1. m + 1 \in 1 .. n /\ (m + 1) - 1 = m /\ m \in 0 .. n
      BY <1>1
    <3>2. QED
      BY <1>1, <1>7, <3>1
  <2>3. First(m + 1) = R \cup {x} /\ x \notin R /\ R \subseteq S /\ Below(x, S) = R
    <3>1. \A f \in S : Rank(f, S) = m => f = x
      BY <1>1
    <3>2. \A f \in S : Rank(f, S) < m + 1 <=> Rank(f, S) < m \/ f = x
      BY <1>2, <2>2, <3>1
    <3>3. Below(x, S) = R
      BY <1>3, <2>2
    <3>4. x \notin R /\ R \subseteq S
      BY <2>2
    <3> HIDE DEF x
    <3>5. First(m + 1) = R \cup {x}
      BY <2>2, <3>2
    <3>6. QED
      BY <3>3, <3>4, <3>5
  <2>4. Len(p[m + 1]) = SumOver(v, R) + v[x]
    <3>1. Len(p[m + 1]) = Len(p[m]) + Len(blob[x])
      BY <2>2, ConcatProperties
    <3>2. QED
      BY <2>1, <2>2, <3>1
  <2>5. SumOver(v, First(m + 1)) = SumOver(v, R) + v[x]
    <3>1. IsFiniteSet(R)
      BY <2>3, FS_Subset
    <3>2. \A f \in S : v[f] \in Int
      <4>1. ASSUME NEW f \in S PROVE v[f] \in Int
        <5>1. blob[f] \in Seq(C) /\ v[f] = Len(blob[f])
          OBVIOUS
        <5>2. Len(blob[f]) \in Nat
          BY <5>1, LenProperties
        <5>3. QED
          BY <5>1, <5>2
      <4>2. QED
        BY <4>1
    <3>3. (\A f \in R : v[f] \in Int) /\ v[x] \in Int /\ x \notin R
      BY <2>2, <2>3, <3>2
    <3> HIDE DEF R, x, First
    <3>4. SumOver(v, R \cup {x}) = SumOver(v, R) + v[x]
      BY <3>1, <3>3, SumAdd
    <3>5. QED
      BY <2>3, <3>4
  <2>6. At(x, p[m + 1])
    <3>1. Placed(Len(p[m]), blob[x], p[m] \o blob[x])
      <4> HIDE DEF x
      <4> QED
        BY <2>2, PlacedInConcat
    <3>2. SumOver(v, Below(x, S)) = Len(p[m])
      BY <2>1, <2>3
    <3>3. QED
      BY <2>2, <3>1, <3>2
  <2>7. ASSUME NEW f \in R PROVE At(f, p[m + 1])
    <3> DEFINE o == SumOver(v, Below(f, S))
    <3>1. Placed(o, blob[f], p[m])
      BY <2>1
    <3>2. blob[f] \in Seq(C)
      BY <2>3
    <3> HIDE DEF o, x
    <3>3. Placed(o, blob[f], p[m] \o blob[x])
      BY <2>2, <3>1, <3>2, PlacedInConcat
    <3>4. QED
      BY <2>2, <3>3 DEF o
  <2> HIDE DEF x, R, First, At
  <2>8. QED
    BY <2>3, <2>4, <2>5, <2>6, <2>7
<1>10. \A m \in Nat : m \in T
  <2> HIDE DEF T
  <2> QED
    BY <1>8, <1>9, NatInduct
<1>11. First(n) = S
  <2>1. \A f \in S : Rank(f, S) < n
    BY <1>1, <1>2
  <2>2. QED
    BY <2>1
<1>12. Len(p[n]) = SumOver(v, S) /\ (\A f \in S : At(f, p[n])) /\ p[n] \in Seq(C)
  <2>1. Len(p[n]) = SumOver(v, First(n)) /\ \A f \in First(n) : At(f, p[n])
    <3> HIDE DEF First, At
    <3> QED
      BY <1>1, <1>10
  <2> HIDE DEF First, At
  <2>2. QED
    BY <1>1, <1>11, <2>1
<1>13. QED
  BY <1>6, <1>12

(* The model's sums are those of the lemmas.                               *)
LEMMA SumOfFunction ==
  ASSUME NEW v, NEW S
  PROVE  SumFunctionOnSet(v, S) = SumOver(v, S)
BY Zenon DEF SumFunctionOnSet, FoldFunctionOnSet, SumOver, MapThenSumSet, MapThenFoldSet

-----------------------------------------------------------------------------
(* The inductive invariant of the library cache.                           *)

Cell == Charts \X (Nat \ {0})
Records == UNION {[D -> Record] : D \in SUBSET Files}
Contents == UNION {[D -> Versions] : D \in SUBSET Files}

(* Every record's range of these cells holds its chart's notes.            *)
Right(rec, cells) ==
  \A f \in DOMAIN rec : Placed(rec[f].offset, Blob(<<f, rec[f].version>>), cells)

(* The index on disk is right about the notes it was written for.          *)
IndexRight == Matches(index, notes) /\ ~slipped => Right(index.records, notes.cells)

(* Then the records in memory were read from it, or written to it.         *)
IdKnown == scan.at # "boot" /\ Matches(index, notes) => notes_id = index.id

(* A rewrite names the id of the notes that are there, until it compacts   *)
(* them: then no index has the new id before the notes do.                 *)
Writing == {"prepared", "appended", "indexed", "renaming"}

IdsRight ==
  /\ scan.at \in Writing => scan.id \in Ids
  /\ scan.at \in {"scanned", "prepared", "appended"} => ~scan.compacting
  /\ scan.at \in Writing =>
       IF scan.compacting /\ scan.at = "indexed"
       THEN notes # NoFile /\ scan.id # index.id
       ELSE scan.id = notes.id
  /\ scan.at = "renaming" /\ scan.compacting => index.id # notes.id

(* The next index is right about the notes it will belong to, and until    *)
(* they are there, or if they are the old ones, so are the records.        *)
NextRight ==
  ~slipped =>
    /\ scan.at = "appended" => Right(scan.next, notes.cells)
    /\ scan.at = "indexed" =>
         Right(scan.next, IF scan.compacting THEN scan.cells ELSE notes.cells)
    /\ scan.at = "renaming" =>
         Right(scan.next, notes.cells) /\ (~scan.compacting => Right(records, notes.cells))

RecordsRight ==
  scan.at # "renaming" /\ ~slipped /\ notes # NoFile => Right(records, notes.cells)

(* The scan thread saves difficulties only when it is done with the notes. *)
SavesLast == saver = "scan" => scan.at = "saving"

Sound == IndexRight /\ IdKnown /\ IdsRight /\ NextRight /\ RecordsRight /\ SavesLast

(* The types, with those of what a scan carries from step to step.         *)
NotesFiles == [id : Ids \cup {NoId}, cells : Seq(Cell)]
Indexes == [id : Ids \cup {NoId}, records : Records]
Scans == [at : Stages, keep : SUBSET Files, new : Contents, next : Records,
          id : Ids \cup {NoId}, size : Nat, compacting : BOOLEAN, cells : Seq(Cell)]

LibraryTyped ==
  /\ folder \in [Files -> Versions \cup {0}]
  /\ index \in Indexes /\ notes \in NotesFiles
  /\ records \in Records
  /\ notes_id \in Ids \cup {NoId} /\ (notes_id = NoId => records = <<>>)
  /\ notes_size \in Nat
  /\ scan \in Scans
  /\ slipped \in BOOLEAN
  /\ spent \in 0 .. MaxEvents

-----------------------------------------------------------------------------
(* What the operators of a rewrite return.                                 *)

(* Any files can be laid out, and each has some notes.                     *)
LEMMA FilesAreFinite ==
  ASSUME NEW D \in SUBSET Files
  PROVE  D \subseteq Int /\ IsFiniteSet(D) /\ \A f \in D : Size[f] \in Nat /\ Size[f] > 0
<1>1. Files \subseteq Int /\ IsFiniteSet(Files) /\ \A f \in Files : Size[f] \in Nat \ {0}
  <2>1. IsFiniteSet(Files) /\ Files = 1 .. Cardinality(Files) /\ Size \in [Files -> Nat \ {0}]
    BY LibraryAssumption
  <2>2. Cardinality(Files) \in Nat
    BY <2>1, FS_CardinalityType
  <2>3. 1 .. Cardinality(Files) \subseteq Int
    BY <2>2
  <2>4. QED
    BY <2>1, <2>3, Zenon
<1>2. IsFiniteSet(D)
  BY <1>1, FS_Subset
<1>3. QED
  BY <1>1, <1>2

(* The notes of a chart are as many cells as its file's size says.         *)
LEMMA BlobIs ==
  ASSUME NEW f \in Files, NEW v \in Versions
  PROVE  /\ Blob(<<f, v>>) \in Seq(Cell)
         /\ Len(Blob(<<f, v>>)) = Size[f]
<1>1. Size[f] \in Nat
  BY FilesAreFinite
<1> DEFINE n == Size[f]
           b == [part \in 1 .. n |-> <<<<f, v>>, part>>]
<1>2. Blob(<<f, v>>) = b
  BY DEF Blob
<1>3. b \in [1 .. n -> Cell]
  <2>1. \A part \in 1 .. n : <<<<f, v>>, part>> \in Cell
    BY <1>1 DEF Cell, Charts
  <2>2. QED
    BY <2>1
<1> HIDE DEF b
<1>4. b \in Seq(Cell)
  BY <1>1, <1>3, SeqDef
<1>5. Len(b) = n
  <2>1. DOMAIN b = 1 .. Len(b) /\ Len(b) \in Nat
    BY <1>4, LenProperties
  <2>2. DOMAIN b = 1 .. n
    BY <1>3
  <2> HIDE DEF n
  <2>3. QED
    BY <1>1, <2>1, <2>2 DEF n
<1>6. QED
  BY <1>2, <1>4, <1>5

(* The offset of a file: the cells of those scanned before it.             *)
LEMMA OffsetsAre ==
  ASSUME NEW new, DOMAIN new \in SUBSET Files, NEW size \in Nat, NEW f \in DOMAIN new
  PROVE  /\ SumOver(Size, Below(f, DOMAIN new)) \in Nat
         /\ Offsets(new, size)[f] = size + SumOver(Size, Below(f, DOMAIN new))
         /\ Offsets(new, size)[f] \in Nat
<1> DEFINE D == DOMAIN new
           B == Below(f, D)
<1>1. B \in SUBSET Files
  BY DEF Below
<1>2. SumOver(Size, B) \in Nat
  <2>1. IsFiniteSet(B) /\ \A g \in B : Size[g] \in Nat
    BY <1>1, FilesAreFinite
  <2> HIDE DEF B
  <2>2. QED
    BY <2>1, SumOfNats
<1>3. Offsets(new, size)[f] = size + SumFunctionOnSet(Size, B)
  BY Zenon DEF Offsets, Below
<1>4. SumFunctionOnSet(Size, B) = SumOver(Size, B)
  BY SumOfFunction
<1> HIDE DEF B
<1>5. QED
  BY <1>2, <1>3, <1>4 DEF B

(* The notes of files laid out: each blob behind those of the files before *)
(* it.                                                                     *)
LEMMA CellsPlaced ==
  ASSUME NEW D \in SUBSET Files, NEW blob \in [D -> Seq(Cell)],
         \A f \in D : Len(blob[f]) = Size[f]
  PROVE  /\ Laid(D, blob) \in Seq(Cell)
         /\ \A f \in D : Placed(SumOver(Size, Below(f, D)), blob[f], Laid(D, blob))
         /\ Laid(D, blob) = <<>> => D = {}
<1>1. D \subseteq Int /\ IsFiniteSet(D) /\ \A f \in D : Size[f] = Len(blob[f])
  BY FilesAreFinite
<1>2. /\ Laid(D, blob) \in Seq(Cell)
      /\ \A f \in D : Placed(SumOver(Size, Below(f, D)), blob[f], Laid(D, blob))
  BY <1>1, LaidOut
<1>3. ASSUME Laid(D, blob) = <<>>, NEW f \in D PROVE FALSE
  <2> DEFINE o == SumOver(Size, Below(f, D))
  <2>1. Placed(o, blob[f], Laid(D, blob))
    BY <1>2
  <2>2. o \in Nat /\ o + Size[f] <= Len(Laid(D, blob))
    BY <2>1 DEF Placed
  <2>3. Len(Laid(D, blob)) = 0
    BY <1>3
  <2>4. Size[f] \in Nat /\ Size[f] > 0
    BY FilesAreFinite
  <2> HIDE DEF o
  <2>5. QED
    BY <2>2, <2>3, <2>4
<1>4. QED
  BY <1>2, <1>3

(* Cells lays out the blobs of the files' charts.                          *)
LEMMA CellsAreLaid ==
  ASSUME NEW D \in SUBSET Files, NEW version \in [D -> Versions]
  PROVE  \E blob \in [D -> Seq(Cell)] :
           /\ \A f \in D : blob[f] = Blob(<<f, version[f]>>) /\ Len(blob[f]) = Size[f]
           /\ Cells(D, version) = Laid(D, blob)
<1> DEFINE blob == [f \in D |-> Blob(<<f, version[f]>>)]
           n == Cardinality(D)
<1>1. \A f \in D : Blob(<<f, version[f]>>) \in Seq(Cell) /\ Len(Blob(<<f, version[f]>>)) = Size[f]
  BY BlobIs
<1>2. blob \in [D -> Seq(Cell)]
  BY <1>1
<1>3. \A f \in D : blob[f] = Blob(<<f, version[f]>>) /\ Len(blob[f]) = Size[f]
  BY <1>1
<1>4. n \in Nat /\ \A i \in 1 .. n : Ascending(D)[i] \in D
  <2>1. D \subseteq Int /\ IsFiniteSet(D)
    BY FilesAreFinite
  <2>2. n \in Nat /\ Ascending(D) \in [1 .. n -> D]
    BY <2>1, AscendingEnumerates
  <2>3. QED
    BY <2>2
<1> HIDE DEF n
<1>5. \A i \in 1 .. n : blob[Ascending(D)[i]] = Blob(<<Ascending(D)[i], version[Ascending(D)[i]]>>)
  BY <1>4
<1> HIDE DEF blob
<1>6. [i \in 1 .. n |-> blob[Ascending(D)[i]]]
        = [i \in 1 .. n |-> Blob(<<Ascending(D)[i], version[Ascending(D)[i]]>>)]
  BY <1>5
<1>7. Cells(D, version) = Laid(D, blob)
  BY <1>6, Zenon DEF Cells, Laid, n
<1>8. QED
  BY <1>2, <1>3, <1>7

(* What a set of records tells of a file in its domain.                    *)
LEMMA RecordIs ==
  ASSUME NEW rec \in Records, NEW f \in DOMAIN rec
  PROVE  /\ f \in Files /\ rec[f] \in Record
         /\ rec[f].version \in Versions /\ rec[f].offset \in Nat
         /\ Blob(<<f, rec[f].version>>) \in Seq(Cell)
         /\ Len(Blob(<<f, rec[f].version>>)) = Size[f]
<1>1. PICK D \in SUBSET Files : rec \in [D -> Record]
  BY Zenon DEF Records
<1>2. f \in Files /\ rec[f] \in Record
  BY <1>1
<1>3. rec[f].version \in Versions /\ rec[f].offset \in Nat
  BY <1>2 DEF Record
<1>4. QED
  BY <1>2, <1>3, BlobIs

(* Records over some files, each of its type, are records.                 *)
LEMMA AreRecordsOf ==
  ASSUME NEW D \in SUBSET Files, NEW rec \in [D -> Record]
  PROVE  rec \in Records /\ DOMAIN rec = D
BY Zenon DEF Records

(* Records stay right when notes are appended.                             *)
LEMMA RightStays ==
  ASSUME NEW rec \in Records, NEW s \in Seq(Cell), NEW t \in Seq(Cell), Right(rec, s)
  PROVE  Right(rec, s \o t)
<1> SUFFICES ASSUME NEW f \in DOMAIN rec
             PROVE  Placed(rec[f].offset, Blob(<<f, rec[f].version>>), s \o t)
  BY Zenon DEF Right
<1> DEFINE b == Blob(<<f, rec[f].version>>)
           o == rec[f].offset
<1>1. b \in Seq(Cell)
  BY RecordIs
<1>2. Placed(o, b, s)
  BY Zenon DEF Right
<1> HIDE DEF b, o
<1>3. Placed(o, b, s \o t)
  BY <1>1, <1>2, PlacedInConcat
<1>4. QED
  BY <1>3 DEF b, o

(* Without records nothing is wrong.                                       *)
LEMMA NoRecords == <<>> \in Records /\ \A s : Right(<<>>, s)
<1>1. DOMAIN <<>> = {}
  OBVIOUS
<1>2. <<>> \in [{} -> Record]
  OBVIOUS
<1>3. QED
  BY <1>1, <1>2, Zenon DEF Records, Right

(* An id that is in neither of three places is left.                       *)
LEMMA NewIdIsNew ==
  ASSUME NEW a, NEW b, NEW c
  PROVE  /\ NewId({a, b, c}) \in Ids /\ NewId({a, b, c}) \notin {a, b, c}
         /\ NewId({a, b}) \in Ids /\ NewId({a, b}) \notin {a, b}
<1>1. \E i \in Ids : i \notin {a, b, c}
  BY DEF Ids
<1>2. \E i \in Ids : i \notin {a, b}
  BY DEF Ids
<1>3. QED
  BY <1>1, <1>2 DEF NewId

(* Appending the notes of new charts behind the kept ones makes the next   *)
(* index right, if the offsets count from the end of the file.             *)
LEMMA AppendedRight ==
  ASSUME NEW rec \in Records, NEW K, K \subseteq DOMAIN rec,
         NEW new \in Contents, NEW s \in Seq(Cell), NEW size \in Nat,
         Right(rec, s), Len(s) = size \/ Cells(DOMAIN new, new) = <<>>,
         NEW next, DOMAIN next = DOMAIN new \cup K,
         \A f \in DOMAIN new : /\ next[f].version = new[f]
                               /\ next[f].offset = Offsets(new, size)[f],
         \A f \in K \ DOMAIN new : next[f] = rec[f]
  PROVE  Right(next, s \o Cells(DOMAIN new, new))
<1> DEFINE D == DOMAIN new
           t == Cells(D, new)
<1>1. D \in SUBSET Files /\ new \in [D -> Versions]
  BY DEF Contents
<1>2. PICK blob \in [D -> Seq(Cell)] :
        /\ \A f \in D : blob[f] = Blob(<<f, new[f]>>) /\ Len(blob[f]) = Size[f]
        /\ t = Laid(D, blob)
  <2> HIDE DEF D
  <2> QED
    BY <1>1, CellsAreLaid
<1>3. /\ t \in Seq(Cell)
      /\ \A f \in D : Placed(SumOver(Size, Below(f, D)), blob[f], t)
      /\ t = <<>> => D = {}
  <2>1. \A f \in D : Len(blob[f]) = Size[f]
    BY <1>2
  <2>2. /\ Laid(D, blob) \in Seq(Cell)
        /\ \A f \in D : Placed(SumOver(Size, Below(f, D)), blob[f], Laid(D, blob))
        /\ Laid(D, blob) = <<>> => D = {}
    <3> HIDE DEF D
    <3> QED
      BY <1>1, <2>1, CellsPlaced
  <2> HIDE DEF D, t
  <2>3. QED
    BY <1>2, <2>2
<1>4. ASSUME NEW f \in D PROVE Placed(next[f].offset, Blob(<<f, next[f].version>>), s \o t)
  <2>1. Len(s) = size
    BY <1>3, <1>4
  <2> DEFINE o == SumOver(Size, Below(f, D))
  <2>2. Placed(o, blob[f], t) /\ blob[f] \in Seq(Cell)
    BY <1>3
  <2>3. next[f].offset = size + o
    BY <1>1, OffsetsAre
  <2>4. Blob(<<f, next[f].version>>) = blob[f]
    BY <1>2
  <2> HIDE DEF o, t, D
  <2>5. Placed(Len(s) + o, blob[f], s \o t)
    BY <1>3, <2>2, PlacedInConcat
  <2>6. QED
    BY <2>1, <2>3, <2>4, <2>5
<1>5. ASSUME NEW f \in K \ D PROVE Placed(next[f].offset, Blob(<<f, next[f].version>>), s \o t)
  <2>1. Right(rec, s \o t)
    <3> HIDE DEF t
    <3> QED
      BY <1>3, RightStays
  <2>2. next[f] = rec[f] /\ f \in DOMAIN rec
    BY <1>5
  <2> HIDE DEF t, D
  <2>3. QED
    BY <2>1, <2>2 DEF Right
<1>6. \A f \in DOMAIN next : f \in D \/ f \in K \ D
  OBVIOUS
<1> HIDE DEF t, D
<1>7. Right(next, s \o t)
  BY <1>4, <1>5, <1>6, Zenon DEF Right
<1>8. QED
  BY <1>7 DEF t, D

(* The notes that a right index leads to, laid out anew.                   *)
Compacted(next) ==
  FlattenSeq([i \in 1 .. Cardinality(DOMAIN next) |->
    Stored(next, Ascending(DOMAIN next)[i])])

(* What is read for a record is always a run of cells, and of a right      *)
(* record its chart's notes.                                               *)
LEMMA StoredIs ==
  ASSUME NEW rec \in Records, NEW f \in DOMAIN rec, notes.cells \in Seq(Cell)
  PROVE  /\ Stored(rec, f) \in Seq(Cell)
         /\ Right(rec, notes.cells) => Stored(rec, f) = Blob(<<f, rec[f].version>>)
<1> DEFINE o == rec[f].offset
           n == Size[f]
           s == notes.cells
<1>1. o \in Nat /\ n \in Nat /\ s \in Seq(Cell)
  <2>1. o \in Nat /\ f \in Files
    BY RecordIs
  <2>2. QED
    BY <2>1, FilesAreFinite
<1>2. Stored(rec, f) = IF o + n <= Len(s) THEN SubSeq(s, o + 1, o + n) ELSE <<>>
  BY Zenon DEF Stored
<1>3. Stored(rec, f) \in Seq(Cell)
  <2> HIDE DEF o, n, s
  <2>1. o + n <= Len(s) => SubSeq(s, o + 1, o + n) \in Seq(Cell)
    <3>1. <<>> \in Seq(Cell)
      BY EmptySeq
    <3>2. ASSUME o + n <= Len(s) PROVE SubSeq(s, o + 1, o + n) \in Seq(Cell)
      BY <1>1, <3>1, <3>2, PartStays
    <3>3. QED
      BY <3>2
  <2>2. <<>> \in Seq(Cell)
    BY EmptySeq
  <2>3. QED
    BY <1>2, <2>1, <2>2
<1>4. ASSUME Right(rec, s) PROVE Stored(rec, f) = Blob(<<f, rec[f].version>>)
  <2> DEFINE b == Blob(<<f, rec[f].version>>)
  <2>1. Placed(o, b, s)
    BY <1>4, Zenon DEF Right
  <2>2. Len(b) = n
    BY RecordIs
  <2>3. o + n <= Len(s) /\ SubSeq(s, o + 1, o + n) = b
    <3> HIDE DEF o, n, s, b
    <3> QED
      BY <2>1, <2>2 DEF Placed
  <2> HIDE DEF o, n, s, b
  <2>4. Stored(rec, f) = b
    BY <1>2, <2>3
  <2>5. QED
    BY <2>4 DEF b
<1>5. QED
  BY <1>3, <1>4 DEF s

(* Compacting makes a run of cells, and an index that counts from its      *)
(* start is right about it if the one before was right.                    *)
LEMMA CompactedRight ==
  ASSUME NEW next \in Records, notes.cells \in Seq(Cell),
         NEW moved, DOMAIN moved = DOMAIN next,
         \A f \in DOMAIN next : /\ moved[f].version = next[f].version
                                /\ moved[f].offset = Offsets(next, 0)[f]
  PROVE  /\ Compacted(next) \in Seq(Cell)
         /\ Right(next, notes.cells) => Right(moved, Compacted(next))
<1> DEFINE D == DOMAIN next
           blob == [f \in D |-> Stored(next, f)]
           n == Cardinality(D)
           v == [f \in D |-> Len(blob[f])]
<1>1. D \in SUBSET Files
  BY RecordIs
<1>2. blob \in [D -> Seq(Cell)] /\ \A f \in D : blob[f] = Stored(next, f)
  BY StoredIs
<1>3. n \in Nat /\ D \subseteq Int /\ IsFiniteSet(D) /\ \A i \in 1 .. n : Ascending(D)[i] \in D
  <2>1. D \subseteq Int /\ IsFiniteSet(D)
    BY <1>1, FilesAreFinite
  <2>2. n \in Nat /\ Ascending(D) \in [1 .. n -> D]
    BY <2>1, AscendingEnumerates
  <2>3. QED
    BY <2>1, <2>2
<1>4. Compacted(next) = Laid(D, blob)
  <2>1. \A i \in 1 .. n : blob[Ascending(D)[i]] = Stored(next, Ascending(D)[i])
    BY <1>2, <1>3
  <2> HIDE DEF blob
  <2>2. [i \in 1 .. n |-> blob[Ascending(D)[i]]] = [i \in 1 .. n |-> Stored(next, Ascending(D)[i])]
    BY <2>1
  <2>3. QED
    BY <2>2, Zenon DEF Compacted, Laid
<1>5. Laid(D, blob) \in Seq(Cell)
  <2>1. \A f \in D : v[f] = Len(blob[f])
    OBVIOUS
  <2> HIDE DEF v, blob, D
  <2>2. QED
    BY <1>2, <1>3, <2>1, LaidOut
<1>6. ASSUME Right(next, notes.cells), NEW f \in D
      PROVE  Placed(moved[f].offset, Blob(<<f, moved[f].version>>), Laid(D, blob))
  <2>1. \A g \in D : blob[g] = Blob(<<g, next[g].version>>) /\ Len(blob[g]) = Size[g]
    <3> TAKE g \in D
    <3>1. Stored(next, g) = Blob(<<g, next[g].version>>)
      BY <1>6, StoredIs
    <3>2. Len(Blob(<<g, next[g].version>>)) = Size[g]
      BY RecordIs
    <3>3. QED
      BY <1>2, <3>1, <3>2
  <2>2. Placed(SumOver(Size, Below(f, D)), blob[f], Laid(D, blob))
    <3>1. \A g \in D : Len(blob[g]) = Size[g]
      BY <2>1
    <3> HIDE DEF blob, D
    <3>2. QED
      BY <1>1, <1>2, <1>6, <3>1, CellsPlaced
  <2>3. moved[f].offset = SumOver(Size, Below(f, D))
    <3>1. Offsets(next, 0)[f] = 0 + SumOver(Size, Below(f, D)) /\ SumOver(Size, Below(f, D)) \in Nat
      BY <1>1, OffsetsAre
    <3> DEFINE o == SumOver(Size, Below(f, D))
    <3> HIDE DEF o
    <3>2. Offsets(next, 0)[f] = 0 + o /\ o \in Nat
      BY <3>1 DEF o
    <3>3. moved[f].offset = o
      BY <3>2
    <3>4. QED
      BY <3>3 DEF o
  <2>4. blob[f] = Blob(<<f, moved[f].version>>)
    BY <2>1
  <2> HIDE DEF blob, D
  <2>5. QED
    BY <2>2, <2>3, <2>4
<1>7. Right(next, notes.cells) => Right(moved, Laid(D, blob))
  <2> SUFFICES ASSUME Right(next, notes.cells) PROVE Right(moved, Laid(D, blob))
    OBVIOUS
  <2> HIDE DEF blob
  <2> QED
    BY <1>6, Zenon DEF Right
<1>8. QED
  BY <1>4, <1>5, <1>7

-----------------------------------------------------------------------------
(* Types *)

(* What a scan is while it rewrites.                                       *)
LEMMA NoScanTyped ==
  /\ NoScan \in Scans /\ NoFile \in NotesFiles /\ NoIndex \in Indexes
  /\ \A s \in Stages : [NoScan EXCEPT !.at = s] \in Scans
<1>1. <<>> \in Records /\ <<>> \in Seq(Cell)
  BY NoRecords, EmptySeq
<1>2. <<>> \in Contents
  <2>1. <<>> \in [{} -> Versions]
    OBVIOUS
  <2>2. QED
    BY <2>1, Zenon DEF Contents
<1>3. "idle" \in Stages
  BY DEF Stages
<1>4. QED
  BY <1>1, <1>2, <1>3 DEF NoScan, NoFile, NoIndex, NoId, Scans, NotesFiles, Indexes

(* What an append writes, or a part of it, is a run of cells.              *)
LEMMA WrittenTyped ==
  ASSUME LibraryTyped
  PROVE  /\ Written \in Seq(Cell) /\ Len(Written) \in Nat
         /\ \A n \in 0 .. Len(Written) : SubSeq(Written, 1, n) \in Seq(Cell)
<1>1. scan.new \in Contents
  BY DEF LibraryTyped, Scans
<1> DEFINE D == DOMAIN scan.new
<1>2. D \in SUBSET Files /\ scan.new \in [D -> Versions]
  BY <1>1 DEF Contents
<1>3. PICK blob \in [D -> Seq(Cell)] :
        /\ \A f \in D : blob[f] = Blob(<<f, scan.new[f]>>) /\ Len(blob[f]) = Size[f]
        /\ Cells(D, scan.new) = Laid(D, blob)
  <2> HIDE DEF D
  <2> QED
    BY <1>2, CellsAreLaid
<1>4. Laid(D, blob) \in Seq(Cell)
  <2>1. \A f \in D : Len(blob[f]) = Size[f]
    BY <1>3
  <2> HIDE DEF D
  <2>2. QED
    BY <1>2, <2>1, CellsPlaced
<1>5. Written \in Seq(Cell)
  BY <1>3, <1>4 DEF Written
<1>6. Len(Written) \in Nat
  BY <1>5, LenProperties
<1>7. ASSUME NEW n \in 0 .. Len(Written) PROVE SubSeq(Written, 1, n) \in Seq(Cell)
  <2> DEFINE w == Written
  <2>1. w \in Seq(Cell) /\ n \in Nat /\ 0 + n <= Len(w)
    BY <1>5, <1>6
  <2> HIDE DEF w
  <2>2. SubSeq(w, 0 + 1, 0 + n) \in Seq(Cell)
    <3>1. <<>> \in Seq(Cell)
      BY EmptySeq
    <3>2. 0 \in Nat
      OBVIOUS
    <3>3. QED
      BY <2>1, <3>1, <3>2, PartStays
  <2>3. 0 + n = n /\ 0 + 1 = 1
    BY <2>1
  <2>4. QED
    BY <2>2, <2>3 DEF w
<1>8. QED
  BY <1>5, <1>6, <1>7

(* Without files everything has its type.                                  *)
LEMMA InitTyped == Init => LibraryTyped
<1> SUFFICES ASSUME Init PROVE LibraryTyped
  OBVIOUS
<1>1. /\ folder \in [Files -> Versions \cup {0}] /\ index = NoIndex /\ notes = NoFile
      /\ records = <<>> /\ notes_id = NoId /\ notes_size = 0
      /\ scan = [NoScan EXCEPT !.at = "boot"] /\ slipped = FALSE /\ spent = 0
  BY Zenon DEF Init
<1>2. "boot" \in Stages
  BY DEF Stages
<1>3. MaxEvents \in Nat
  BY LibraryAssumption
<1>4. QED
  <2>1. scan \in Scans /\ index \in Indexes /\ notes \in NotesFiles /\ records \in Records
    BY <1>1, <1>2, NoScanTyped, NoRecords, Zenon
  <2>2. notes_id \in Ids \cup {NoId} /\ notes_size \in Nat /\ spent \in 0 .. MaxEvents
    BY <1>1, <1>3
  <2>3. QED
    BY <1>1, <2>1, <2>2 DEF LibraryTyped

(* Steps that forget the records, or leave them, and stop or begin a scan. *)
Forgets == Forget \/ UNCHANGED <<records, notes_id, notes_size>>

LEMMA PlainTyped ==
  ASSUME LibraryTyped, Forgets, folder' \in [Files -> Versions \cup {0}],
         index' \in {index, NoIndex}, notes' \in NotesFiles, scan' \in Scans,
         slipped' \in BOOLEAN, spent' = spent \/ Event
  PROVE  LibraryTyped'
<1>1. index' \in Indexes
  BY NoScanTyped DEF LibraryTyped
<1>2. /\ records' \in Records /\ notes_id' \in Ids \cup {NoId}
      /\ (notes_id' = NoId => records' = <<>>) /\ notes_size' \in Nat
  <2>1. CASE Forget
    BY <2>1, NoRecords DEF Forget
  <2>2. CASE UNCHANGED <<records, notes_id, notes_size>>
    BY <2>2 DEF LibraryTyped
  <2>3. QED
    BY <2>1, <2>2 DEF Forgets
<1>3. spent' \in 0 .. MaxEvents
  BY LibraryAssumption DEF LibraryTyped, Event
<1>4. QED
  BY <1>1, <1>2, <1>3 DEF LibraryTyped

(* Notes that some more was appended to.                                   *)
LEMMA AppendTyped ==
  ASSUME LibraryTyped, NEW t \in Seq(Cell)
  PROVE  /\ [notes EXCEPT !.cells = @ \o t] \in NotesFiles
         /\ [notes EXCEPT !.cells = @ \o t].id = notes.id
         /\ [notes EXCEPT !.cells = @ \o t].cells = notes.cells \o t
<1> DEFINE c == notes.cells \o t
<1>1. notes \in NotesFiles /\ notes.cells \in Seq(Cell)
  BY DEF LibraryTyped, NotesFiles
<1>2. c \in Seq(Cell)
  BY <1>1, ConcatProperties
<1> HIDE DEF c
<1>3. [notes EXCEPT !.cells = c] \in NotesFiles /\ [notes EXCEPT !.cells = c].id = notes.id
      /\ [notes EXCEPT !.cells = c].cells = c
  BY <1>1, <1>2 DEF NotesFiles
<1>4. QED
  BY <1>3 DEF c

(* A write that was cut leaves a notes file with some more cells.          *)
LEMMA PartlyWrittenTyped ==
  ASSUME LibraryTyped, NEW file \in PartlyWritten
  PROVE  \E t \in Seq(Cell) : file \in NotesFiles /\ file.id = notes.id /\ file.cells = notes.cells \o t
<1>1. PICK n \in 0 .. Len(Written) : file = [notes EXCEPT !.cells = @ \o SubSeq(Written, 1, n)]
  BY Zenon DEF PartlyWritten
<1>2. SubSeq(Written, 1, n) \in Seq(Cell)
  BY WrittenTyped
<1>3. QED
  BY <1>1, <1>2, AppendTyped, Zenon

(* Starting, scanning and dying keep the types.                            *)
LEMMA ScansTyped ==
  ASSUME LibraryTyped, IdsRight,
         \/ \E f \in Files : Edit(f)
         \/ Load \/ Rebuild \/ ScanFolder \/ UNCHANGED libraryVars \/ Crash
  PROVE  LibraryTyped'
<1>1. /\ folder \in [Files -> Versions \cup {0}] /\ index \in Indexes /\ notes \in NotesFiles
      /\ scan \in Scans /\ slipped \in BOOLEAN
  BY DEF LibraryTyped
<1>2. ASSUME NEW f \in Files, Edit(f) PROVE LibraryTyped'
  <2>1. folder' \in [Files -> Versions \cup {0}]
    BY <1>1, <1>2 DEF Edit
  <2>2. UNCHANGED <<index, notes, records, notes_id, notes_size, scan, slipped>> /\ Event
    BY <1>2, Zenon DEF Edit
  <2>3. QED
    BY <1>1, <2>1, <2>2, PlainTyped DEF Forgets
<1>3. CASE Load
  <2>1. scan' \in Scans /\ UNCHANGED <<folder, index, notes, spent>>
    BY <1>3, NoScanTyped DEF Load
  <2>2. CASE Matches(index, notes)
    <3>1. /\ records' = index.records /\ notes_id' = index.id /\ slipped' = slipped
          /\ notes_size' = Len(notes.cells) /\ index.id # NoId
      BY <1>3, <2>2 DEF Load, Matches
    <3>2. index.records \in Records /\ index.id \in Ids \cup {NoId} /\ Len(notes.cells) \in Nat
      <4>1. notes.cells \in Seq(Cell)
        BY <1>1 DEF NotesFiles
      <4>2. QED
        BY <1>1, <4>1, LenProperties DEF Indexes
    <3>3. QED
      BY <2>1, <3>1, <3>2 DEF LibraryTyped
  <2>3. CASE ~Matches(index, notes)
    <3>1. Forget /\ slipped' = FALSE
      BY <1>3, <2>3 DEF Load
    <3>2. QED
      BY <1>1, <2>1, <3>1, PlainTyped DEF Forgets
  <2>4. QED
    BY <2>2, <2>3
<1>4. CASE Rebuild
  <2>1. /\ Forget /\ index' = NoIndex /\ notes' = NoFile /\ slipped' = FALSE
        /\ UNCHANGED <<folder, scan, spent>>
    BY <1>4, Zenon DEF Rebuild
  <2>2. QED
    BY <1>1, <2>1, PlainTyped, NoScanTyped DEF Forgets
<1>5. CASE ScanFolder
  <2> DEFINE there == {f \in Files : folder[f] # 0}
             keep == {f \in there \cap DOMAIN records : records[f].version = folder[f]}
             new == Restrict(folder, there \ keep)
  <2>1. PICK at \in {"scanned", "saving"} :
          scan' = [NoScan EXCEPT !.at = at, !.keep = keep, !.new = new]
    BY <1>5, Zenon DEF ScanFolder
  <2>2. new \in Contents
    <3>1. there \ keep \in SUBSET Files /\ \A f \in there \ keep : folder[f] \in Versions
      BY <1>1
    <3> HIDE DEF there, keep
    <3>2. new \in [there \ keep -> Versions]
      BY <3>1 DEF Restrict
    <3> HIDE DEF new
    <3>3. QED
      BY <3>1, <3>2, Zenon DEF Contents
  <2>3. keep \in SUBSET Files /\ at \in Stages
    BY DEF Stages
  <2> HIDE DEF there, keep, new
  <2>4. scan' \in Scans
    BY <2>1, <2>2, <2>3, NoScanTyped DEF Scans
  <2>5. UNCHANGED <<folder, index, notes, records, notes_id, notes_size, slipped, spent>>
    BY <1>5, Zenon DEF ScanFolder
  <2>6. QED
    BY <1>1, <2>4, <2>5, PlainTyped DEF Forgets
<1>6. CASE UNCHANGED libraryVars
  BY <1>1, <1>6, PlainTyped DEF Forgets, libraryVars
<1>7. CASE Crash
  <2>1. Event /\ Forget /\ scan' = [NoScan EXCEPT !.at = "boot"] /\ UNCHANGED <<folder, index, slipped>>
    BY <1>7, Zenon DEF Crash
  <2>2. notes' \in NotesFiles
    <3>1. CASE notes' \in PartlyWritten
      BY <3>1, PartlyWrittenTyped
    <3>2. CASE notes' = notes
      BY <1>1, <3>2
    <3>3. QED
      BY <1>7, <3>1, <3>2 DEF Crash
  <2>3. scan' \in Scans
    BY <2>1, NoScanTyped DEF Stages
  <2>4. QED
    BY <1>1, <2>1, <2>2, <2>3, PlainTyped DEF Forgets
<1>8. QED
  BY <1>2, <1>3, <1>4, <1>5, <1>6, <1>7

(* The index that appending makes: what it says, and its type.             *)
LEMMA AppendNotesIndex ==
  ASSUME LibraryTyped, AppendNotes
  PROVE  /\ DOMAIN scan'.next = DOMAIN scan.new \cup Kept /\ Kept \subseteq DOMAIN records
         /\ \A f \in DOMAIN scan.new : /\ scan'.next[f].version = scan.new[f]
                                       /\ scan'.next[f].offset = Offsets(scan.new, scan.size)[f]
         /\ \A f \in Kept \ DOMAIN scan.new : scan'.next[f] = records[f]
         /\ scan'.next \in Records /\ scan' \in Scans
         /\ scan'.at = "appended" /\ scan'.id = scan.id /\ scan'.compacting = scan.compacting
<1> DEFINE D == DOMAIN scan.new
           K == Kept
           added(f) == [version |-> scan.new[f], offset |-> Offsets(scan.new, scan.size)[f]]
           next == [f \in D \cup K |-> IF f \in D THEN added(f) ELSE records[f]]
           size == scan.size + Len(Written)
<1>1. scan \in Scans /\ records \in Records /\ scan.new \in Contents /\ scan.size \in Nat
  BY DEF LibraryTyped, Scans
<1>2. D \in SUBSET Files /\ scan.new \in [D -> Versions]
  BY <1>1 DEF Contents
<1>3. K \subseteq DOMAIN records
  BY DEF Kept
<1>4. scan' = [scan EXCEPT !.at = "appended", !.size = size, !.next = next]
  BY Zenon DEF AppendNotes
<1>5. \A f \in D : added(f) \in Record
  <2> TAKE f \in D
  <2>1. Offsets(scan.new, scan.size)[f] \in Nat
    BY <1>1, <1>2, OffsetsAre
  <2>2. scan.new[f] \in Versions
    BY <1>2
  <2>3. QED
    BY <2>1, <2>2 DEF Record
<1>6. \A f \in K : records[f] \in Record /\ f \in Files
  BY <1>1, <1>3, RecordIs
<1>7. \A f \in D : next[f] = added(f)
  OBVIOUS
<1>8. \A f \in K \ D : next[f] = records[f]
  OBVIOUS
<1>9. next \in Records /\ DOMAIN next = D \cup K
  <2>1. D \cup K \in SUBSET Files
    BY <1>2, <1>6
  <2> HIDE DEF D, K, added
  <2>2. next \in [D \cup K -> Record]
    BY <1>5, <1>6
  <2> HIDE DEF next
  <2>3. QED
    BY <2>1, <2>2, AreRecordsOf
<1>10. \A f \in D : added(f).version = scan.new[f] /\ added(f).offset = Offsets(scan.new, scan.size)[f]
  OBVIOUS
<1>11. size \in Nat /\ "appended" \in Stages
  BY <1>1, WrittenTyped DEF Stages
<1> HIDE DEF next, added, D, K, size
<1>12. /\ scan' \in Scans /\ scan'.next = next
       /\ scan'.at = "appended" /\ scan'.id = scan.id /\ scan'.compacting = scan.compacting
  BY <1>1, <1>4, <1>9, <1>11 DEF Scans
<1>13. QED
  BY <1>3, <1>7, <1>8, <1>9, <1>10, <1>12 DEF D, K

(* What writing the index leaves, when it compacts.                        *)
LEMMA WriteIndexCompacts ==
  ASSUME LibraryTyped, WriteIndex, Compacting
  PROVE  /\ DOMAIN scan'.next = DOMAIN scan.next
         /\ \A f \in DOMAIN scan.next : /\ scan'.next[f].version = scan.next[f].version
                                        /\ scan'.next[f].offset = Offsets(scan.next, 0)[f]
         /\ scan'.next \in Records /\ scan' \in Scans
         /\ scan'.at = "indexed" /\ scan'.compacting = TRUE
         /\ scan'.id \in Ids /\ scan'.id \notin {notes.id, index.id}
         /\ scan'.cells = Compacted(scan.next)
<1> DEFINE D == DOMAIN scan.next
           old == scan.next
           next == [f \in D |-> [old[f] EXCEPT !.offset = Offsets(old, 0)[f]]]
           id == NewId({notes.id, index.id, notes_id})
           cells == Compacted(old)
           size == Live(old)
<1>1. scan \in Scans /\ old \in Records /\ notes.cells \in Seq(Cell)
  BY DEF LibraryTyped, Scans, NotesFiles
<1>2. /\ scan' = [scan EXCEPT !.at = "indexed", !.compacting = TRUE, !.id = id, !.size = size,
                             !.cells = cells, !.next = next]
  BY Zenon DEF WriteIndex, NewOffset, Compacted
<1>3. D \in SUBSET Files
  BY <1>1, RecordIs
<1>4. \A f \in D : /\ [old[f] EXCEPT !.offset = Offsets(old, 0)[f]] \in Record
                   /\ [old[f] EXCEPT !.offset = Offsets(old, 0)[f]].version = old[f].version
                   /\ [old[f] EXCEPT !.offset = Offsets(old, 0)[f]].offset = Offsets(old, 0)[f]
  <2> TAKE f \in D
  <2> DEFINE o == Offsets(old, 0)[f]
             r == old[f]
  <2>1. o \in Nat
    <3>1. 0 \in Nat
      OBVIOUS
    <3>2. QED
      BY <1>3, <3>1, OffsetsAre
  <2>2. r \in Record
    BY <1>1, RecordIs
  <2> HIDE DEF o, r
  <2>3. [r EXCEPT !.offset = o] \in Record /\ [r EXCEPT !.offset = o].version = r.version
        /\ [r EXCEPT !.offset = o].offset = o
    BY <2>1, <2>2 DEF Record
  <2>4. QED
    BY <2>3 DEF o, r
<1>5. next \in [D -> Record] /\ \A f \in D : /\ next[f].version = old[f].version
                                             /\ next[f].offset = Offsets(old, 0)[f]
  <2>1. \A f \in D : next[f] = [old[f] EXCEPT !.offset = Offsets(old, 0)[f]]
    OBVIOUS
  <2>2. \A f \in D : next[f] \in Record
    BY <1>4, <2>1
  <2>3. next \in [D -> Record]
    BY <1>4
  <2> HIDE DEF next
  <2>4. QED
    BY <1>4, <2>1, <2>3
<1> HIDE DEF next
<1>6. next \in Records /\ DOMAIN next = D
  BY <1>3, <1>5, AreRecordsOf
<1>7. id \in Ids /\ id \notin {notes.id, index.id, notes_id}
  BY NewIdIsNew
<1>8. cells \in Seq(Cell)
  <2> HIDE DEF old
  <2> QED
    BY <1>1, <1>5, <1>6, CompactedRight DEF D, old
<1>9. size \in Nat
  <2>1. IsFiniteSet(D) /\ \A f \in D : Size[f] \in Nat
    BY <1>3, FilesAreFinite
  <2>2. SumOver(Size, D) \in Nat
    <3> HIDE DEF D
    <3> QED
      BY <2>1, SumOfNats
  <2>3. size = SumOver(Size, D)
    BY SumOfFunction DEF Live
  <2>4. QED
    BY <2>2, <2>3
<1>10. "indexed" \in Stages
  BY DEF Stages
<1> HIDE DEF D, id, cells, size
<1>11. /\ scan' \in Scans /\ scan'.next = next /\ scan'.at = "indexed" /\ scan'.compacting = TRUE
       /\ scan'.id = id /\ scan'.cells = cells
  BY <1>1, <1>2, <1>6, <1>7, <1>8, <1>9, <1>10 DEF Scans
<1>12. QED
  BY <1>5, <1>6, <1>7, <1>11 DEF D, cells

(* So does each step of a rewrite: the index and notes it makes are typed. *)
LEMMA RewriteTyped ==
  ASSUME LibraryTyped, IdsRight, Rewrite
  PROVE  LibraryTyped'
<1>1. /\ folder \in [Files -> Versions \cup {0}] /\ index \in Indexes /\ notes \in NotesFiles
      /\ scan \in Scans /\ slipped \in BOOLEAN /\ records \in Records
  BY DEF LibraryTyped
<1>2. [NoScan EXCEPT !.at = "saving"] \in Scans /\ NoFile \in NotesFiles
  BY NoScanTyped DEF Stages
<1>3. CASE Prepare
  <2>1. UNCHANGED <<folder, index, spent>>
    BY <1>3, Zenon DEF Prepare
  <2>2. CASE ~Fresh
    <3>1. /\ scan' = [scan EXCEPT !.at = "prepared", !.id = notes_id, !.size = notes_size]
          /\ UNCHANGED <<notes, records, notes_id, notes_size, slipped>>
      BY <1>3, <2>2, Zenon DEF Prepare
    <3>2. notes_id \in Ids \cup {NoId} /\ notes_size \in Nat /\ "prepared" \in Stages
      BY DEF LibraryTyped, Stages
    <3>3. scan' \in Scans
      BY <1>1, <3>1, <3>2 DEF Scans
    <3>4. QED
      BY <1>1, <2>1, <3>1, <3>3, PlainTyped DEF Forgets
  <2>3. CASE Fresh
    <3> DEFINE id == NewId({notes.id, index.id})
    <3>1. /\ Forget /\ slipped' = FALSE /\ notes' = [id |-> id, cells |-> <<>>]
          /\ scan' = [scan EXCEPT !.at = "prepared", !.id = id]
      BY <1>3, <2>3, Zenon DEF Prepare
    <3>2. id \in Ids /\ <<>> \in Seq(Cell) /\ "prepared" \in Stages
      BY NewIdIsNew, EmptySeq DEF Stages
    <3> HIDE DEF id
    <3>3. scan' \in Scans /\ notes' \in NotesFiles
      BY <1>1, <3>1, <3>2 DEF Scans, NotesFiles
    <3>4. QED
      BY <1>1, <2>1, <3>1, <3>3, PlainTyped DEF Forgets
  <2>4. QED
    BY <2>2, <2>3
<1>4. CASE PrepareFails
  <2>1. /\ Event /\ Forget /\ slipped' = FALSE /\ notes' \in {notes, NoFile} /\ Fail
        /\ UNCHANGED <<folder, index>>
    BY <1>4, Zenon DEF PrepareFails
  <2>2. QED
    BY <1>1, <1>2, <2>1, PlainTyped DEF Forgets, Fail
<1>5. CASE AppendNotes
  <2>1. /\ notes' = [notes EXCEPT !.cells = @ \o Written]
        /\ slipped' = (slipped \/ (Len(notes.cells) # scan.size /\ Written # <<>>))
        /\ UNCHANGED <<folder, index, records, notes_id, notes_size, spent>>
    BY <1>5, Zenon DEF AppendNotes
  <2>2. notes' \in NotesFiles
    BY <2>1, WrittenTyped, AppendTyped
  <2>3. slipped' \in BOOLEAN
    BY <1>1, <2>1
  <2>4. QED
    BY <1>1, <1>5, <2>1, <2>2, <2>3, AppendNotesIndex, PlainTyped DEF Forgets
<1>6. CASE AppendFails
  <2>1. /\ Event /\ notes' \in PartlyWritten /\ Fail
        /\ UNCHANGED <<folder, index, records, notes_id, notes_size, slipped>>
    BY <1>6, Zenon DEF AppendFails
  <2>2. notes' \in NotesFiles
    BY <2>1, PartlyWrittenTyped
  <2>3. QED
    BY <1>1, <1>2, <2>1, <2>2, PlainTyped DEF Forgets, Fail
<1>7. CASE WriteIndex
  <2>1. UNCHANGED <<folder, index, notes, records, notes_id, notes_size, slipped, spent>>
    BY <1>7, Zenon DEF WriteIndex
  <2>2. scan' \in Scans
    <3>1. CASE Compacting
      BY <1>7, <3>1, WriteIndexCompacts
    <3>2. CASE ~Compacting
      <4>1. scan' = [scan EXCEPT !.at = "indexed"]
        BY <1>7, <3>2, Zenon DEF WriteIndex
      <4>2. QED
        BY <1>1, <4>1 DEF Scans, Stages
    <3>3. QED
      BY <3>1, <3>2
  <2>3. QED
    BY <1>1, <2>1, <2>2, PlainTyped DEF Forgets
<1>8. CASE WriteIndexFails
  <2>1. /\ Event /\ Fail
        /\ UNCHANGED <<folder, index, notes, records, notes_id, notes_size, slipped>>
    BY <1>8, Zenon DEF WriteIndexFails
  <2>2. QED
    BY <1>1, <1>2, <2>1, PlainTyped DEF Forgets, Fail
<1>9. CASE RenameNotes
  <2>1. /\ scan' = [scan EXCEPT !.at = "renaming"]
        /\ notes' = IF scan.compacting THEN [id |-> scan.id, cells |-> scan.cells] ELSE notes
        /\ UNCHANGED <<folder, index, records, notes_id, notes_size, slipped, spent>>
    BY <1>9, Zenon DEF RenameNotes
  <2>2. scan' \in Scans
    BY <1>1, <2>1 DEF Scans, Stages
  <2>3. notes' \in NotesFiles
    BY <1>1, <2>1 DEF Scans, NotesFiles
  <2>4. QED
    BY <1>1, <2>1, <2>2, <2>3, PlainTyped DEF Forgets
<1>10. CASE RenameNotesFails
  <2>1. /\ Event /\ notes' \in {notes, NoFile} /\ Fail
        /\ UNCHANGED <<folder, index, records, notes_id, notes_size, slipped>>
    BY <1>10, Zenon DEF RenameNotesFails
  <2>2. QED
    BY <1>1, <1>2, <2>1, PlainTyped DEF Forgets, Fail
<1>11. CASE RenameIndex
  <2>1. /\ scan.at = "renaming"
        /\ index' = [id |-> scan.id, records |-> scan.next]
        /\ records' = scan.next /\ notes_id' = scan.id /\ notes_size' = scan.size
        /\ scan' = [NoScan EXCEPT !.at = "saving"]
        /\ UNCHANGED <<folder, notes, slipped, spent>>
    BY <1>11, Zenon DEF RenameIndex, Fail
  <2>2. scan.id \in Ids /\ scan.next \in Records /\ scan.size \in Nat /\ scan.id # NoId
    BY <1>1, <2>1 DEF IdsRight, Writing, Scans, Ids, NoId
  <2>3. index' \in Indexes
    BY <2>1, <2>2 DEF Indexes
  <2>4. QED
    BY <1>1, <1>2, <2>1, <2>2, <2>3 DEF LibraryTyped
<1>12. CASE RenameIndexFails
  <2>1. /\ Event /\ index' \in {index, NoIndex} /\ slipped' = (slipped \/ scan.compacting) /\ Fail
        /\ UNCHANGED <<folder, notes, records, notes_id, notes_size>>
    BY <1>12, Zenon DEF RenameIndexFails
  <2>2. slipped' \in BOOLEAN
    BY <1>1, <2>1 DEF Scans
  <2>3. QED
    BY <1>1, <1>2, <2>1, <2>2, PlainTyped DEF Forgets, Fail
<1>13. QED
  BY <1>3, <1>4, <1>5, <1>6, <1>7, <1>8, <1>9, <1>10, <1>11, <1>12, Zenon DEF Rewrite

(* A save, and what else concerns only the difficulties.                   *)
LEMMA SavesTyped ==
  ASSUME LibraryTyped, (\E s \in Savers : SaveStep(s)) \/ NothingToSave
  PROVE  LibraryTyped'
<1>1. /\ folder \in [Files -> Versions \cup {0}] /\ index \in Indexes /\ notes \in NotesFiles
      /\ scan \in Scans /\ slipped \in BOOLEAN
  BY DEF LibraryTyped
<1>2. /\ UNCHANGED <<folder, index, notes, records, notes_id, notes_size, slipped>>
      /\ scan' \in {scan, NoScan} /\ (spent' = spent \/ Event)
  <2>1. CASE NothingToSave
    BY <2>1, Zenon DEF NothingToSave, Done
  <2>2. ASSUME NEW s \in Savers, SaveStep(s)
        PROVE  \/ UNCHANGED libraryVars
               \/ Done /\ (spent' = spent \/ Event)
               \/ Event /\ UNCHANGED <<folder, index, notes, records, notes_id, notes_size, scan, slipped>>
    BY <2>2, Zenon DEF SaveStep
  <2>3. CASE \E s \in Savers : SaveStep(s)
    <3>1. \/ UNCHANGED libraryVars
          \/ Done /\ (spent' = spent \/ Event)
          \/ Event /\ UNCHANGED <<folder, index, notes, records, notes_id, notes_size, scan, slipped>>
      BY <2>2, <2>3, Zenon
    <3>2. QED
      BY <3>1 DEF Done, libraryVars
  <2>4. QED
    BY <2>1, <2>3
<1>3. QED
  BY <1>1, <1>2, PlainTyped, NoScanTyped DEF Forgets

(* So does every step.                                                     *)
LEMMA NextKeepsTyped ==
  ASSUME LibraryTyped, IdsRight, [Next]_vars
  PROVE  LibraryTyped'
<1>1. CASE \E f \in Files : Edit(f)
  BY <1>1, ScansTyped
<1>2. CASE Load \/ Rebuild \/ ScanFolder \/ Crash
  BY <1>2, ScansTyped
<1>3. CASE StoreDifficulty \/ ForgetDifficulties \/ UNCHANGED vars
  <2>1. UNCHANGED libraryVars
    BY <1>3, Zenon DEF StoreDifficulty, ForgetDifficulties, vars
  <2>2. QED
    BY <2>1, ScansTyped
<1>4. CASE Rewrite
  BY <1>4, RewriteTyped
<1>5. CASE (\E s \in Savers : SaveStep(s)) \/ NothingToSave
  BY <1>5, SavesTyped
<1>6. QED
  BY <1>1, <1>2, <1>3, <1>4, <1>5, Zenon DEF Next

-----------------------------------------------------------------------------
(* The notes stay right. *)

(* While no rewrite is under way, nothing is asked of its index or id.     *)
LEMMA AtRest ==
  ASSUME scan'.at \notin Writing, scan'.compacting = FALSE
  PROVE  IdsRight' /\ NextRight'
BY DEF IdsRight, NextRight, Writing

(* The notes file as it was, or with some more appended.                   *)
Grown(more) == more \in Seq(Cell) /\ notes'.id = notes.id /\ notes'.cells = notes.cells \o more
NotesKept == UNCHANGED notes \/ \E more \in Seq(Cell) : Grown(more)

(* Records that are right stay right while notes are kept or appended.     *)
LEMMA RightWhenKept ==
  ASSUME LibraryTyped, NotesKept, NEW rec \in Records, Right(rec, notes.cells)
  PROVE  Right(rec, notes'.cells)
<1>1. CASE UNCHANGED notes
  BY <1>1
<1>2. CASE \E more \in Seq(Cell) : Grown(more)
  <2>1. PICK more \in Seq(Cell) : notes'.cells = notes.cells \o more
    BY <1>2, Zenon DEF Grown
  <2>2. notes.cells \in Seq(Cell)
    BY DEF LibraryTyped, NotesFiles
  <2>3. QED
    BY <2>1, <2>2, RightStays
<1>3. QED
  BY <1>1, <1>2 DEF NotesKept

(* The index on disk stays right, or is of no notes.                       *)
LEMMA IndexStaysRight ==
  ASSUME LibraryTyped, IndexRight, index' \in {index, NoIndex}, ~slipped' => ~slipped,
         NotesKept \/ notes' = NoFile
  PROVE  IndexRight'
<1>1. SUFFICES ASSUME index'.id # NoId, notes'.id = index'.id, ~slipped'
               PROVE  Right(index'.records, notes'.cells)
  BY Zenon DEF IndexRight, Matches
<1>2. index' = index
  BY <1>1 DEF NoIndex
<1>3. NotesKept /\ notes'.id = notes.id
  BY <1>1 DEF NoFile, NotesKept, Grown
<1>4. Right(index.records, notes.cells)
  BY <1>1, <1>2, <1>3 DEF IndexRight, Matches
<1>5. index.records \in Records
  BY DEF LibraryTyped, Indexes
<1>6. QED
  BY <1>2, <1>3, <1>4, <1>5, RightWhenKept

(* The records stay right.                                                 *)
LEMMA RecordsStayRight ==
  ASSUME LibraryTyped, RecordsRight, scan.at # "renaming", UNCHANGED records,
         ~slipped' => ~slipped, notes' \in {notes, NoFile} \/ (notes # NoFile /\ NotesKept)
  PROVE  RecordsRight'
<1>1. SUFFICES ASSUME ~slipped', notes' # NoFile PROVE Right(records', notes'.cells)
  BY Zenon DEF RecordsRight
<1>2. NotesKept /\ notes # NoFile
  BY <1>1 DEF NotesKept
<1>3. Right(records, notes.cells)
  BY <1>1, <1>2 DEF RecordsRight
<1>4. records \in Records
  BY DEF LibraryTyped
<1>5. QED
  BY <1>2, <1>3, <1>4, RightWhenKept

(* The saves of the difficulties: who saves, after a step of the cache.    *)
LEMMA SaverIs ==
  ASSUME SavesLast, saver' = saver \/ saver' = NoSaver,
         scan.at = "saving" => scan'.at = "saving"
  PROVE  SavesLast'
<1>1. saver' = "scan" => saver = "scan"
  BY LibraryAssumption, SaversAssumption
<1>2. QED
  BY <1>1 DEF SavesLast

(* A step that only changes the folder, or stores or forgets difficulties. *)
LEMMA OutsideSound ==
  ASSUME LibraryTyped, Sound,
         UNCHANGED <<index, notes, records, notes_id, scan, slipped, saver>>
  PROVE  Sound'
<1>1. UNCHANGED index /\ UNCHANGED notes /\ UNCHANGED records /\ UNCHANGED notes_id
      /\ UNCHANGED scan /\ UNCHANGED slipped /\ UNCHANGED saver
  OBVIOUS
<1>2. IndexRight' /\ IdKnown'
  BY <1>1 DEF Sound, IndexRight, IdKnown
<1>3. IdsRight' /\ NextRight'
  BY <1>1 DEF Sound, IdsRight, NextRight
<1>4. RecordsRight' /\ SavesLast'
  BY <1>1 DEF Sound, RecordsRight, SavesLast
<1>5. QED
  BY <1>2, <1>3, <1>4 DEF Sound

(* A step of a rewrite that gives it up: what is on disk stays, is gone,   *)
(* or has some more notes.                                                 *)
LEMMA FailSound ==
  ASSUME LibraryTyped, Sound, Fail, scan.at \in Writing \cup {"scanned"}, scan.at # "renaming",
         UNCHANGED <<index, records, notes_id, slipped, saver>>,
         notes' \in {notes, NoFile} \/ (notes # NoFile /\ NotesKept)
  PROVE  Sound'
<1>1. scan'.at = "saving" /\ scan'.compacting = FALSE
  BY DEF Fail, NoScan
<1>2. IdsRight' /\ NextRight'
  BY <1>1, AtRest DEF Writing
<1>3. IndexRight'
  BY IndexStaysRight DEF Sound, NotesKept
<1>4. RecordsRight'
  BY RecordsStayRight DEF Sound
<1>5. SavesLast'
  BY <1>1, SaverIs DEF Sound
<1>6. IdKnown'
  <2>1. SUFFICES ASSUME index'.id # NoId, notes'.id = index'.id PROVE notes_id' = index'.id
    BY Zenon DEF IdKnown, Matches
  <2>2. index.id # NoId /\ notes.id = index.id
    BY <2>1 DEF NotesKept, Grown, NoFile
  <2>3. scan.at # "boot"
    BY DEF Writing
  <2>4. QED
    BY <2>2, <2>3 DEF Sound, IdKnown, Matches
<1>7. QED
  BY <1>2, <1>3, <1>4, <1>5, <1>6 DEF Sound

(* Booting, rebuilding and dying.                                          *)
LEMMA ScansSound ==
  ASSUME LibraryTyped, Sound, Load \/ Rebuild \/ ScanFolder \/ Crash
  PROVE  Sound'
<1>1. CASE Load
  <2>1. /\ scan.at = "boot" /\ scan' = NoScan /\ UNCHANGED <<index, notes, saver>>
    BY <1>1, Zenon DEF Load, cacheVars
  <2>2. scan'.at = "idle" /\ scan'.compacting = FALSE
    BY <2>1 DEF NoScan
  <2>3. IdsRight' /\ NextRight' /\ SavesLast'
    <3>1. saver # "scan"
      BY <2>1 DEF Sound, SavesLast
    <3>2. QED
      BY <2>1, <2>2, <3>1, AtRest DEF Writing, SavesLast
  <2>4. CASE Matches(index, notes)
    <3>1. /\ records' = index.records /\ notes_id' = index.id /\ UNCHANGED slipped
      BY <1>1, <2>4, Zenon DEF Load
    <3>2. IndexRight' /\ IdKnown'
      BY <2>1, <3>1 DEF Sound, IndexRight, IdKnown
    <3>3. RecordsRight'
      BY <2>1, <2>4, <3>1 DEF Sound, IndexRight, RecordsRight
    <3>4. QED
      BY <2>3, <3>2, <3>3 DEF Sound
  <2>5. CASE ~Matches(index, notes)
    <3>1. records' = <<>>
      BY <1>1, <2>5, Zenon DEF Load, Forget
    <3>2. ~Matches(index', notes')
      BY <2>1, <2>5
    <3>3. IndexRight' /\ IdKnown'
      BY <3>2 DEF IndexRight, IdKnown
    <3>4. RecordsRight'
      BY <3>1, NoRecords DEF RecordsRight
    <3>5. QED
      BY <2>3, <3>3, <3>4 DEF Sound
  <2>6. QED
    BY <2>4, <2>5
<1>2. CASE Rebuild
  <2>1. /\ scan.at = "idle" /\ UNCHANGED scan /\ UNCHANGED saver
        /\ records' = <<>> /\ index' = NoIndex
    BY <1>2, Zenon DEF Rebuild, cacheVars, Forget
  <2>2. ~Matches(index', notes')
    BY <2>1 DEF Matches, NoIndex
  <2>3. IndexRight' /\ IdKnown'
    BY <2>2 DEF IndexRight, IdKnown
  <2>4. RecordsRight'
    BY <2>1, NoRecords DEF RecordsRight
  <2>5. IdsRight' /\ NextRight' /\ SavesLast'
    BY <2>1 DEF Sound, IdsRight, NextRight, SavesLast, Writing
  <2>6. QED
    BY <2>3, <2>4, <2>5 DEF Sound
<1>3. CASE ScanFolder
  <2>1. /\ scan.at = "idle"
        /\ UNCHANGED <<index, notes, records, notes_id, slipped, saver>>
        /\ \E at \in {"scanned", "saving"} : \E keep, new :
             scan' = [NoScan EXCEPT !.at = at, !.keep = keep, !.new = new]
    BY <1>3, Zenon DEF ScanFolder, cacheVars
  <2>2. scan'.at \in {"scanned", "saving"} /\ scan'.compacting = FALSE
    BY <2>1 DEF NoScan
  <2>3. IdsRight' /\ NextRight'
    BY <2>2, AtRest DEF Writing
  <2>4. SavesLast'
    BY <2>1, SaverIs DEF Sound
  <2>5. IndexRight' /\ IdKnown' /\ RecordsRight'
    BY <2>1, <2>2 DEF Sound, IndexRight, IdKnown, RecordsRight
  <2>6. QED
    BY <2>3, <2>4, <2>5 DEF Sound
<1>4. CASE Crash
  <2>1. /\ records' = <<>> /\ scan' = [NoScan EXCEPT !.at = "boot"]
        /\ UNCHANGED <<index, slipped>> /\ saver' = NoSaver
    BY <1>4, Zenon DEF Crash, Forget, LoadCache
  <2>2. scan'.at = "boot" /\ scan'.compacting = FALSE
    BY <2>1 DEF NoScan
  <2>3. IdsRight' /\ NextRight'
    BY <2>2, AtRest DEF Writing
  <2>4. SavesLast'
    BY <2>1, LibraryAssumption, SaversAssumption DEF SavesLast
  <2>5. IdKnown'
    BY <2>2 DEF IdKnown
  <2>6. RecordsRight'
    BY <2>1, NoRecords DEF RecordsRight
  <2>7. NotesKept
    <3>1. CASE notes' \in PartlyWritten
      BY <3>1, PartlyWrittenTyped DEF NotesKept, Grown
    <3>2. CASE notes' = notes
      BY <3>2 DEF NotesKept
    <3>3. QED
      BY <1>4, <3>1, <3>2 DEF Crash
  <2>8. IndexRight'
    BY <2>1, <2>7, IndexStaysRight DEF Sound
  <2>9. QED
    BY <2>3, <2>4, <2>5, <2>6, <2>8 DEF Sound
<1>5. QED
  BY <1>1, <1>2, <1>3, <1>4

(* A rewrite's steps: preparing the notes file, appending to it, writing   *)
(* the index and putting both in place, and the failure of each.           *)
LEMMA PrepareSound ==
  ASSUME LibraryTyped, Sound, Prepare \/ PrepareFails
  PROVE  Sound'
<1>1. scan \in Scans /\ notes_id \in Ids \cup {NoId} /\ scan.at = "scanned"
  BY DEF LibraryTyped, Prepare, PrepareFails
<1>2. CASE Prepare /\ ~Fresh
  <2>1. /\ scan' = [scan EXCEPT !.at = "prepared", !.id = notes_id, !.size = notes_size]
        /\ UNCHANGED <<index, notes, records, notes_id, slipped, saver>>
    BY <1>2, Zenon DEF Prepare, cacheVars
  <2>2. notes_id \in Ids /\ notes.id = notes_id
    BY <1>1, <1>2 DEF Fresh, NoId
  <2>3. scan'.at = "prepared" /\ scan'.id = notes_id /\ scan'.compacting = scan.compacting
    BY <1>1, <2>1 DEF Scans
  <2>4. IdsRight'
    BY <1>1, <2>1, <2>2, <2>3 DEF Sound, IdsRight
  <2>5. NextRight'
    BY <2>3 DEF NextRight
  <2>6. SavesLast'
    BY <1>1, <2>1, SaverIs DEF Sound
  <2>7. IndexRight' /\ IdKnown' /\ RecordsRight'
    BY <1>1, <2>1, <2>3 DEF Sound, IndexRight, IdKnown, RecordsRight
  <2>8. QED
    BY <2>4, <2>5, <2>6, <2>7 DEF Sound
<1>3. CASE Prepare /\ Fresh
  <2> DEFINE id == NewId({notes.id, index.id})
  <2>1. /\ records' = <<>> /\ notes' = [id |-> id, cells |-> <<>>]
        /\ scan' = [scan EXCEPT !.at = "prepared", !.id = id]
        /\ UNCHANGED <<index, saver>>
    BY <1>3, Zenon DEF Prepare, Forget, cacheVars
  <2>2. id \in Ids /\ id # index.id
    BY NewIdIsNew
  <2> HIDE DEF id
  <2>3. scan'.at = "prepared" /\ scan'.id = id /\ scan'.compacting = scan.compacting
    BY <1>1, <2>1 DEF Scans
  <2>4. notes'.id = id /\ ~Matches(index', notes')
    BY <2>1, <2>2 DEF Matches
  <2>5. IdsRight'
    BY <1>1, <2>2, <2>3, <2>4 DEF Sound, IdsRight
  <2>6. NextRight' /\ IndexRight' /\ IdKnown'
    BY <2>3, <2>4 DEF NextRight, IndexRight, IdKnown
  <2>7. RecordsRight'
    BY <2>1, NoRecords DEF RecordsRight
  <2>8. SavesLast'
    BY <1>1, <2>1, SaverIs DEF Sound
  <2>9. QED
    BY <2>5, <2>6, <2>7, <2>8 DEF Sound
<1>4. CASE PrepareFails
  <2>1. /\ records' = <<>> /\ notes' \in {notes, NoFile} /\ scan' = [NoScan EXCEPT !.at = "saving"]
        /\ UNCHANGED <<index, saver>> /\ Fresh
    BY <1>4, Zenon DEF PrepareFails, Forget, cacheVars, Fail
  <2>2. scan'.at = "saving" /\ scan'.compacting = FALSE
    BY <2>1 DEF NoScan
  <2>3. IdsRight' /\ NextRight'
    BY <2>2, AtRest DEF Writing
  <2>4. ~Matches(index, notes)
    <3>1. SUFFICES ASSUME index.id # NoId, notes.id = index.id PROVE FALSE
      BY DEF Matches
    <3>2. notes_id = index.id
      BY <1>1, <3>1 DEF Sound, IdKnown, Matches
    <3>3. QED
      BY <2>1, <3>1, <3>2 DEF Fresh
  <2>5. ~Matches(index', notes')
    BY <2>1, <2>4 DEF Matches, NoFile
  <2>6. IndexRight' /\ IdKnown'
    BY <2>5 DEF IndexRight, IdKnown
  <2>7. RecordsRight'
    BY <2>1, NoRecords DEF RecordsRight
  <2>8. SavesLast'
    BY <2>1, <2>2, SaverIs DEF Sound
  <2>9. QED
    BY <2>3, <2>6, <2>7, <2>8 DEF Sound
<1>5. QED
  BY <1>2, <1>3, <1>4

(* Appended behind the end of the file, the next index is right.           *)
LEMMA AppendSound ==
  ASSUME LibraryTyped, Sound, AppendNotes \/ AppendFails
  PROVE  Sound'
<1>1. /\ scan.at = "prepared" /\ scan.id \in Ids /\ scan.id = notes.id /\ ~scan.compacting
      /\ notes # NoFile
  <2>1. scan.at = "prepared"
    BY Zenon DEF AppendNotes, AppendFails
  <2>2. scan.id \in Ids /\ scan.id = notes.id /\ ~scan.compacting
    BY <2>1 DEF Sound, IdsRight, Writing
  <2>3. notes # NoFile
    BY <2>2 DEF NoFile, Ids, NoId
  <2>4. QED
    BY <2>1, <2>2, <2>3
<1>2. CASE AppendFails
  <2>1. /\ notes' \in PartlyWritten /\ Fail
        /\ UNCHANGED <<index, records, notes_id, slipped, saver>>
    BY <1>2, Zenon DEF AppendFails, cacheVars
  <2>2. NotesKept
    BY <2>1, PartlyWrittenTyped DEF NotesKept, Grown
  <2>3. QED
    BY <1>1, <2>1, <2>2, FailSound DEF Writing
<1>3. CASE AppendNotes
  <2>1. /\ notes' = [notes EXCEPT !.cells = @ \o Written]
        /\ slipped' = (slipped \/ (Len(notes.cells) # scan.size /\ Written # <<>>))
        /\ UNCHANGED <<index, records, notes_id, saver>>
    BY <1>3, Zenon DEF AppendNotes, cacheVars
  <2>2. Written \in Seq(Cell) /\ Grown(Written)
    BY <2>1, WrittenTyped, AppendTyped DEF Grown
  <2>3. NotesKept
    BY <2>2 DEF NotesKept
  <2>4. scan'.at = "appended" /\ scan'.id = scan.id /\ scan'.compacting = scan.compacting
    BY <1>3, AppendNotesIndex
  <2>5. IndexRight'
    BY <2>1, <2>3, IndexStaysRight DEF Sound
  <2>6. RecordsRight'
    BY <1>1, <2>1, <2>3, RecordsStayRight DEF Sound
  <2>7. IdsRight'
    BY <1>1, <2>2, <2>4 DEF IdsRight, Grown
  <2>8. SavesLast'
    BY <1>1, <2>1, SaverIs DEF Sound
  <2>9. IdKnown'
    BY <1>1, <2>1, <2>2 DEF Sound, IdKnown, Matches, Grown
  <2>10. NextRight'
    <3>1. SUFFICES ASSUME ~slipped' PROVE Right(scan'.next, notes'.cells)
      BY <2>4 DEF NextRight
    <3> DEFINE s == notes.cells
               rec == records
               new == scan.new
               size == scan.size
               next == scan'.next
               K == Kept
    <3>2. Right(rec, s)
      BY <1>1, <2>1, <3>1 DEF Sound, RecordsRight
    <3>3. Len(s) = size \/ Cells(DOMAIN new, new) = <<>>
      BY <2>1, <3>1 DEF Written
    <3>4. rec \in Records /\ s \in Seq(Cell) /\ new \in Contents /\ size \in Nat
      BY DEF LibraryTyped, Scans, NotesFiles
    <3>5. /\ DOMAIN next = DOMAIN new \cup K /\ K \subseteq DOMAIN rec
          /\ \A f \in DOMAIN new : /\ next[f].version = new[f]
                                   /\ next[f].offset = Offsets(new, size)[f]
          /\ \A f \in K \ DOMAIN new : next[f] = rec[f]
      BY <1>3, AppendNotesIndex
    <3> HIDE DEF s, rec, new, size, next, K
    <3>6. Right(next, s \o Cells(DOMAIN new, new))
      BY <3>2, <3>3, <3>4, <3>5, AppendedRight
    <3>7. notes'.cells = s \o Cells(DOMAIN new, new)
      BY <2>2 DEF Grown, Written, s, new
    <3>8. QED
      BY <3>6, <3>7 DEF next
  <2>11. QED
    BY <2>5, <2>6, <2>7, <2>8, <2>9, <2>10 DEF Sound
<1>4. QED
  BY <1>2, <1>3

(* Compacting keeps it right, about the notes to come.                     *)
LEMMA WriteIndexSound ==
  ASSUME LibraryTyped, Sound, WriteIndex \/ WriteIndexFails
  PROVE  Sound'
<1>1. /\ scan.at = "appended" /\ scan.id \in Ids /\ scan.id = notes.id /\ ~scan.compacting
      /\ notes # NoFile
  <2>1. scan.at = "appended"
    BY Zenon DEF WriteIndex, WriteIndexFails
  <2>2. scan.id \in Ids /\ scan.id = notes.id /\ ~scan.compacting
    BY <2>1 DEF Sound, IdsRight, Writing
  <2>3. notes # NoFile
    BY <2>2 DEF NoFile, Ids, NoId
  <2>4. QED
    BY <2>1, <2>2, <2>3
<1>2. CASE WriteIndexFails
  <2>1. Fail /\ UNCHANGED <<index, notes, records, notes_id, slipped, saver>>
    BY <1>2, Zenon DEF WriteIndexFails, cacheVars
  <2>2. QED
    BY <1>1, <2>1, FailSound DEF Writing
<1>3. CASE WriteIndex
  <2>1. UNCHANGED <<index, notes, records, notes_id, slipped, saver>>
    BY <1>3, Zenon DEF WriteIndex, cacheVars
  <2>2. scan \in Scans /\ scan.next \in Records /\ notes.cells \in Seq(Cell)
    BY DEF LibraryTyped, Scans, NotesFiles
  <2>3. /\ scan'.at = "indexed" /\ scan'.id \in Ids
        /\ scan'.compacting => scan'.id # index.id
        /\ ~scan'.compacting => scan'.id = notes.id
        /\ ~slipped => Right(scan'.next, IF scan'.compacting THEN scan'.cells ELSE notes.cells)
    <3>1. CASE Compacting
      <4>1. /\ scan'.at = "indexed" /\ scan'.id \in Ids /\ scan'.compacting = TRUE
            /\ scan'.id # index.id /\ scan'.cells = Compacted(scan.next)
        BY <1>3, <3>1, WriteIndexCompacts
      <4>2. ASSUME ~slipped PROVE Right(scan'.next, Compacted(scan.next))
        <5> DEFINE next == scan.next
                   moved == scan'.next
        <5>1. Right(next, notes.cells)
          BY <1>1, <4>2 DEF Sound, NextRight
        <5>2. /\ DOMAIN moved = DOMAIN next
              /\ \A f \in DOMAIN next : /\ moved[f].version = next[f].version
                                        /\ moved[f].offset = Offsets(next, 0)[f]
          BY <1>3, <3>1, WriteIndexCompacts
        <5>3. next \in Records
          BY <2>2
        <5> HIDE DEF next, moved
        <5>4. Right(moved, Compacted(next))
          BY <2>2, <5>1, <5>2, <5>3, CompactedRight
        <5>5. QED
          BY <5>4 DEF next, moved
      <4>3. QED
        BY <4>1, <4>2
    <3>2. CASE ~Compacting
      <4>1. scan' = [scan EXCEPT !.at = "indexed"]
        BY <1>3, <3>2, Zenon DEF WriteIndex
      <4>2. /\ scan'.at = "indexed" /\ scan'.id = scan.id /\ scan'.next = scan.next
            /\ scan'.compacting = scan.compacting
        BY <2>2, <4>1 DEF Scans
      <4>3. ~slipped => Right(scan.next, notes.cells)
        BY <1>1 DEF Sound, NextRight
      <4>4. QED
        BY <1>1, <4>2, <4>3
    <3>3. QED
      BY <3>1, <3>2
  <2>4. IdsRight'
    BY <1>1, <2>1, <2>3 DEF IdsRight
  <2>5. NextRight'
    BY <2>1, <2>3 DEF NextRight
  <2>6. SavesLast'
    BY <1>1, <2>1, SaverIs DEF Sound
  <2>7. IndexRight' /\ IdKnown' /\ RecordsRight'
    BY <1>1, <2>1, <2>3 DEF Sound, IndexRight, IdKnown, RecordsRight
  <2>8. QED
    BY <2>4, <2>5, <2>6, <2>7 DEF Sound
<1>4. QED
  BY <1>2, <1>3

(* Once compacted notes are in place no index has their id.                *)
LEMMA RenameNotesSound ==
  ASSUME LibraryTyped, Sound, RenameNotes \/ RenameNotesFails
  PROVE  Sound'
<1>1. /\ scan.at = "indexed" /\ scan.id \in Ids /\ notes # NoFile
      /\ IF scan.compacting THEN scan.id # index.id ELSE scan.id = notes.id
  <2>1. scan.at = "indexed"
    BY Zenon DEF RenameNotes, RenameNotesFails
  <2>2. scan.id \in Ids /\ IF scan.compacting THEN notes # NoFile /\ scan.id # index.id
                           ELSE scan.id = notes.id
    BY <2>1 DEF Sound, IdsRight, Writing
  <2>3. scan.id = notes.id => notes # NoFile
    BY <2>2 DEF NoFile, Ids, NoId
  <2>4. QED
    BY <2>1, <2>2, <2>3
<1>2. CASE RenameNotesFails
  <2>1. Fail /\ notes' \in {notes, NoFile} /\ UNCHANGED <<index, records, notes_id, slipped, saver>>
    BY <1>2, Zenon DEF RenameNotesFails, cacheVars
  <2>2. QED
    BY <1>1, <2>1, FailSound DEF Writing
<1>3. CASE RenameNotes
  <2>1. /\ scan' = [scan EXCEPT !.at = "renaming"]
        /\ notes' = IF scan.compacting THEN [id |-> scan.id, cells |-> scan.cells] ELSE notes
        /\ UNCHANGED <<index, records, notes_id, slipped, saver>>
    BY <1>3, Zenon DEF RenameNotes, cacheVars
  <2>2. scan \in Scans
    BY DEF LibraryTyped
  <2>3. /\ scan'.at = "renaming" /\ scan'.id = scan.id /\ scan'.next = scan.next
        /\ scan'.compacting = scan.compacting
    BY <2>1, <2>2 DEF Scans
  <2>4. SavesLast'
    BY <1>1, <2>1, SaverIs DEF Sound
  <2>5. RecordsRight'
    BY <2>3 DEF RecordsRight
  <2>6. CASE scan.compacting
    <3>1. notes'.id = scan.id /\ notes'.cells = scan.cells
      BY <2>1, <2>6
    <3>2. ~Matches(index', notes')
      BY <1>1, <2>1, <2>6, <3>1 DEF Matches
    <3>3. IndexRight' /\ IdKnown'
      BY <3>2 DEF IndexRight, IdKnown
    <3>4. IdsRight'
      BY <1>1, <2>1, <2>3, <2>6, <3>1 DEF IdsRight
    <3>5. NextRight'
      <4>1. ~slipped => Right(scan.next, scan.cells)
        BY <1>1, <2>6 DEF Sound, NextRight
      <4>2. QED
        BY <2>1, <2>3, <2>6, <3>1, <4>1 DEF NextRight
    <3>6. QED
      BY <2>4, <2>5, <3>3, <3>4, <3>5 DEF Sound
  <2>7. CASE ~scan.compacting
    <3>1. UNCHANGED notes
      BY <2>1, <2>7
    <3>2. IndexRight' /\ IdKnown'
      BY <1>1, <2>1, <3>1 DEF Sound, IndexRight, IdKnown
    <3>3. IdsRight'
      BY <1>1, <2>1, <2>3, <2>7, <3>1 DEF IdsRight
    <3>4. NextRight'
      <4>1. ~slipped => Right(scan.next, notes.cells) /\ Right(records, notes.cells)
        BY <1>1, <2>7 DEF Sound, NextRight, RecordsRight
      <4>2. QED
        BY <2>1, <2>3, <2>7, <3>1, <4>1 DEF NextRight
    <3>5. QED
      BY <2>4, <2>5, <3>2, <3>3, <3>4 DEF Sound
  <2>8. QED
    BY <2>6, <2>7
<1>4. QED
  BY <1>2, <1>3

(* Then the index follows, or the records slip if it cannot.               *)
LEMMA RenameIndexSound ==
  ASSUME LibraryTyped, Sound, RenameIndex \/ RenameIndexFails
  PROVE  Sound'
<1>1. scan.at = "renaming" /\ scan' = [NoScan EXCEPT !.at = "saving"] /\ UNCHANGED <<notes, saver>>
  BY Zenon DEF RenameIndex, RenameIndexFails, Fail, cacheVars
<1>2. scan'.at = "saving" /\ scan'.compacting = FALSE
  BY <1>1 DEF NoScan
<1>3. IdsRight' /\ NextRight'
  BY <1>2, AtRest DEF Writing
<1>4. SavesLast'
  BY <1>1, <1>2, SaverIs DEF Sound
<1>5. CASE RenameIndex
  <2>1. /\ index' = [id |-> scan.id, records |-> scan.next] /\ records' = scan.next
        /\ notes_id' = scan.id /\ UNCHANGED slipped
    BY <1>5, Zenon DEF RenameIndex
  <2>2. ~slipped => Right(scan.next, notes.cells)
    BY <1>1 DEF Sound, NextRight
  <2>3. IndexRight' /\ RecordsRight' /\ IdKnown'
    BY <1>1, <2>1, <2>2 DEF IndexRight, RecordsRight, IdKnown
  <2>4. QED
    BY <1>3, <1>4, <2>3 DEF Sound
<1>6. CASE RenameIndexFails
  <2>1. /\ index' \in {index, NoIndex} /\ slipped' = (slipped \/ scan.compacting)
        /\ UNCHANGED records /\ UNCHANGED notes_id
    BY <1>6, Zenon DEF RenameIndexFails
  <2>2. ~slipped' => ~slipped /\ ~scan.compacting
    BY <2>1
  <2>3. ~slipped' => Right(records, notes.cells)
    BY <1>1, <2>2 DEF Sound, NextRight
  <2>4. RecordsRight'
    BY <1>1, <2>1, <2>3 DEF RecordsRight
  <2>5. IndexRight'
    BY <1>1, <2>1, <2>2, IndexStaysRight DEF Sound, NotesKept
  <2>6. IdKnown'
    BY <1>1, <2>1 DEF Sound, IdKnown, Matches, NoIndex
  <2>7. QED
    BY <1>3, <1>4, <2>4, <2>5, <2>6 DEF Sound
<1>7. QED
  BY <1>5, <1>6

(* The end of a scan, and the saves of the difficulties.                   *)
LEMMA SavesSound ==
  ASSUME LibraryTyped, Sound, (\E s \in Savers : SaveStep(s)) \/ NothingToSave
  PROVE  Sound'
<1>1. ASSUME scan.at = "saving", Done, saver' = NoSaver PROVE Sound'
  <2>1. scan'.at = "idle" /\ scan'.compacting = FALSE
        /\ UNCHANGED <<index, notes, records, notes_id, slipped>>
    BY <1>1 DEF Done, NoScan
  <2>2. IdsRight' /\ NextRight'
    BY <2>1, AtRest DEF Writing
  <2>3. SavesLast'
    BY <1>1, LibraryAssumption, SaversAssumption DEF SavesLast
  <2>4. IndexRight' /\ IdKnown' /\ RecordsRight'
    BY <1>1, <2>1 DEF Sound, IndexRight, IdKnown, RecordsRight
  <2>5. QED
    BY <2>2, <2>3, <2>4 DEF Sound
<1>2. ASSUME UNCHANGED <<index, notes, records, notes_id, scan, slipped>>,
             saver' = saver \/ saver' = NoSaver \/ (saver' = "scan" => scan.at = "saving")
      PROVE  Sound'
  <2>1. IdsRight' /\ NextRight' /\ IndexRight' /\ IdKnown' /\ RecordsRight'
    <3>1. UNCHANGED index /\ UNCHANGED notes /\ UNCHANGED records /\ UNCHANGED notes_id
          /\ UNCHANGED scan /\ UNCHANGED slipped
      BY <1>2
    <3>2. IndexRight' /\ IdKnown'
      BY <3>1 DEF Sound, IndexRight, IdKnown
    <3>3. IdsRight' /\ NextRight'
      BY <3>1 DEF Sound, IdsRight, NextRight
    <3>4. RecordsRight'
      BY <3>1 DEF Sound, RecordsRight
    <3>5. QED
      BY <3>2, <3>3, <3>4
  <2>2. SavesLast'
    BY <1>2, LibraryAssumption, SaversAssumption DEF Sound, SavesLast
  <2>3. QED
    BY <2>1, <2>2 DEF Sound
<1>3. CASE NothingToSave
  BY <1>1, <1>3, Zenon DEF NothingToSave, cacheVars
<1>4. ASSUME NEW s \in Savers, SaveStep(s) PROVE Sound'
  <2>1. CASE BeginSave(s) /\ (s = "scan" => scan.at = "saving") /\ UNCHANGED libraryVars
    BY <1>2, <2>1 DEF BeginSave, libraryVars
  <2>2. CASE CopyEntries(s) /\ UNCHANGED libraryVars
    BY <1>2, <2>2 DEF CopyEntries, libraryVars
  <2>3. ASSUME WriteCopy(s) \/ WriteCopyFails(s)
        PROVE  saver = s /\ saver' = NoSaver
    BY <2>3, Zenon DEF WriteCopy, WriteCopyFails
  <2>4. CASE WriteCopy(s) /\ IF s = "scan" THEN Done ELSE UNCHANGED libraryVars
    <3>1. CASE s = "scan"
      BY <1>1, <2>3, <2>4, <3>1 DEF Sound, SavesLast
    <3>2. CASE s # "scan"
      BY <1>2, <2>3, <2>4, <3>2 DEF libraryVars
    <3>3. QED
      BY <3>1, <3>2
  <2>5. CASE /\ WriteCopyFails(s)
             /\ IF s = "scan" THEN Done
                ELSE UNCHANGED <<folder, index, notes, records, notes_id, notes_size, scan, slipped>>
    <3>1. CASE s = "scan"
      BY <1>1, <2>3, <2>5, <3>1 DEF Sound, SavesLast
    <3>2. CASE s # "scan"
      BY <1>2, <2>3, <2>5, <3>2
    <3>3. QED
      BY <3>1, <3>2
  <2>6. QED
    BY <1>4, <2>1, <2>2, <2>4, <2>5, Zenon DEF SaveStep
<1>5. QED
  BY <1>3, <1>4

(* There is no index at first.                                             *)
LEMMA InitSound == Init => Sound
<1> SUFFICES ASSUME Init PROVE Sound
  OBVIOUS
<1>1. /\ index = NoIndex /\ notes = NoFile /\ records = <<>> /\ saver = NoSaver
      /\ scan = [NoScan EXCEPT !.at = "boot"]
  BY Zenon DEF Init, CacheInit
<1>2. scan.at = "boot"
  BY <1>1 DEF NoScan
<1>3. ~Matches(index, notes)
  BY <1>1 DEF Matches, NoIndex
<1>4. IndexRight /\ IdKnown /\ IdsRight /\ NextRight /\ RecordsRight
  BY <1>1, <1>2, <1>3 DEF IndexRight, IdKnown, IdsRight, NextRight, RecordsRight, Writing
<1>5. SavesLast
  BY <1>1, LibraryAssumption, SaversAssumption DEF SavesLast
<1>6. QED
  BY <1>4, <1>5 DEF Sound

(* Every step keeps Sound.                                                 *)
LEMMA NextKeepsSound ==
  ASSUME LibraryTyped, Sound, [Next]_vars
  PROVE  Sound'
<1>1. CASE \E f \in Files : Edit(f)
  <2>1. UNCHANGED <<index, notes, records, notes_id, scan, slipped, saver>>
    BY <1>1, Zenon DEF Edit, cacheVars
  <2>2. QED
    BY <2>1, OutsideSound
<1>2. CASE StoreDifficulty \/ ForgetDifficulties \/ UNCHANGED vars
  <2>1. UNCHANGED libraryVars /\ UNCHANGED saver
    BY <1>2, Zenon DEF StoreDifficulty, Store, ForgetDifficulties, ClearCache, vars, cacheVars
  <2>2. QED
    BY <2>1, OutsideSound DEF libraryVars
<1>3. CASE Load \/ Rebuild \/ ScanFolder \/ Crash
  BY <1>3, ScansSound
<1>4. CASE Rewrite
  BY <1>4, PrepareSound, AppendSound, WriteIndexSound, RenameNotesSound, RenameIndexSound, Zenon
  DEF Rewrite
<1>5. CASE (\E s \in Savers : SaveStep(s)) \/ NothingToSave
  BY <1>5, SavesSound
<1>6. QED
  BY <1>1, <1>2, <1>3, <1>4, <1>5, Zenon DEF Next

(* The cache of difficulties keeps its types too.                          *)
LEMMA CacheStepTyped == CacheTypeOK /\ CacheStep => CacheTypeOK'
<1> SUFFICES ASSUME CacheTypeOK, CacheStep PROVE CacheTypeOK'
  OBVIOUS
<1> USE DEF CacheTypeOK
<1>1. ASSUME NEW new \in SUBSET Keys, Store(new) PROVE CacheTypeOK'
  BY <1>1 DEF Store
<1>2. CASE ClearCache
  BY <1>2 DEF ClearCache
<1>3. ASSUME NEW s \in Savers, BeginSave(s) \/ CopyEntries(s) PROVE CacheTypeOK'
  BY <1>3 DEF BeginSave, CopyEntries
<1>4. ASSUME NEW s \in Savers, WriteCopy(s) \/ WriteCopyFails(s) PROVE CacheTypeOK'
  BY <1>4 DEF WriteCopy, WriteCopyFails, DirtyAfterWrite
<1>5. CASE LoadCache \/ UNCHANGED cacheVars
  BY <1>5 DEF LoadCache, cacheVars
<1>6. QED
  BY <1>1, <1>2, <1>3, <1>4, <1>5, Zenon DEF CacheStep

(* The invariant's types are those that the runs check, and more.          *)
LEMMA TypedIsTypeOK == LibraryTyped /\ CacheTypeOK => TypeOK
<1> SUFFICES ASSUME LibraryTyped, CacheTypeOK PROVE TypeOK
  OBVIOUS
<1>1. /\ folder \in [Files -> Versions \cup {0}] /\ index \in Indexes /\ notes \in NotesFiles
      /\ records \in Records /\ scan \in Scans
      /\ notes_id \in Ids \cup {NoId} /\ (notes_id = NoId => records = <<>>) /\ notes_size \in Nat
      /\ slipped \in BOOLEAN /\ spent \in 0 .. MaxEvents
  BY DEF LibraryTyped
<1>2. \A rec \in Records : AreRecords(rec)
  <2> TAKE rec \in Records
  <2>1. \A f \in DOMAIN rec : f \in Files /\ rec[f] \in Record
    BY RecordIs
  <2>2. QED
    BY <2>1 DEF AreRecords
<1>3. \A i \in DOMAIN notes.cells : notes.cells[i][1] \in Charts
  <2>1. notes.cells \in Seq(Cell)
    BY <1>1 DEF NotesFiles
  <2>2. \A i \in DOMAIN notes.cells : notes.cells[i] \in Cell
    BY <2>1, LenProperties, ElementOfSeq
  <2>3. QED
    BY <2>2 DEF Cell
<1>4. index.id \in Ids \cup {NoId} /\ index.records \in Records /\ notes.id \in Ids \cup {NoId}
  BY <1>1 DEF Indexes, NotesFiles
<1>5. scan.at \in Stages /\ scan.keep \subseteq DOMAIN records \cup Files
  BY <1>1 DEF Scans
<1>6. QED
  BY <1>1, <1>2, <1>3, <1>4, <1>5 DEF TypeOK

(* Records that are right lead to their charts' notes.                     *)
LEMMA SoundIsRight == LibraryTyped /\ Sound => NotesAreRight
<1> SUFFICES ASSUME LibraryTyped, Sound, scan.at # "renaming", ~slipped, notes # NoFile,
                    NEW f \in DOMAIN records
             PROVE  Stored(records, f) = Blob(<<f, records[f].version>>)
  BY Zenon DEF NotesAreRight
<1>1. Right(records, notes.cells)
  BY DEF Sound, RecordsRight
<1>2. records \in Records /\ notes.cells \in Seq(Cell)
  BY DEF LibraryTyped, NotesFiles
<1>3. QED
  BY <1>1, <1>2, StoredIs

(* The invariant holds in every reachable state.                           *)
LEMMA AlwaysSound == Spec => [](LibraryTyped /\ Sound)
<1>1. Init => LibraryTyped /\ Sound
  BY InitTyped, InitSound
<1>2. LibraryTyped /\ Sound /\ [Next]_vars => (LibraryTyped /\ Sound)'
  BY NextKeepsTyped, NextKeepsSound DEF Sound
<1>3. QED
  BY <1>1, <1>2, PTL DEF Spec

(* Every record of the library cache names a chart file, one of its        *)
(* versions and an offset, the ids are of notes files, and no records are  *)
(* kept without one, through every failure and crash.                      *)
THEOREM LibraryTypeCorrect == Spec => []TypeOK
<1>1. CacheInit => CacheTypeOK
  BY DEF CacheInit, CacheTypeOK
<1>2. CacheTypeOK /\ [CacheStep]_cacheVars => CacheTypeOK'
  BY CacheStepTyped DEF CacheStep
<1>3. Spec => []CacheTypeOK
  BY <1>1, <1>2, LibraryRunsTheCache, PTL
<1>4. QED
  BY <1>3, AlwaysSound, TypedIsTypeOK, PTL

(* Whatever fails or dies, a record of the library leads to its own        *)
(* chart's notes, or there are none: the id that index and notes share     *)
(* (LibraryCache.cpp:389) tells old notes from those a record is about.    *)
(* For any number of files of any size, but the two ways offsets slip.     *)
THEOREM NotesAreFound == Spec => []NotesAreRight
BY AlwaysSound, SoundIsRight, PTL

=============================================================================
