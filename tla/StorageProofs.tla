---------------------------- MODULE StorageProofs ----------------------------
(***************************************************************************)
(* What StorageRetention promises for every number of captures, cleanups   *)
(* and policies, every file size and every cap: no IQ is kept without its  *)
(* sidecar, an original is written only where it fits, and a cleanup       *)
(* reaches its cap and removes retained evidence only when nothing cheaper *)
(* is left of what it listed.                                              *)
(*                                                                         *)
(* The invariant says of a capture that its sidecar is as new as its IQ    *)
(* and in the same class, except between the two steps of a writer or of   *)
(* a move; of the cached sum that it is never below what is on disk; and   *)
(* of a cleanup that it has passed nothing of its list but files that are  *)
(* protected or gone, gone files coming back never.                        *)
(***************************************************************************)
EXTENDS StorageRetention, FiniteSetTheorems, FunctionTheorems, TLAPS

-----------------------------------------------------------------------------
(* Bytes of sets of files.                                                 *)

LEMMA SizesPositive ==
    Size["iq"] \in Nat /\ Size["json"] \in Nat /\ Size["iq"] > 0 /\ Size["json"] > 0
BY StorageAssumption DEF Kinds

LEMMA MoreCosts ==
    ASSUME NEW s \in Nat, NEW m \in Nat, NEW n \in Nat, m <= n
    PROVE  s * m <= s * n /\ s * m \in Nat /\ s * (m + 1) = s * m + s
<1>1. PICK d \in Nat : n = m + d
  <2> DEFINE d == n - m
  <2>1. d \in Nat /\ n = m + d
    OBVIOUS
  <2> QED BY <2>1
<1>2. s * n = s * m + s * d /\ s * d \in Nat /\ s * m \in Nat
  BY <1>1
<1> QED BY <1>2

OfKind(S, kind) == {f \in S : f[2] = kind}

LEMMA BytesSum ==
    ASSUME NEW S
    PROVE  Bytes(S) = Size["iq"] * Cardinality(OfKind(S, "iq")) + Size["json"] * Cardinality(OfKind(S, "json"))
BY DEF Bytes, OfKind

LEMMA BytesAreNumbers ==
    ASSUME NEW S, IsFiniteSet(S)
    PROVE  Bytes(S) \in Nat
<1>1. Cardinality(OfKind(S, "iq")) \in Nat /\ Cardinality(OfKind(S, "json")) \in Nat
  BY FS_Subset, FS_CardinalityType DEF OfKind
<1> QED BY <1>1, BytesSum, SizesPositive, MoreCosts

\* Fewer files take no more bytes.
LEMMA BytesShrink ==
    ASSUME NEW T, IsFiniteSet(T), NEW S, S \subseteq T
    PROVE  Bytes(S) <= Bytes(T) /\ IsFiniteSet(S)
<1>0. IsFiniteSet(S)
  BY FS_Subset
<1>1. ASSUME NEW kind
      PROVE  /\ Cardinality(OfKind(S, kind)) \in Nat /\ Cardinality(OfKind(T, kind)) \in Nat
             /\ Cardinality(OfKind(S, kind)) <= Cardinality(OfKind(T, kind))
  <2>1. IsFiniteSet(OfKind(T, kind)) /\ OfKind(S, kind) \subseteq OfKind(T, kind)
    BY FS_Subset DEF OfKind
  <2> QED BY <2>1, FS_Subset, FS_CardinalityType
<1>2. ASSUME NEW kind \in {"iq", "json"}
      PROVE  /\ Size[kind] * Cardinality(OfKind(S, kind)) <= Size[kind] * Cardinality(OfKind(T, kind))
             /\ Size[kind] * Cardinality(OfKind(S, kind)) \in Nat
             /\ Size[kind] * Cardinality(OfKind(T, kind)) \in Nat
  BY <1>1, SizesPositive, MoreCosts
<1>3. /\ Size["iq"] * Cardinality(OfKind(S, "iq")) <= Size["iq"] * Cardinality(OfKind(T, "iq"))
      /\ Size["iq"] * Cardinality(OfKind(S, "iq")) \in Nat /\ Size["iq"] * Cardinality(OfKind(T, "iq")) \in Nat
      /\ Size["json"] * Cardinality(OfKind(S, "json")) <= Size["json"] * Cardinality(OfKind(T, "json"))
      /\ Size["json"] * Cardinality(OfKind(S, "json")) \in Nat /\ Size["json"] * Cardinality(OfKind(T, "json")) \in Nat
  BY <1>2
<1> DEFINE a == Size["iq"] * Cardinality(OfKind(S, "iq"))   b == Size["json"] * Cardinality(OfKind(S, "json"))
           c == Size["iq"] * Cardinality(OfKind(T, "iq"))   d == Size["json"] * Cardinality(OfKind(T, "json"))
<1>4. Bytes(S) = a + b /\ Bytes(T) = c + d
  BY BytesSum
<1>5. a \in Nat /\ b \in Nat /\ c \in Nat /\ d \in Nat /\ a <= c /\ b <= d
  BY <1>3
<1> HIDE DEF a, b, c, d
<1> QED BY <1>0, <1>4, <1>5

\* One more file takes as many bytes as it has.
LEMMA BytesOfOneMore ==
    ASSUME NEW S, IsFiniteSet(S), NEW f \in Files, f \notin S
    PROVE  Bytes(S \cup {f}) = Bytes(S) + Size[f[2]] /\ IsFiniteSet(S \cup {f})
<1> DEFINE U == S \cup {f}
<1>1. f[2] \in {"iq", "json"}
  BY DEF Files, Kinds
<1>2. IsFiniteSet(U)
  BY FS_AddElement
<1>3. IsFiniteSet(OfKind(S, f[2])) /\ f \notin OfKind(S, f[2]) /\ OfKind(U, f[2]) = OfKind(S, f[2]) \cup {f}
  BY FS_Subset DEF OfKind
<1>4. Cardinality(OfKind(U, f[2])) = Cardinality(OfKind(S, f[2])) + 1 /\ Cardinality(OfKind(S, f[2])) \in Nat
  BY <1>3, FS_AddElement, FS_CardinalityType
<1>5. \A kind : kind # f[2] => OfKind(U, kind) = OfKind(S, kind)
  BY DEF OfKind
<1>6. \A kind : Cardinality(OfKind(S, kind)) \in Nat
  BY FS_Subset, FS_CardinalityType DEF OfKind
<1>7. Size[f[2]] * Cardinality(OfKind(U, f[2])) = Size[f[2]] * Cardinality(OfKind(S, f[2])) + Size[f[2]]
  BY <1>1, <1>4, SizesPositive, MoreCosts
<1>8. \A kind \in {"iq", "json"} : Size[kind] * Cardinality(OfKind(S, kind)) \in Nat /\ Size[kind] \in Nat
  BY <1>6, SizesPositive, MoreCosts
<1> DEFINE a == Size["iq"] * Cardinality(OfKind(S, "iq"))   b == Size["json"] * Cardinality(OfKind(S, "json"))
           c == Size["iq"] * Cardinality(OfKind(U, "iq"))   d == Size["json"] * Cardinality(OfKind(U, "json"))
<1>9. Bytes(S) = a + b /\ Bytes(U) = c + d /\ a \in Nat /\ b \in Nat /\ Size["iq"] \in Nat /\ Size["json"] \in Nat
  BY <1>8, BytesSum
<1>10. CASE f[2] = "iq"
  <2>1. c = a + Size["iq"] /\ d = b
    BY <1>5, <1>7, <1>10
  <2> HIDE DEF a, b, c, d
  <2> QED BY <1>2, <1>9, <1>10, <2>1
<1>11. CASE f[2] = "json"
  <2>1. d = b + Size["json"] /\ c = a
    BY <1>5, <1>7, <1>11
  <2> HIDE DEF a, b, c, d
  <2> QED BY <1>2, <1>9, <1>11, <2>1
<1> QED BY <1>1, <1>10, <1>11

LEMMA BytesOfOneLess ==
    ASSUME NEW S, IsFiniteSet(S), NEW f \in Files, f \in S
    PROVE  Bytes(S \ {f}) + Size[f[2]] = Bytes(S)
<1>1. IsFiniteSet(S \ {f}) /\ (S \ {f}) \cup {f} = S
  BY FS_Subset
<1> QED BY <1>1, BytesOfOneMore

\* At most one more file.
LEMMA BytesGrow ==
    ASSUME NEW S, IsFiniteSet(S), NEW f \in Files, NEW T, T \subseteq S \cup {f}
    PROVE  Bytes(T) <= Bytes(S) + Size[f[2]] /\ IsFiniteSet(T) /\ Bytes(T) \in Nat /\ Bytes(S) \in Nat
<1>1. IsFiniteSet(S \cup {f})
  BY FS_AddElement
<1>2. Bytes(T) <= Bytes(S \cup {f}) /\ IsFiniteSet(T)
  BY <1>1, BytesShrink
<1>3. Bytes(S \cup {f}) \in Nat /\ Bytes(S) \in Nat /\ Bytes(T) \in Nat /\ Size[f[2]] \in Nat
  BY <1>1, <1>2, BytesAreNumbers, SizesPositive DEF Files, Kinds
<1>4. CASE f \in S
  <2>1. S \cup {f} = S
    BY <1>4
  <2>2. Bytes(S \cup {f}) = Bytes(S)
    BY <2>1
  <2> QED BY <1>2, <1>3, <2>2
<1>5. CASE f \notin S
  BY <1>2, <1>3, <1>5, BytesOfOneMore
<1> QED BY <1>4, <1>5

-----------------------------------------------------------------------------
(* The inductive invariant.                                                *)

Records == [class : Classes \cup {"none"}, mtime : 0..MaxTime]
Ends == [pc : {"idle", "rename", "sidecar", "store", "remove", "done"}, dest : Classes \cup {"none"}]
Cleanups == [pc : {"idle", "decide", "quarantine", "expire", "list", "prune", "compact",
                   "reconcile", "finish", "status"},
             full : BOOLEAN, policy : PolicyRecords, seen : BOOLEAN, list : Seq(Entries),
             listed : SUBSET Entries, total : Nat, error : BOOLEAN]

StorageTyped ==
    /\ disk \in [Files -> Records]
    /\ captured \in [All -> 0..MaxTime \cup {None}]
    /\ row \in [All -> Classes \cup {"none"}]
    /\ archiving \in All \cup {None}
    /\ cached \in Nat \cup {None}
    /\ analysis \in [Captures -> Ends]
    /\ cleaner \in [Cleaners -> Cleanups]
    /\ \A k \in Cleaners : /\ ToSet(cleaner[k].list) \subseteq cleaner[k].listed
                           /\ cleaner[k].pc = "idle" => cleaner[k] = NoCleaner
    /\ flags \in [pruning : BOOLEAN, refreshing : BOOLEAN]
    /\ policy \in PolicyRecords
    /\ journal \in Nat /\ now \in 0..MaxTime /\ cleanups \in 0..MaxCleanups

Existing == {f \in Files : Exists(f)}

\* A file that was written; once gone it does not come back.
Written(f) == ~New(f[1]) /\ ~(archiving = f[1] /\ f[2] = "json")
Gone(f) == Written(f) /\ ~Exists(f)

\* What is on disk of a capture: a sidecar is at least as new as its IQ and,
\* unless a writer or a move is between the two, in the same class.  While a
\* move is, the sidecar it waits for cannot be taken away alone.
CaptureSound(c) ==
    LET iq == <<c, "iq">> json == <<c, "json">> IN
      /\ Exists(iq) \/ Exists(json) => ~New(c)
      /\ archiving = c => /\ ~New(c) /\ ~Exists(json) /\ (c \in Captures => analysis[c].pc = "idle")
                          /\ Exists(iq) => At(iq, IF c \in Captures THEN "Pending" ELSE "Archive")
      /\ Exists(iq) /\ Exists(json) => disk[iq].mtime <= disk[json].mtime
      /\ disk[iq].mtime <= now /\ disk[json].mtime <= now
      /\ Exists(iq) /\ archiving # c /\ (c \in Captures => analysis[c].pc # "sidecar")
           => At(json, disk[iq].class)
      /\ c \in Captures =>
           /\ analysis[c].pc # "idle" => ~New(c) /\ archiving # c
           /\ analysis[c].pc \in {"rename", "sidecar"} => analysis[c].dest \in {"Retained", "Quarantine"}
           /\ analysis[c].pc = "remove" => ~Exists(iq)
           /\ analysis[c].pc = "sidecar" => /\ Exists(iq) => At(iq, analysis[c].dest) /\ At(json, "Pending")
                                            /\ Exists(json) => At(json, "Pending")

\* The cached sum is never below what is on disk and what its writer still owes.
Charged ==
    cached # None =>
      /\ archiving \in Captures => Used <= cached + Size["iq"]
      /\ archiving \in Originals => Used + Size["json"] <= cached
      /\ archiving = None => Used <= cached

\* The files of a list that are still there.
Left(me) == {e.file : e \in {x \in me.listed : Exists(x.file)}}

\* While a cleanup prunes, its total covers what is left of the list, and it has
\* passed nothing but protected files and files that are gone.  It meets an IQ
\* file before a sidecar it may remove.
Pruning(me) ==
    /\ Bytes(Left(me)) <= me.total
    /\ \A e \in me.listed : e \in ToSet(me.list) \/ Protected(e) \/ Gone(e.file)
    /\ \A i, j \in 1..Len(me.list) : i < j => Before(me.list[i], me.list[j])
    /\ \A j \in 1..Len(me.list) :
         me.list[j].file[2] = "json" /\ ~Protected(me.list[j])
         => \/ Gone(<<me.list[j].file[1], "iq">>)
            \/ \E i \in 1..j - 1 :
                 /\ me.list[i].file = <<me.list[j].file[1], "iq">>
                 /\ ~Protected(me.list[i])

Reached(me) ==
    \/ Bytes(Left(me)) <= me.policy.cap
    \/ \A e \in me.listed : Exists(e.file) => Protected(e)

ListSound(me) ==
    /\ me.pc \notin {"prune", "compact", "reconcile", "finish"} => me.listed = {}
    /\ me.pc # "prune" => me.list = <<>>
    /\ \A e \in me.listed : Written(e.file)
    /\ me.pc = "prune" => Pruning(me)
    /\ me.pc \in {"compact", "reconcile", "finish"} /\ ~me.error => Reached(me)

StorageInv ==
    /\ StorageTyped
    /\ IsFiniteSet(Existing)
    /\ \A c \in All : CaptureSound(c)
    /\ Charged
    /\ \A k \in Cleaners : ListSound(cleaner[k])
    /\ FlagsOwned

LEMMA StorageTypes == StorageTyped => TypeOK
<1> SUFFICES ASSUME StorageTyped PROVE TypeOK
  OBVIOUS
<1>1. \A k \in Cleaners : cleaner[k] \in Cleanups
  BY DEF StorageTyped
<1>2. \A k \in Cleaners :
         /\ cleaner[k].pc \in {"idle", "decide", "quarantine", "expire", "list", "prune", "compact",
                               "reconcile", "finish", "status"}
         /\ cleaner[k].policy \in PolicyRecords /\ cleaner[k].listed \subseteq Entries
         /\ cleaner[k].total \in Nat
         /\ {cleaner[k].full, cleaner[k].seen, cleaner[k].error} \subseteq BOOLEAN
  BY <1>1 DEF Cleanups
<1> QED BY <1>2 DEF StorageTyped, TypeOK, Records, Ends

LEMMA SoundImplies ==
    ASSUME StorageInv PROVE TypeOK /\ FilesAccounted
<1>1. TypeOK
  BY StorageTypes DEF StorageInv
<1>2. IQKeepsSidecar
  BY DEF StorageInv, CaptureSound, IQKeepsSidecar
<1>3. CapReached
  BY DEF StorageInv, ListSound, Reached, Left, CapReached
<1> QED BY <1>1, <1>2, <1>3 DEF StorageInv, FilesAccounted

-----------------------------------------------------------------------------
(* What steps leave alone.                                                 *)

LEMMA FilesKnown ==
    /\ \A c \in All : <<c, "iq">> \in Files /\ <<c, "json">> \in Files
    /\ \A f \in Files : f[1] \in All /\ f[2] \in {"iq", "json"} /\ f = <<f[1], f[2]>>
BY DEF Files, Kinds

LEMMA Shrinks ==
    ASSUME \A f \in Files : Exists(f)' => Exists(f), UNCHANGED <<captured, archiving>>
    PROVE  \A f \in Files : Written(f) => Written(f)' /\ (Exists(f)' => Exists(f))
BY DEF Written, New

\* A list stays sound as long as nothing it names comes back.
LEMMA ListStays ==
    ASSUME StorageInv, NEW k \in Cleaners, cleaner'[k] = cleaner[k], now' = now,
           \A f \in Files : Written(f) => Written(f)' /\ (Exists(f)' => Exists(f))
    PROVE  ListSound(cleaner[k])'
<1> DEFINE me == cleaner[k]
<1>1. ListSound(me) /\ me \in Cleanups
  BY DEF StorageInv, StorageTyped
<1>2. \A e \in me.listed : e.file \in Files
  BY <1>1 DEF Cleanups, Entries
<1>3. /\ \A e \in me.listed : Written(e.file)' /\ (Exists(e.file)' => Exists(e.file))
      /\ \A e \in me.listed : Gone(e.file) => Gone(e.file)'
      /\ \A e \in me.listed : Protected(e) <=> Protected(e)'
  BY <1>1, <1>2 DEF ListSound, Gone, Protected
<1>4. Left(me)' \subseteq Left(me)
  BY <1>3 DEF Left
<1>5. Bytes(Left(me)') <= Bytes(Left(me)) /\ Bytes(Left(me)) \in Nat /\ Bytes(Left(me)') \in Nat
  <2>1. Left(me) \subseteq Existing
    BY <1>2 DEF Left, Existing
  <2>2. IsFiniteSet(Left(me))
    BY <2>1, FS_Subset DEF StorageInv
  <2> QED BY <1>4, <2>2, BytesShrink, BytesAreNumbers
<1>6. me.pc = "prune" => Pruning(me)'
  <2> SUFFICES ASSUME me.pc = "prune" PROVE Pruning(me)'
    OBVIOUS
  <2>1. Pruning(me) /\ me.total \in Nat
    BY <1>1 DEF ListSound, Cleanups
  <2>2. Bytes(Left(me)') <= me.total
    BY <1>5, <2>1 DEF Pruning
  <2>3. \A e \in me.listed : e \in ToSet(me.list) \/ Protected(e)' \/ Gone(e.file)'
    BY <1>3, <2>1 DEF Pruning
  <2>4. ASSUME NEW j \in 1..Len(me.list), me.list[j].file[2] = "json", ~Protected(me.list[j])'
        PROVE  \/ Gone(<<me.list[j].file[1], "iq">>)'
               \/ \E i \in 1..j - 1 :
                    /\ me.list[i].file = <<me.list[j].file[1], "iq">>
                    /\ ~Protected(me.list[i])'
    <3>1. \A i \in 1..Len(me.list) : me.list[i] \in me.listed
      <4>1. ToSet(me.list) \subseteq me.listed /\ me.list \in Seq(Entries)
        BY <1>1 DEF StorageInv, StorageTyped, Cleanups
      <4> QED BY <4>1 DEF ToSet
    <3>2. <<me.list[j].file[1], "iq">> \in Files
      BY <1>2, <2>4, <3>1, FilesKnown
    <3>3. ~Protected(me.list[j])
      BY <1>3, <2>4, <3>1
    <3>4. CASE Gone(<<me.list[j].file[1], "iq">>)
      BY <3>2, <3>4 DEF Gone
    <3>5. CASE \E i \in 1..j - 1 : /\ me.list[i].file = <<me.list[j].file[1], "iq">>
                                   /\ ~Protected(me.list[i])
      <4>1. PICK i \in 1..j - 1 : /\ me.list[i].file = <<me.list[j].file[1], "iq">>
                                   /\ ~Protected(me.list[i])
        BY <3>5
      <4>2. me.list[i] \in me.listed
        BY <1>1, <2>4, <3>1 DEF Cleanups
      <4> QED BY <1>3, <4>1, <4>2
    <3> QED BY <2>1, <2>4, <3>3, <3>4, <3>5 DEF Pruning
  <2> QED BY <2>1, <2>2, <2>3, <2>4 DEF Pruning
<1>7. me.pc \in {"compact", "reconcile", "finish"} /\ ~me.error => Reached(me)'
  <2> SUFFICES ASSUME me.pc \in {"compact", "reconcile", "finish"} /\ ~me.error PROVE Reached(me)'
    OBVIOUS
  <2>1. Reached(me) /\ me.policy.cap \in Nat
    BY <1>1 DEF ListSound, Cleanups, PolicyRecords
  <2> QED BY <1>3, <1>5, <2>1 DEF Reached
<1>8. ListSound(me)'
  BY <1>1, <1>3, <1>6, <1>7 DEF ListSound
<1> QED BY <1>8

\* A capture stays sound when nothing of it changes.
LEMMA CaptureStays ==
    ASSUME StorageInv, NEW c \in All, CaptureSound(c),
           disk'[<<c, "iq">>] = disk[<<c, "iq">>], disk'[<<c, "json">>] = disk[<<c, "json">>],
           captured'[c] = captured[c], (archiving' = c) <=> (archiving = c),
           c \in Captures => analysis'[c] = analysis[c], now' >= now, now' \in Nat
    PROVE  CaptureSound(c)'
<1>1. /\ disk[<<c, "iq">>].mtime \in Nat /\ disk[<<c, "json">>].mtime \in Nat /\ now \in Nat
  BY FilesKnown DEF StorageInv, StorageTyped, Records
<1> DEFINE iq == <<c, "iq">>
           json == <<c, "json">>
<1>2. /\ Exists(iq)' <=> Exists(iq)
      /\ Exists(json)' <=> Exists(json)
      /\ New(c)' <=> New(c)
      /\ \A class : (At(iq, class)' <=> At(iq, class)) /\ (At(json, class)' <=> At(json, class))
      /\ disk'[iq] = disk[iq] /\ disk'[json] = disk[json]
      /\ disk[iq].mtime <= now => disk[iq].mtime <= now'
      /\ disk[json].mtime <= now => disk[json].mtime <= now'
  BY <1>1 DEF Exists, New, At
<1> QED BY <1>2 DEF CaptureSound

\* What a cleanup may do to the files.
Cleans ==
    /\ \A f \in Files : disk'[f] = disk[f] \/ disk'[f] = Absent
    /\ UNCHANGED <<captured, archiving, cached, analysis, now>>

LEMMA CleansShrinks ==
    ASSUME Cleans
    PROVE  \A f \in Files : Written(f) => Written(f)' /\ (Exists(f)' => Exists(f))
<1>1. \A f \in Files : Exists(f)' => Exists(f)
  BY DEF Cleans, Exists, Absent
<1> QED BY <1>1, Shrinks DEF Cleans

LEMMA FewerFiles ==
    ASSUME StorageInv, \A f \in Files : Exists(f)' => Exists(f),
           UNCHANGED <<archiving, cached>>
    PROVE  IsFiniteSet(Existing)' /\ Charged'
<1>1. Existing' \subseteq Existing
  BY DEF Existing
<1>2. Used' <= Used /\ IsFiniteSet(Existing') /\ Used' \in Nat /\ Used \in Nat
  <2>1. Used = Bytes(Existing) /\ Used' = Bytes(Existing')
    BY DEF Used, Existing
  <2> QED BY <1>1, <2>1, BytesShrink, BytesAreNumbers DEF StorageInv
<1>3. cached # None => cached \in Nat
  BY DEF StorageInv, StorageTyped
<1>4. Charged'
  <2> HIDE DEF Used
  <2> QED BY <1>2, <1>3, SizesPositive DEF StorageInv, Charged
<1> QED BY <1>2, <1>4

\* A capture stays sound when a cleanup takes files of it away, as long as the
\* sidecar does not go before the IQ.
LEMMA CaptureCleaned ==
    ASSUME StorageInv, Cleans, NEW c \in All,
           Exists(<<c, "iq">>)' /\ Exists(<<c, "json">>) => Exists(<<c, "json">>)'
    PROVE  CaptureSound(c)'
<1> DEFINE iq == <<c, "iq">>
           json == <<c, "json">>
<1>1. iq \in Files /\ json \in Files /\ CaptureSound(c) /\ now \in Nat
  BY FilesKnown DEF StorageInv, StorageTyped
<1>2. /\ Exists(iq)' => Exists(iq) /\ disk'[iq] = disk[iq]
      /\ Exists(json)' => Exists(json) /\ disk'[json] = disk[json]
      /\ disk'[iq].mtime <= now /\ disk'[json].mtime <= now
  BY <1>1 DEF Cleans, Exists, Absent, CaptureSound
<1>3. Exists(iq)' => /\ disk'[iq] = disk[iq]
                     /\ Exists(json) => disk'[json] = disk[json]
  BY <1>1, <1>2
<1>4. /\ New(c)' <=> New(c)
      /\ archiving' = archiving /\ now' = now /\ (c \in Captures => analysis'[c] = analysis[c])
  BY DEF Cleans, New
<1>5. /\ Exists(iq)' /\ Exists(json)' => disk'[iq].mtime <= disk'[json].mtime
      /\ Exists(iq)' \/ Exists(json)' => ~New(c)'
      /\ archiving' = c => /\ ~New(c)' /\ ~Exists(json)' /\ (c \in Captures => analysis'[c].pc = "idle")
                           /\ Exists(iq)' => At(iq, IF c \in Captures THEN "Pending" ELSE "Archive")'
  BY <1>1, <1>2, <1>4 DEF CaptureSound, At
<1>6. ASSUME Exists(iq)', archiving' # c, c \in Captures => analysis'[c].pc # "sidecar"
      PROVE  At(json, disk[iq].class)'
  <2>1. At(json, disk[iq].class)
    BY <1>1, <1>2, <1>4, <1>6 DEF CaptureSound
  <2>2. Exists(json)
    BY <1>2, <1>6, <2>1 DEF At, Exists
  <2> QED BY <1>3, <1>6, <2>1, <2>2 DEF At
<1>7. ASSUME c \in Captures, analysis'[c].pc = "sidecar"
      PROVE  /\ Exists(iq)' => At(iq, analysis[c].dest)' /\ At(json, "Pending")'
             /\ Exists(json)' => At(json, "Pending")'
  <2>1. /\ Exists(iq) => At(iq, analysis[c].dest) /\ At(json, "Pending")
        /\ Exists(json) => At(json, "Pending")
    BY <1>1, <1>4, <1>7 DEF CaptureSound
  <2>2. Exists(iq)' => Exists(json)
    BY <1>2, <2>1 DEF At, Exists
  <2>3. Exists(json)' => At(json, "Pending")'
    BY <1>2, <2>1 DEF At
  <2>4. Exists(iq)' => At(iq, analysis[c].dest)' /\ At(json, "Pending")'
    <3> SUFFICES ASSUME Exists(iq)' PROVE At(iq, analysis[c].dest)' /\ At(json, "Pending")'
      OBVIOUS
    <3>1. disk'[iq] = disk[iq] /\ disk'[json] = disk[json] /\ analysis'[c] = analysis[c]
      BY <1>2, <1>3, <1>4, <1>7, <2>2
    <3> QED BY <1>2, <2>1, <3>1 DEF At
  <2> QED BY <2>3, <2>4
<1>8. c \in Captures =>
        /\ analysis'[c].pc # "idle" => ~New(c)' /\ archiving' # c
        /\ analysis'[c].pc \in {"rename", "sidecar"} => analysis'[c].dest \in {"Retained", "Quarantine"}
        /\ analysis'[c].pc = "remove" => ~Exists(iq)'
  BY <1>1, <1>2, <1>4 DEF CaptureSound
<1> QED BY <1>2, <1>4, <1>5, <1>6, <1>7, <1>8 DEF CaptureSound

-----------------------------------------------------------------------------
(* Cleanups.                                                               *)

Work == {"quarantine", "expire", "list", "prune", "compact", "reconcile", "finish"}

LEMMA NoCleanerTyped ==
    NoCleaner \in Cleanups /\ ToSet(NoCleaner.list) \subseteq NoCleaner.listed
BY StorageAssumption DEF NoCleaner, Cleanups, ToSet

\* One cleanup has become me.
Becomes(k, me) ==
    /\ cleaner' = [cleaner EXCEPT ![k] = me]
    /\ me \in Cleanups /\ ToSet(me.list) \subseteq me.listed /\ (me.pc = "idle" => me = NoCleaner)

LEMMA CleanupKeeps ==
    ASSUME StorageInv, Cleans, disk' \in [Files -> Records], policy' = policy,
           row' \in [All -> Classes \cup {"none"}], journal' \in Nat,
           cleanups' \in 0..MaxCleanups,
           flags' \in [pruning : BOOLEAN, refreshing : BOOLEAN],
           \A c \in All : Exists(<<c, "iq">>)' /\ Exists(<<c, "json">>) => Exists(<<c, "json">>)',
           NEW k \in Cleaners, NEW me, Becomes(k, me), ListSound(me)', FlagsOwned'
    PROVE  StorageInv'
<1>1. cleaner'[k] = me /\ \A o \in Cleaners \ {k} : cleaner'[o] = cleaner[o]
  BY DEF Becomes, StorageInv, StorageTyped
<1>2. cleaner' \in [Cleaners -> Cleanups]
  BY DEF Becomes, StorageInv, StorageTyped
<1>3. \A o \in Cleaners : /\ ToSet(cleaner'[o].list) \subseteq cleaner'[o].listed
                          /\ cleaner'[o].pc = "idle" => cleaner'[o] = NoCleaner
  BY <1>1 DEF Becomes, StorageInv, StorageTyped
<1>4. StorageTyped'
  BY <1>2, <1>3 DEF StorageInv, StorageTyped, Cleans, NoCleaner
<1>5. IsFiniteSet(Existing)' /\ Charged'
  <2>1. \A f \in Files : Exists(f)' => Exists(f)
    BY DEF Cleans, Exists, Absent
  <2>2. UNCHANGED <<archiving, cached>>
    BY DEF Cleans
  <2> QED BY <2>1, <2>2, FewerFiles
<1>6. \A c \in All : CaptureSound(c)'
  BY CaptureCleaned
<1>7. \A o \in Cleaners : ListSound(cleaner[o])'
  <2> SUFFICES ASSUME NEW o \in Cleaners PROVE ListSound(cleaner[o])'
    OBVIOUS
  <2>1. CASE o = k
    <3>1. cleaner'[o] = me
      BY <1>1, <2>1
    <3> QED BY <3>1 DEF ListSound, Pruning, Reached, Left
  <2>2. CASE o # k
    BY <1>1, <2>2, CleansShrinks, ListStays DEF Cleans
  <2> QED BY <2>1, <2>2
<1> QED BY <1>4, <1>5, <1>6, <1>7 DEF StorageInv

\* The same while it works: the flags stay its own.
LEMMA WorkKeeps ==
    ASSUME StorageInv, Cleans, disk' \in [Files -> Records],
           row' \in [All -> Classes \cup {"none"}], journal' \in Nat,
           UNCHANGED <<policy, flags, cleanups>>,
           \A c \in All : Exists(<<c, "iq">>)' /\ Exists(<<c, "json">>) => Exists(<<c, "json">>)',
           NEW k \in Cleaners, cleaner[k].pc \in Work,
           NEW me, Becomes(k, me), me.pc \in Work, ListSound(me)'
    PROVE  StorageInv'
<1>1. cleaner'[k] = me /\ \A o \in Cleaners \ {k} : cleaner'[o] = cleaner[o]
  BY DEF Becomes, StorageInv, StorageTyped
<1>2. FlagsOwned'
  BY <1>1 DEF StorageInv, FlagsOwned, Work, Cleaners
<1>3. /\ flags' \in [pruning : BOOLEAN, refreshing : BOOLEAN] /\ cleanups' \in 0..MaxCleanups
  BY DEF StorageInv, StorageTyped
<1> QED BY <1>2, <1>3, CleanupKeeps

\* A cleanup that has listed nothing yet, or had nothing to remove.
LEMMA EmptyListSound ==
    ASSUME NEW me, me.listed = {}, me.list = <<>>, me.pc # "prune"
    PROVE  ListSound(me)'
BY DEF ListSound, Reached

LEMMA SameFiles ==
    ASSUME StorageInv, UNCHANGED <<disk, captured, archiving, cached, analysis, now>>
    PROVE  /\ Cleans /\ disk' \in [Files -> Records]
           /\ \A c \in All : Exists(<<c, "iq">>)' /\ Exists(<<c, "json">>) => Exists(<<c, "json">>)'
           /\ \A f \in Files : Written(f) => Written(f)' /\ (Exists(f)' => Exists(f))
BY DEF StorageInv, StorageTyped, Cleans, Exists, Written, New

\* What the invariant says of a cleanup.
LEMMA CleanupTyped ==
    ASSUME StorageInv, NEW k \in Cleaners
    PROVE  /\ cleaner[k] \in Cleanups /\ ToSet(cleaner[k].list) \subseteq cleaner[k].listed
           /\ ListSound(cleaner[k])
           /\ cleaner[k].pc \notin {"prune", "compact", "reconcile", "finish"} =>
                 cleaner[k].listed = {} /\ cleaner[k].list = <<>>
BY DEF StorageInv, StorageTyped, ListSound

LEMMA GotoKeeps ==
    ASSUME StorageInv, Cleans, disk' \in [Files -> Records],
           row' \in [All -> Classes \cup {"none"}], journal' \in Nat,
           UNCHANGED <<policy, flags, cleanups>>,
           \A c \in All : Exists(<<c, "iq">>)' /\ Exists(<<c, "json">>) => Exists(<<c, "json">>)',
           NEW k \in Cleaners, cleaner[k].pc \in Work, cleaner[k].listed = {},
           cleaner[k].list = <<>>,
           NEW pc \in Work \ {"prune"}, Goto(k, pc)
    PROVE  StorageInv'
<1>1. cleaner[k] \in Cleanups
  BY CleanupTyped
<1>2. PICK me : me = [cleaner[k] EXCEPT !.pc = pc]
  OBVIOUS
<1>3. /\ me \in Cleanups /\ me.pc = pc /\ me.list = <<>> /\ me.listed = {}
  BY <1>1, <1>2 DEF Cleanups, Work
<1>4. cleaner' = [cleaner EXCEPT ![k] = me]
  BY <1>2 DEF Goto
<1>5. Becomes(k, me)
  BY <1>3, <1>4 DEF Becomes, Work, ToSet
<1>6. ListSound(me)'
  BY <1>3, EmptyListSound
<1> QED BY <1>3, <1>5, <1>6, WorkKeeps

\* Of a capture whose sidecar is removed the IQ goes first.
LEMMA RemoveRejectedKept ==
    ASSUME StorageInv, NEW k \in Cleaners, RemoveRejected(k)
    PROVE  StorageInv'
<1>1. /\ cleaner[k].pc = "quarantine"
      /\ UNCHANGED <<row, cleaner, flags, journal, cleanups, captured, archiving, cached, analysis, policy, now>>
  BY DEF RemoveRejected, CleanerFrame
<1>2. PICK f \in Rejected(k) : /\ f[2] = "json" => <<f[1], "iq">> \notin Rejected(k)
                               /\ disk' = [disk EXCEPT ![f] = Absent]
  BY DEF RemoveRejected
<1>3. f \in Files /\ At(f, "Quarantine") /\ Age(f) >= Max({1, cleaner[k].policy.hours})
  BY DEF Rejected
<1>4. disk \in [Files -> Records] /\ now \in Nat /\ Absent \in Records
  BY StorageAssumption DEF StorageInv, StorageTyped, Absent, Records
<1>5. Cleans /\ disk' \in [Files -> Records]
  BY <1>1, <1>2, <1>3, <1>4 DEF Cleans
<1>6. ASSUME NEW c \in All, Exists(<<c, "iq">>)', Exists(<<c, "json">>)
      PROVE  Exists(<<c, "json">>)'
  <2> SUFFICES ASSUME ~Exists(<<c, "json">>)' PROVE FALSE
    OBVIOUS
  <2> DEFINE iq == <<c, "iq">>
             json == <<c, "json">>
  <2>1. f = json /\ iq \in Files /\ iq # json /\ CaptureSound(c)
    BY <1>2, <1>3, <1>4, <1>6, FilesKnown DEF Exists, StorageInv
  <2>2. disk'[iq] = disk[iq] /\ Exists(iq)
    BY <1>2, <1>3, <1>4, <1>6, <2>1 DEF Exists
  <2>3. archiving # c /\ (c \in Captures => analysis[c].pc # "sidecar")
    BY <1>3, <2>1, <2>2 DEF CaptureSound, At, Exists
  <2>4. At(iq, "Quarantine") /\ disk[iq].mtime <= disk[json].mtime
    BY <1>3, <1>6, <2>1, <2>2, <2>3 DEF CaptureSound, At, Exists
  <2>5. disk[iq].mtime \in Nat /\ disk[json].mtime \in Nat
    BY <1>4, <2>1, FilesKnown DEF Records
  <2> DEFINE limit == Max({1, cleaner[k].policy.hours})
  <2>6. limit \in Nat
    <3>1. cleaner[k].policy.hours \in Nat
      BY CleanupTyped DEF Cleanups, PolicyRecords
    <3>2. \E x \in {1, cleaner[k].policy.hours} : \A y \in {1, cleaner[k].policy.hours} : x >= y
      <4>1. CASE cleaner[k].policy.hours <= 1
        BY <3>1, <4>1
      <4>2. CASE cleaner[k].policy.hours > 1
        BY <3>1, <4>2
      <4> QED BY <3>1, <4>1, <4>2
    <3> QED BY <3>1, <3>2 DEF Max
  <2> HIDE DEF limit
  <2>7. Age(iq) >= limit
    BY <1>3, <1>4, <2>1, <2>4, <2>5, <2>6 DEF Age, limit
  <2>8. iq \in Rejected(k)
    BY <2>1, <2>4, <2>7 DEF Rejected, limit
  <2> QED BY <1>2, <2>1, <2>8
<1>7. /\ row' \in [All -> Classes \cup {"none"}] /\ journal' \in Nat
      /\ UNCHANGED <<policy, flags, cleanups>> /\ cleaner[k].pc \in Work
  BY <1>1 DEF StorageInv, StorageTyped, Work
<1>8. PICK me : me = cleaner[k]
  OBVIOUS
<1>9. Becomes(k, me) /\ me.pc \in Work
  <2>1. cleaner' = [cleaner EXCEPT ![k] = me]
    BY <1>1, <1>8 DEF StorageInv, StorageTyped
  <2> QED BY <1>7, <1>8, <2>1, CleanupTyped DEF Becomes, Work
<1>10. ListSound(me)'
  BY <1>1, <1>8, <1>9, EmptyListSound, CleanupTyped
<1> QED BY <1>5, <1>6, <1>7, <1>9, <1>10, WorkKeeps

LEMMA EndRejectedKept ==
    ASSUME StorageInv, NEW k \in Cleaners, EndRejected(k)
    PROVE  StorageInv'
<1>1. /\ cleaner[k].pc = "quarantine" /\ UNCHANGED <<disk, row, flags, journal, cleanups>>
      /\ UNCHANGED <<captured, archiving, cached, analysis, policy, now>>
  BY DEF EndRejected, CleanerFrame
<1>2. PICK next : next = IF cleaner[k].full THEN "expire" ELSE "reconcile"
  OBVIOUS
<1>3. next \in Work \ {"prune"}
  BY <1>2 DEF Work
<1>4. Goto(k, next) \/ cleaner' = [cleaner EXCEPT ![k].pc = next, ![k].error = TRUE]
  BY <1>2 DEF EndRejected
<1>5. /\ row' \in [All -> Classes \cup {"none"}] /\ journal' \in Nat
      /\ cleaner[k].listed = {} /\ cleaner[k].list = <<>> /\ cleaner[k].pc \in Work
      /\ cleaner[k] \in Cleanups
  BY <1>1, CleanupTyped DEF StorageInv, StorageTyped, Work
<1>6. CASE Goto(k, next)
  BY <1>1, <1>3, <1>5, <1>6, SameFiles, GotoKeeps
<1>7. CASE cleaner' = [cleaner EXCEPT ![k].pc = next, ![k].error = TRUE]
  <2>1. PICK me : me = [cleaner[k] EXCEPT !.pc = next, !.error = TRUE]
    OBVIOUS
  <2>2. /\ me \in Cleanups /\ me.pc = next /\ me.list = <<>> /\ me.listed = {}
    BY <1>3, <1>5, <2>1 DEF Cleanups, Work
  <2>3. cleaner' = [cleaner EXCEPT ![k] = me]
    BY <1>7, <2>1
  <2>4. Becomes(k, me) /\ me.pc \in Work
    BY <1>3, <2>2, <2>3 DEF Becomes, Work, ToSet
  <2>5. ListSound(me)'
    BY <1>3, <2>2, EmptyListSound
  <2> QED BY <1>1, <1>5, <2>4, <2>5, SameFiles, WorkKeeps
<1> QED BY <1>4, <1>6, <1>7

\* Both files of a capture bear its date.
LEMMA ExpireKept ==
    ASSUME StorageInv, NEW k \in Cleaners, Expire(k)
    PROVE  StorageInv'
<1> DEFINE days == cleaner[k].policy.days
           expired(f) == /\ days > 0 /\ disk[f].class \in {"Retained", "Quarantine"}
                         /\ now - captured[f[1]] > days
<1>1. /\ cleaner[k].pc = "expire" /\ UNCHANGED <<row, flags, journal, cleanups>>
      /\ UNCHANGED <<captured, archiving, cached, analysis, policy, now>>
      /\ disk' = [f \in Files |-> IF expired(f) THEN Absent ELSE disk[f]]
      /\ Goto(k, "list")
  BY DEF Expire, CleanerFrame
<1>2. disk \in [Files -> Records] /\ Absent \in Records
  BY StorageAssumption DEF StorageInv, StorageTyped, Absent, Records
<1>3. Cleans /\ disk' \in [Files -> Records]
  BY <1>1, <1>2 DEF Cleans
<1>4. ASSUME NEW c \in All, Exists(<<c, "iq">>)', Exists(<<c, "json">>)
      PROVE  Exists(<<c, "json">>)'
  <2> SUFFICES ASSUME ~Exists(<<c, "json">>)' PROVE FALSE
    OBVIOUS
  <2> DEFINE iq == <<c, "iq">>
             json == <<c, "json">>
  <2>1. iq \in Files /\ json \in Files /\ CaptureSound(c)
    BY FilesKnown DEF StorageInv
  <2>2. expired(json)
    BY <1>1, <1>4, <2>1 DEF Exists
  <2>3. ~expired(iq) /\ Exists(iq)
    BY <1>1, <1>4, <2>1 DEF Exists, Absent
  <2>4. disk[iq].class # disk[json].class
    BY <2>2, <2>3
  <2>5. disk[json].class \in {"Retained", "Quarantine"}
    BY <2>2
  <2> HIDE DEF expired
  <2> QED BY <2>1, <2>3, <2>4, <2>5, <1>4 DEF CaptureSound, At
<1>5. /\ row' \in [All -> Classes \cup {"none"}] /\ journal' \in Nat
      /\ cleaner[k].listed = {} /\ cleaner[k].list = <<>> /\ cleaner[k].pc \in Work
      /\ UNCHANGED <<policy, flags, cleanups>> /\ "list" \in Work \ {"prune"}
  BY <1>1, CleanupTyped DEF StorageInv, StorageTyped, Work
<1> HIDE DEF expired
<1> QED BY <1>1, <1>3, <1>4, <1>5, GotoKeeps

-----------------------------------------------------------------------------
(* The list of a cleanup.                                                  *)

Entry(f) == [file |-> f, class |-> disk[f].class, mtime |-> disk[f].mtime]

LEMMA BeforeApart ==
    ASSUME NEW a \in Entries, NEW b \in Entries
    PROVE  ~(Before(a, b) /\ Before(b, a))
<1>1. a.file[1] \in Nat /\ b.file[1] \in Nat /\ a.mtime \in Nat /\ b.mtime \in Nat
  BY StorageAssumption DEF Entries, Files, All
<1>2. a.class \in Classes /\ b.class \in Classes
  BY DEF Entries
<1>3. Priority(a.class) \in Nat /\ Priority(b.class) \in Nat
  BY <1>2 DEF Priority, Classes
<1> QED BY <1>1, <1>3 DEF Before

\* A list in deletion order names every file it is made of.
LEMMA ListsAll ==
    ASSUME NEW S, S \subseteq Entries, IsFiniteSet(S), NEW list \in InOrder(S)
    PROVE  /\ list \in Seq(Entries) /\ ToSet(list) = S
           /\ \A i, j \in 1..Len(list) : i < j => Before(list[i], list[j])
<1> DEFINE n == Cardinality(S)
<1>1. n \in Nat
  BY FS_CardinalityType
<1>2. list \in [1..n -> S] /\ \A i, j \in 1..n : i < j => Before(list[i], list[j])
  BY DEF InOrder
<1> HIDE DEF n
<1>3. Len(list) = n /\ list \in Seq(Entries) /\ DOMAIN list = 1..n
  BY <1>1, <1>2
<1>4. ASSUME NEW i \in 1..n, NEW j \in 1..n, list[i] = list[j]
      PROVE  i = j
  <2>1. list[i] \in Entries /\ list[j] \in Entries
    BY <1>2
  <2>2. ~(i < j) /\ ~(j < i)
    BY <1>2, <1>4, <2>1, BeforeApart
  <2> QED BY <1>1, <2>2
<1>5. list \in Injection(1..n, S)
  BY <1>2, <1>4 DEF Injection, IsInjective
<1>6. IsFiniteSet(1..n) /\ Cardinality(1..n) = n
  BY <1>1, FS_Interval
<1>7. list \in Surjection(1..n, S)
  BY <1>5, <1>6, FS_Injection DEF n
<1>8. ToSet(list) = S
  BY <1>2, <1>3, <1>7 DEF Surjection, ToSet
<1> QED BY <1>2, <1>3, <1>8

LEMMA ListKept ==
    ASSUME StorageInv, NEW k \in Cleaners, List(k)
    PROVE  StorageInv'
<1>1. /\ cleaner[k].pc = "list" /\ UNCHANGED <<disk, row, flags, journal, cleanups>>
      /\ UNCHANGED <<captured, archiving, cached, analysis, policy, now>>
  BY DEF List, CleanerFrame
<1>2. /\ row' \in [All -> Classes \cup {"none"}] /\ journal' \in Nat
      /\ cleaner[k].listed = {} /\ cleaner[k].list = <<>> /\ cleaner[k].pc \in Work
      /\ cleaner[k] \in Cleanups /\ "compact" \in Work \ {"prune"}
  BY <1>1, CleanupTyped DEF StorageInv, StorageTyped, Work
<1>3. PICK listed : listed = {Entry(f) : f \in Existing}
  OBVIOUS
<1>4. \/ Goto(k, "compact")
      \/ \E list \in InOrder(listed) :
           cleaner' = [cleaner EXCEPT ![k].pc = "prune", ![k].total = Used,
                                      ![k].listed = listed, ![k].list = list]
  BY <1>3 DEF List, Existing, Entry
<1>5. CASE Goto(k, "compact")
  BY <1>1, <1>2, <1>5, SameFiles, GotoKeeps
<1>6. ASSUME NEW list \in InOrder(listed),
             cleaner' = [cleaner EXCEPT ![k].pc = "prune", ![k].total = Used,
                                        ![k].listed = listed, ![k].list = list]
      PROVE  StorageInv'
  <2>1. /\ \A e \in listed : e \in Entries /\ e.file \in Existing /\ e = Entry(e.file)
        /\ \A f \in Existing : Entry(f) \in listed /\ Entry(f).file = f
    <3>1. \A f \in Existing : f \in Files /\ disk[f].class \in Classes /\ disk[f].mtime \in Nat
      BY DEF Existing, Exists, StorageInv, StorageTyped, Records
    <3> QED BY <1>3, <3>1 DEF Entry, Entries
  <2>2. IsFiniteSet(listed)
    <3> DEFINE F == [f \in Existing |-> Entry(f)]
    <3>1. F \in Surjection(Existing, listed)
      BY <1>3 DEF Surjection
    <3> QED BY <3>1, FS_Surjection DEF StorageInv
  <2>3. /\ list \in Seq(Entries) /\ ToSet(list) = listed
        /\ \A i, j \in 1..Len(list) : i < j => Before(list[i], list[j])
    BY <2>1, <2>2, ListsAll
  <2>4. Used = Bytes(Existing) /\ Used \in Nat
    BY BytesAreNumbers DEF Used, Existing, StorageInv
  <2>5. PICK me : me = [cleaner[k] EXCEPT !.pc = "prune", !.total = Used, !.listed = listed, !.list = list]
    OBVIOUS
  <2>6. /\ me.pc = "prune" /\ me.total = Used /\ me.listed = listed /\ me.list = list /\ me \in Cleanups
    BY <1>2, <2>1, <2>3, <2>4, <2>5 DEF Cleanups
  <2>7. Becomes(k, me) /\ me.pc \in Work
    BY <1>6, <2>3, <2>5, <2>6 DEF Becomes, Work
  <2>8. Bytes(Left(me)) <= me.total
    <3>1. Left(me) = Existing
      BY <2>1, <2>6 DEF Left, Existing
    <3> QED BY <2>4, <2>6, <3>1
  <2>9. ASSUME NEW j \in 1..Len(list), list[j].file[2] = "json", ~Protected(list[j])
        PROVE  \/ Gone(<<list[j].file[1], "iq">>)
               \/ \E i \in 1..j - 1 : /\ list[i].file = <<list[j].file[1], "iq">> /\ ~Protected(list[i])
    <3> DEFINE c == list[j].file[1]
               iq == <<c, "iq">>
               json == <<c, "json">>
    <3>1. list[j] \in listed
      BY <2>3 DEF ToSet
    <3>2. c \in All /\ list[j].file = json /\ json \in Existing /\ list[j] = Entry(json)
      BY <2>1, <2>9, <3>1, FilesKnown DEF Existing
    <3>3. CaptureSound(c) /\ iq \in Files /\ Exists(json)
      BY <3>2, FilesKnown DEF StorageInv, Existing
    <3>4. archiving # c /\ ~New(c)
      BY <3>3 DEF CaptureSound
    <3>5. CASE ~Exists(iq)
      BY <3>4, <3>5 DEF Gone, Written
    <3>6. CASE Exists(iq)
      <4>1. iq \in Existing /\ Entry(iq) \in listed
        BY <2>1, <3>3, <3>6 DEF Existing
      <4>2. PICK i \in 1..Len(list) : list[i] = Entry(iq)
        BY <2>3, <4>1 DEF ToSet
      <4>3. disk[iq].mtime <= disk[json].mtime /\ disk[iq].mtime \in Nat /\ disk[json].mtime \in Nat /\ now \in Nat
        BY <3>2, <3>3, <3>6 DEF CaptureSound, StorageInv, StorageTyped, Records, Existing
      <4>4. \/ disk[iq].class = disk[json].class
            \/ disk[iq].class \in {"Retained", "Quarantine"} /\ disk[json].class = "Pending"
        BY <3>3, <3>4, <3>6 DEF CaptureSound, At, Exists
      <4>5. ~Protected(list[i])
        <5>1. list[i].mtime = disk[iq].mtime /\ list[i].class = disk[iq].class
              /\ list[j].mtime = disk[json].mtime /\ list[j].class = disk[json].class
          BY <3>2, <4>2 DEF Entry
        <5>2. Day \in Nat
          BY StorageAssumption
        <5>3. PICK a \in Nat, b \in Nat,
              n \in Nat : a = disk[iq].mtime /\ b = disk[json].mtime /\ n = now
          BY <4>3
        <5>4. a <= b
          BY <4>3, <5>3
        <5>5. n - b >= 1 /\ (disk[json].class = "Pending" => n - b >= Day)
          BY <2>9, <5>1, <5>2, <5>3 DEF Protected
        <5>6. ~(n - a < 1) /\ (disk[json].class = "Pending" => ~(n - a < Day))
          BY <5>2, <5>4, <5>5
        <5>7. ~(n - a < 1) /\ (disk[iq].class = "Pending" => ~(n - a < Day))
          BY <4>4, <5>6
        <5> QED BY <5>1, <5>3, <5>7 DEF Protected
      <4>6. Before(list[i], list[j])
        <5>1. disk[iq].class \in Classes /\ disk[json].class \in Classes
          BY <2>1, <3>2, <4>1 DEF Entry, Entries
        <5>2. c \in Nat
          BY <3>2, StorageAssumption
        <5> QED BY <3>2, <4>2, <4>3, <4>4, <5>1, <5>2 DEF Before, Entry, Priority, Classes
      <4>7. i < j
        <5>1. list[i] \in Entries /\ list[j] \in Entries
          BY <2>3
        <5>2. ~Before(list[j], list[i])
          BY <4>6, <5>1, BeforeApart
        <5>3. i # j
          BY <4>6, <5>1, BeforeApart
        <5> QED BY <2>3, <5>2, <5>3
      <4>8. i \in 1..j - 1 /\ list[i].file = iq
        BY <4>2, <4>7 DEF Entry
      <4> QED BY <4>5, <4>8
    <3> QED BY <3>5, <3>6
  <2>10. Pruning(me)
    BY <2>3, <2>6, <2>8, <2>9 DEF Pruning
  <2>11. Pruning(me)' /\ \A e \in listed : Written(e.file)'
    <3>1. \A e \in listed : Written(e.file)
      <4> SUFFICES ASSUME NEW f \in Existing PROVE Written(f)
        BY <2>1
      <4>1. f[1] \in All /\ f[2] \in {"iq", "json"} /\ f = <<f[1], f[2]>> /\ Exists(f)
        BY FilesKnown DEF Existing
      <4>2. CaptureSound(f[1])
        BY <4>1 DEF StorageInv
      <4>3. Exists(<<f[1], "iq">>) \/ Exists(<<f[1], "json">>)
        BY <4>1
      <4>4. ~New(f[1]) /\ (archiving = f[1] => ~Exists(<<f[1], "json">>))
        BY <4>2, <4>3 DEF CaptureSound
      <4> QED BY <4>1, <4>4 DEF Written
    <3> QED BY <1>1, <2>10, <3>1 DEF Pruning, Written, Gone, Left, Protected, Exists, New
  <2>12. ListSound(me)'
    BY <2>6, <2>11 DEF ListSound
  <2> QED BY <1>1, <1>2, <2>7, <2>12, SameFiles, WorkKeeps
<1> QED BY <1>4, <1>5, <1>6

LEMMA HeadAndTail ==
    ASSUME NEW T, NEW s \in Seq(T), s # <<>>
    PROVE  /\ Head(s) = s[1] /\ 1 \in 1..Len(s) /\ Len(s) \in Nat /\ DOMAIN s = 1..Len(s)
           /\ Tail(s) \in Seq(T) /\ Len(Tail(s)) = Len(s) - 1 /\ DOMAIN Tail(s) = 1..Len(s) - 1
           /\ \A i \in 1..Len(s) - 1 : Tail(s)[i] = s[i + 1]
OBVIOUS

LEMMA ElementsOf ==
    ASSUME NEW T, NEW s \in Seq(T), s # <<>>
    PROVE  ToSet(Tail(s)) \subseteq ToSet(s) /\ \A e \in ToSet(s) : e = Head(s) \/ e \in ToSet(Tail(s))
<1>1. /\ Head(s) = s[1] /\ Len(s) \in Nat /\ DOMAIN s = 1..Len(s) /\ DOMAIN Tail(s) = 1..Len(s) - 1
      /\ \A i \in 1..Len(s) - 1 : Tail(s)[i] = s[i + 1]
  BY HeadAndTail
<1>2. ASSUME NEW i \in 1..Len(s)
      PROVE  s[i] = Head(s) \/ s[i] \in ToSet(Tail(s))
  <2>1. CASE i = 1
    BY <1>1, <2>1
  <2>2. CASE i # 1
    <3>1. i - 1 \in 1..Len(s) - 1 /\ (i - 1) + 1 = i
      BY <1>1, <1>2, <2>2
    <3>2. s[i] = Tail(s)[i - 1]
      BY <1>1, <3>1
    <3> QED BY <1>1, <3>1, <3>2 DEF ToSet
  <2> QED BY <2>1, <2>2
<1>3. ASSUME NEW i \in 1..Len(s) - 1
      PROVE  Tail(s)[i] \in ToSet(s)
  BY <1>1, <1>3 DEF ToSet
<1> QED BY <1>1, <1>2, <1>3 DEF ToSet

\* A cleanup passes the first file of its list, which is protected or has been
\* removed.
LEMMA HeadPassed ==
    ASSUME StorageInv, NEW k \in Cleaners, now' = now,
           cleaner[k].pc = "prune", cleaner[k].list # <<>>,
           NEW entry, entry = Head(cleaner[k].list), Protected(entry) \/ Gone(entry.file)',
           \A f \in Files : Written(f) => Written(f)' /\ (Exists(f)' => Exists(f)),
           NEW me, me.pc = "prune", me.list = Tail(cleaner[k].list),
           me.listed = cleaner[k].listed,
           Bytes(Left(me)') <= me.total
    PROVE  ListSound(me)'
<1>0. PICK old, s : old = cleaner[k] /\ s = old.list
  OBVIOUS
<1>1. old \in Cleanups /\ ToSet(s) \subseteq old.listed /\ ListSound(old) /\ Pruning(old)
  BY <1>0, CleanupTyped DEF ListSound
<1>2. s \in Seq(Entries) /\ old.listed \subseteq Entries /\ s # <<>>
      /\ me.list = Tail(s) /\ me.listed = old.listed /\ entry = Head(s)
  BY <1>0, <1>1 DEF Cleanups
<1>3. /\ Head(s) = s[1] /\ Len(s) \in Nat /\ DOMAIN s = 1..Len(s) /\ Len(Tail(s)) = Len(s) - 1
      /\ \A i \in 1..Len(s) - 1 : Tail(s)[i] = s[i + 1] /\ i + 1 \in 1..Len(s)
  BY <1>2, HeadAndTail
<1>4. ToSet(Tail(s)) \subseteq ToSet(s) /\ \A e \in ToSet(s) : e = Head(s) \/ e \in ToSet(Tail(s))
  BY <1>2, ElementsOf
<1>5. /\ \A e \in Entries : e.file \in Files
      /\ \A f \in Files : Gone(f) => Gone(f)'
      /\ \A e \in Entries : Protected(e)' <=> Protected(e)
  BY DEF Entries, Gone, Protected
<1>6. \A e \in me.listed : Written(e.file)'
  BY <1>1, <1>2, <1>5 DEF ListSound
<1>7. ASSUME NEW e \in me.listed
      PROVE  e \in ToSet(me.list) \/ Protected(e)' \/ Gone(e.file)'
  <2>1. e \in ToSet(s) \/ Protected(e) \/ Gone(e.file)
    BY <1>0, <1>1, <1>2, <1>7 DEF Pruning
  <2>2. e \in Entries /\ e.file \in Files
    BY <1>2, <1>5, <1>7
  <2>3. e \in ToSet(s) => e = entry \/ e \in ToSet(me.list)
    BY <1>2, <1>4
  <2>4. (Protected(e) => Protected(e)') /\ (Gone(e.file) => Gone(e.file)')
    BY <1>5, <2>2
  <2>5. CASE e = entry
    BY <2>4, <2>5
  <2> QED BY <2>1, <2>3, <2>4, <2>5
<1>8. ASSUME NEW i \in 1..Len(me.list), NEW j \in 1..Len(me.list), i < j
      PROVE  Before(me.list[i], me.list[j])
  <2>1. me.list[i] = s[i + 1] /\ me.list[j] = s[j + 1] /\ i + 1 \in 1..Len(s) /\ j + 1 \in 1..Len(s)
    BY <1>2, <1>3, <1>8
  <2>2. i + 1 < j + 1
    BY <1>2, <1>3, <1>8
  <2> QED BY <1>1, <1>0, <2>1, <2>2 DEF Pruning
<1>9. ASSUME NEW j \in 1..Len(me.list), me.list[j].file[2] = "json", ~Protected(me.list[j])'
      PROVE  \/ Gone(<<me.list[j].file[1], "iq">>)'
             \/ \E i \in 1..j - 1 : /\ me.list[i].file = <<me.list[j].file[1], "iq">>
                                    /\ ~Protected(me.list[i])'
  <2>1. me.list[j] = s[j + 1] /\ j + 1 \in 1..Len(s) /\ j \in Nat /\ \A i \in 1..Len(s) : s[i] \in Entries
    <3>1. Len(me.list) = Len(s) - 1 /\ j \in 1..Len(s) - 1
      BY <1>2, <1>3, <1>9
    <3>2. me.list[j] = s[j + 1] /\ j + 1 \in 1..Len(s)
      BY <1>2, <1>3, <3>1
    <3>3. j \in Nat
      BY <1>3, <3>1
    <3>4. \A i \in 1..Len(s) : s[i] \in Entries
      BY <1>2
    <3> QED BY <3>2, <3>3, <3>4
  <2>2. <<me.list[j].file[1], "iq">> \in Files /\ ~Protected(s[j + 1])
    BY <1>5, <1>9, <2>1, FilesKnown
  <2>3. CASE Gone(<<me.list[j].file[1], "iq">>)
    BY <1>5, <2>2, <2>3
  <2>4. CASE \E i \in 1..(j + 1) - 1 : s[i].file = <<s[j + 1].file[1], "iq">> /\ ~Protected(s[i])
    <3>1. PICK i \in 1..(j + 1) - 1 : s[i].file = <<s[j + 1].file[1], "iq">> /\ ~Protected(s[i])
      BY <2>4
    <3>2. CASE i = 1
      <4>1. s[1] = entry /\ entry.file = <<me.list[j].file[1], "iq">> /\ ~Protected(entry)
        BY <1>2, <1>3, <2>1, <3>1, <3>2
      <4>2. Gone(entry.file)'
        BY <4>1
      <4> QED BY <4>1, <4>2
    <3>3. CASE i # 1
      <4>1. i - 1 \in 1..j - 1 /\ i - 1 \in 1..Len(s) - 1 /\ (i - 1) + 1 = i /\ i \in 1..Len(s)
        BY <1>2, <1>3, <1>9, <2>1, <3>1, <3>3
      <4>2. me.list[i - 1] = s[i] /\ s[i] \in Entries
        BY <1>2, <1>3, <2>1, <4>1
      <4> QED BY <1>5, <2>1, <3>1, <4>1, <4>2
    <3> QED BY <3>2, <3>3
  <2> QED BY <1>0, <1>1, <1>9, <2>1, <2>2, <2>3, <2>4 DEF Pruning
<1>10. Pruning(me)'
  BY <1>7, <1>8, <1>9 DEF Pruning
<1> QED BY <1>6, <1>10 DEF ListSound

LEMMA RemoveListedKept ==
    ASSUME StorageInv, NEW k \in Cleaners, RemoveListed(k)
    PROVE  StorageInv'
<1>0. PICK old, s, entry : old = cleaner[k] /\ s = old.list /\ entry = Head(s)
  OBVIOUS
<1>1. /\ old.pc = "prune" /\ s # <<>> /\ UNCHANGED <<row, flags, journal, cleanups>>
      /\ UNCHANGED <<captured, archiving, cached, analysis, policy, now>>
  BY <1>0 DEF RemoveListed, CleanerFrame
<1>2. old \in Cleanups /\ ToSet(s) \subseteq old.listed /\ ListSound(old) /\ Pruning(old)
  BY <1>0, <1>1, CleanupTyped DEF ListSound
<1>3. s \in Seq(Entries) /\ old.listed \subseteq Entries /\ old.total \in Nat
  BY <1>0, <1>2 DEF Cleanups
<1>4. entry \in Entries /\ entry \in old.listed /\ entry = s[1] /\ 1 \in 1..Len(s) /\ Len(s) \in Nat
  <2>1. entry = s[1] /\ 1 \in 1..Len(s) /\ DOMAIN s = 1..Len(s) /\ Len(s) \in Nat
    BY <1>0, <1>1, <1>3, HeadAndTail
  <2> QED BY <1>2, <1>3, <2>1 DEF ToSet
<1>5. entry.file \in Files /\ entry.class \in Classes
  BY <1>4 DEF Entries
<1>6. /\ row' \in [All -> Classes \cup {"none"}] /\ journal' \in Nat
      /\ UNCHANGED <<policy, flags, cleanups>> /\ cleaner[k].pc \in Work
  BY <1>0, <1>1 DEF StorageInv, StorageTyped, Work
<1>7. Tail(s) \in Seq(Entries) /\ ToSet(Tail(s)) \subseteq old.listed
  BY <1>1, <1>2, <1>3, HeadAndTail, ElementsOf
<1>8. Left(old) \subseteq Existing
  BY <1>2, <1>3 DEF Left, Existing, Entries
<1>9. IsFiniteSet(Left(old)) /\ Bytes(Left(old)) \in Nat /\ Bytes(Left(old)) <= old.total
  BY <1>2, <1>8, FS_Subset, BytesAreNumbers DEF StorageInv, Pruning
<1>10. CASE Protected(entry) /\ cleaner' = [cleaner EXCEPT ![k].list = Tail(@)] /\ UNCHANGED disk
  <2>1. PICK me : me = [old EXCEPT !.list = Tail(s)]
    OBVIOUS
  <2>2. /\ me \in Cleanups /\ me.pc = "prune" /\ me.list = Tail(s) /\ me.listed = old.listed /\ me.total = old.total
    BY <1>0, <1>1, <1>2, <1>7, <2>1 DEF Cleanups
  <2>3. Becomes(k, me) /\ me.pc \in Work
    BY <1>0, <1>7, <1>10, <2>1, <2>2 DEF Becomes, Work
  <2>4. Bytes(Left(me)') <= me.total
    <3>1. Left(me)' = Left(old)
      BY <1>10, <2>2 DEF Left, Exists
    <3> QED BY <1>9, <2>2, <3>1
  <2>5. ListSound(me)'
    BY <1>0, <1>1, <1>10, <2>2, <2>4, SameFiles, HeadPassed
  <2> QED BY <1>0, <1>1, <1>6, <1>10, <2>3, <2>5, SameFiles, WorkKeeps
<1>11. CASE /\ ~Protected(entry) /\ At(entry.file, entry.class)
            /\ disk' = [disk EXCEPT ![entry.file] = Absent]
            /\ cleaner' = [cleaner EXCEPT ![k].list = Tail(@), ![k].total = @ - Size[entry.file[2]]]
  <2>0. PICK f : f = entry.file
    OBVIOUS
  <2>1. disk \in [Files -> Records] /\ Absent \in Records
    BY StorageAssumption DEF StorageInv, StorageTyped, Absent, Records
  <2>2. /\ Cleans /\ disk' \in [Files -> Records]
        /\ ~Exists(f)' /\ \A g \in Files \ {f} : disk'[g] = disk[g]
    BY <1>1, <1>5, <1>11, <2>0, <2>1 DEF Cleans, Exists, Absent
  <2>3. \A g \in Files : Written(g) => Written(g)' /\ (Exists(g)' => Exists(g))
    BY <2>2, CleansShrinks
  <2>4. Exists(f) /\ f \in Left(old)
    <3>1. Exists(f)
      BY <1>5, <1>11, <2>0 DEF At, Exists, Classes
    <3> QED BY <1>4, <2>0, <3>1 DEF Left
  <2>5. Bytes(Left(old) \ {f}) + Size[f[2]] = Bytes(Left(old)) /\ Size[f[2]] \in Nat
        /\ Bytes(Left(old) \ {f}) \in Nat
    <3>1. IsFiniteSet(Left(old) \ {f})
      BY <1>9, FS_Subset
    <3> QED BY <1>5, <1>9, <2>0, <2>4, <3>1, BytesOfOneLess, BytesAreNumbers, FilesKnown,
               SizesPositive
  <2>6. PICK me : me = [old EXCEPT !.list = Tail(s), !.total = old.total - Size[f[2]]]
    OBVIOUS
  <2>7. /\ me.pc = "prune" /\ me.list = Tail(s) /\ me.listed = old.listed
        /\ me.total = old.total - Size[f[2]] /\ me \in Cleanups
    <3>1. old.total - Size[f[2]] \in Nat
      BY <1>3, <1>9, <2>5
    <3> QED BY <1>0, <1>1, <1>2, <1>7, <2>6, <3>1 DEF Cleanups
  <2>8. cleaner' = [cleaner EXCEPT ![k] = me]
    BY <1>0, <1>2, <1>11, <2>0, <2>6
  <2>9. Becomes(k, me) /\ me.pc \in Work
    BY <1>7, <2>7, <2>8 DEF Becomes, Work
  <2>10. Bytes(Left(me)') <= me.total
    <3>1. Left(me)' = Left(old) \ {f}
      <4>1. \A e \in old.listed : e.file \in Files /\ (Exists(e.file)' <=> Exists(e.file) /\ e.file # f)
        BY <1>3, <1>5, <2>0, <2>2 DEF Entries, Exists
      <4> QED BY <2>7, <4>1 DEF Left
    <3>2. Bytes(Left(me)') = Bytes(Left(old) \ {f})
      BY <3>1
    <3> QED BY <1>3, <1>9, <2>5, <2>7, <3>2
  <2>11. Gone(f)'
    <3>1. Written(f)
      BY <1>2, <1>4, <2>0 DEF ListSound
    <3> QED BY <1>5, <2>0, <2>2, <2>3, <3>1 DEF Gone
  <2>12. ListSound(me)'
    BY <1>0, <1>1, <2>0, <2>3, <2>7, <2>10, <2>11, HeadPassed
  <2>13. ASSUME NEW c \in All, Exists(<<c, "iq">>)', Exists(<<c, "json">>)
         PROVE  Exists(<<c, "json">>)'
    <3> SUFFICES ASSUME ~Exists(<<c, "json">>)' PROVE FALSE
      OBVIOUS
    <3>1. f = <<c, "json">>
      BY <2>2, <2>13, FilesKnown DEF Exists
    <3>2. s[1].file[2] = "json" /\ s[1].file[1] = c
      BY <1>4, <2>0, <3>1
    <3>3. Gone(<<c, "iq">>)
      <4>1. \/ Gone(<<s[1].file[1], "iq">>)
            \/ \E i \in 1..1 - 1 : /\ s[i].file = <<s[1].file[1], "iq">>
                                   /\ ~Protected(s[i])
        BY <1>0, <1>2, <1>4, <1>11, <3>2 DEF Pruning
      <4> QED BY <3>2, <4>1
    <3> QED BY <2>3, <2>13, <3>3, FilesKnown DEF Gone
  <2> QED BY <1>0, <1>6, <2>2, <2>9, <2>12, <2>13, WorkKeeps
<1>12. CASE /\ cleaner' = [cleaner EXCEPT ![k].pc = "compact", ![k].list = <<>>, ![k].error = TRUE]
            /\ UNCHANGED disk
  <2>1. PICK me : me = [old EXCEPT !.pc = "compact", !.list = <<>>, !.error = TRUE]
    OBVIOUS
  <2>2. /\ me \in Cleanups /\ me.pc = "compact" /\ me.list = <<>> /\ me.listed = old.listed /\ me.error
    <3>1. <<>> \in Seq(Entries) /\ "compact" \in Work
      BY DEF Work
    <3>2. old \in Cleanups
      BY <1>2
    <3> QED BY <2>1, <3>1, <3>2 DEF Cleanups
  <2>3. Becomes(k, me) /\ me.pc \in Work
    <3>1. ToSet(me.list) = {}
      BY <2>2 DEF ToSet
    <3>2. cleaner' = [cleaner EXCEPT ![k] = me]
      BY <1>0, <1>12, <2>1
    <3> QED BY <2>2, <3>1, <3>2 DEF Becomes, Work
  <2>4. \A e \in old.listed : Written(e.file)'
    BY <1>1, <1>2 DEF ListSound, Written, New
  <2>5. ListSound(me)'
    BY <2>2, <2>4 DEF ListSound
  <2> QED BY <1>0, <1>1, <1>6, <1>12, <2>3, <2>5, SameFiles, WorkKeeps
<1> QED BY <1>0, <1>10, <1>11, <1>12 DEF RemoveListed

LEMMA EndPruneKept ==
    ASSUME StorageInv, NEW k \in Cleaners, EndPrune(k)
    PROVE  StorageInv'
<1>0. PICK old : old = cleaner[k]
  OBVIOUS
<1>1. /\ old.pc = "prune" /\ (old.list = <<>> \/ old.total <= old.policy.cap)
      /\ cleaner' = [cleaner EXCEPT ![k].pc = "compact", ![k].list = <<>>]
      /\ UNCHANGED <<disk, row, flags, journal, cleanups>>
      /\ UNCHANGED <<captured, archiving, cached, analysis, policy, now>>
  BY <1>0 DEF EndPrune, CleanerFrame
<1>2. old \in Cleanups /\ ListSound(old) /\ Pruning(old)
  BY <1>0, <1>1, CleanupTyped DEF ListSound
<1>3. old.policy.cap \in Nat /\ old.total \in Nat /\ \A e \in old.listed : e.file \in Files
  BY <1>2 DEF Cleanups, PolicyRecords, Entries
<1>4. PICK me : me = [old EXCEPT !.pc = "compact", !.list = <<>>]
  OBVIOUS
<1>5. /\ me \in Cleanups /\ me.pc = "compact" /\ me.list = <<>>
      /\ me.listed = old.listed /\ me.policy = old.policy /\ ToSet(me.list) = {}
  <2>1. <<>> \in Seq(Entries) /\ "compact" \in Work
    BY DEF Work
  <2>2. me \in Cleanups
    BY <1>2, <1>4, <2>1 DEF Cleanups
  <2>3. me.pc = "compact" /\ me.list = <<>> /\ me.listed = old.listed /\ me.policy = old.policy
    BY <1>2, <1>4 DEF Cleanups
  <2> QED BY <2>2, <2>3 DEF ToSet
<1>6. Becomes(k, me) /\ me.pc \in Work /\ cleaner[k].pc \in Work
  <2>1. cleaner' = [cleaner EXCEPT ![k] = me]
    BY <1>0, <1>1, <1>4
  <2> QED BY <1>0, <1>1, <1>5, <2>1 DEF Becomes, Work
<1>7. Reached(me)
  <2>1. CASE old.list = <<>>
    <3>1. ToSet(old.list) = {}
      BY <2>1 DEF ToSet
    <3> QED BY <1>2, <1>5, <3>1 DEF Pruning, Reached, Gone
  <2>2. CASE old.total <= old.policy.cap
    <3>1. Left(me) = Left(old) /\ Left(old) \subseteq Existing
      BY <1>3, <1>5 DEF Left, Existing
    <3>2. Bytes(Left(old)) \in Nat
      BY <3>1, FS_Subset, BytesAreNumbers DEF StorageInv
    <3>3. Bytes(Left(me)) = Bytes(Left(old)) /\ Bytes(Left(old)) <= old.total
      BY <1>2, <3>1 DEF Pruning
    <3> QED BY <1>3, <1>5, <2>2, <3>2, <3>3 DEF Reached
  <2> QED BY <1>1, <2>1, <2>2
<1>8. ListSound(me)'
  <2>1. \A e \in old.listed : Written(e.file)'
    BY <1>1, <1>2 DEF ListSound, Written, New
  <2>2. Reached(me)'
    BY <1>1, <1>7 DEF Reached, Left, Exists, Protected
  <2> QED BY <1>5, <2>1, <2>2 DEF ListSound
<1>9. row' \in [All -> Classes \cup {"none"}] /\ journal' \in Nat
  BY <1>1 DEF StorageInv, StorageTyped
<1> QED BY <1>1, <1>6, <1>8, <1>9, SameFiles, WorkKeeps

\* After it has pruned a cleanup only reports.
LEMMA ReportKeeps ==
    ASSUME StorageInv, NEW k \in Cleaners, cleaner[k].pc \in {"compact", "reconcile"},
           NEW pc \in {"reconcile", "finish"}, Goto(k, pc),
           UNCHANGED <<disk, captured, archiving, cached, analysis, policy, now, flags, cleanups>>,
           row' \in [All -> Classes \cup {"none"}], journal' \in Nat
    PROVE  StorageInv'
<1>0. PICK old : old = cleaner[k]
  OBVIOUS
<1>1. old \in Cleanups /\ ListSound(old) /\ ToSet(old.list) \subseteq old.listed
  BY <1>0, CleanupTyped
<1>2. PICK me : me = [old EXCEPT !.pc = pc]
  OBVIOUS
<1>3. /\ me \in Cleanups /\ me.pc = pc /\ me.list = old.list /\ me.error = old.error
      /\ me.listed = old.listed /\ me.policy = old.policy
  BY <1>1, <1>2 DEF Cleanups
<1>4. Becomes(k, me) /\ me.pc \in Work /\ cleaner[k].pc \in Work
  <2>1. cleaner' = [cleaner EXCEPT ![k] = me]
    BY <1>0, <1>2 DEF Goto
  <2> QED BY <1>1, <1>3, <2>1 DEF Becomes, Work
<1>5. ListSound(me)'
  <2>1. \A e \in old.listed : Written(e.file)'
    BY <1>1 DEF ListSound, Written, New
  <2>2. ~me.error => Reached(me)'
    <3>1. ~old.error => Reached(old)
      BY <1>0, <1>1 DEF ListSound
    <3> QED BY <1>3, <3>1 DEF Reached, Left, Exists, Protected
  <2>3. me.list = <<>>
    BY <1>0, <1>1, <1>3 DEF ListSound
  <2> QED BY <1>3, <2>1, <2>2, <2>3 DEF ListSound
<1> QED BY <1>4, <1>5, SameFiles, WorkKeeps

LEMMA SmallerOfTwo ==
    ASSUME NEW a \in Nat, NEW b \in Nat
    PROVE  Min({a, b}) \in Nat
<1>1. \E x \in {a, b} : \A y \in {a, b} : x <= y
  <2>1. CASE a <= b
    BY <2>1
  <2>2. CASE b <= a
    BY <2>2
  <2> QED BY <2>1, <2>2
<1> QED BY <1>1 DEF Min

LEMMA CompactKept ==
    ASSUME StorageInv, NEW k \in Cleaners, Compact(k)
    PROVE  StorageInv'
<1>1. journal' \in Nat /\ row' \in [All -> Classes \cup {"none"}]
  BY SmallerOfTwo, StorageAssumption DEF Compact, StorageInv, StorageTyped
<1> QED BY <1>1, ReportKeeps DEF Compact, CleanerFrame

LEMMA ReconcileKept ==
    ASSUME StorageInv, NEW k \in Cleaners, Reconcile(k)
    PROVE  StorageInv'
<1>1. journal' \in Nat /\ row' \in [All -> Classes \cup {"none"}]
  BY DEF Reconcile, StorageInv, StorageTyped
<1> QED BY <1>1, ReportKeeps DEF Reconcile, CleanerFrame

\* A cleanup begins or ends, with an empty list.
LEMMA TurnKeeps ==
    ASSUME StorageInv,
           UNCHANGED <<disk, row, journal, captured, archiving, cached, analysis, policy, now>>,
           cleanups' \in 0..MaxCleanups, flags' \in [pruning : BOOLEAN, refreshing : BOOLEAN],
           NEW k \in Cleaners, NEW me \in Cleanups, me.pc \in {"idle", "decide", "quarantine", "status"},
           me.pc = "idle" => me = NoCleaner, me.listed = {}, me.list = <<>>,
           cleaner' = [cleaner EXCEPT ![k] = me], FlagsOwned'
    PROVE  StorageInv'
<1>1. Becomes(k, me)
  BY DEF Becomes, ToSet
<1>2. ListSound(me)'
  BY EmptyListSound
<1>3. row' \in [All -> Classes \cup {"none"}] /\ journal' \in Nat
  BY DEF StorageInv, StorageTyped
<1> QED BY <1>1, <1>2, <1>3, SameFiles, CleanupKeeps

LEMMA FlagsTyped ==
    ASSUME StorageInv
    PROVE  /\ flags \in [pruning : BOOLEAN, refreshing : BOOLEAN] /\ cleanups \in 0..MaxCleanups
           /\ cleaner \in [Cleaners -> Cleanups] /\ Periodic \in Cleaners /\ FlagsOwned
           /\ \A m \in Manual : m \in Cleaners
BY DEF StorageInv, StorageTyped, Cleaners

LEMMA FinishKept ==
    ASSUME StorageInv, NEW k \in Cleaners, Finish(k)
    PROVE  StorageInv'
<1>1. PICK me : me = IF k = Periodic THEN [NoCleaner EXCEPT !.pc = "status"] ELSE NoCleaner
  OBVIOUS
<1>2. /\ cleaner[k].pc = "finish" /\ flags' = [flags EXCEPT !.pruning = FALSE]
      /\ cleaner' = [cleaner EXCEPT ![k] = me]
      /\ UNCHANGED <<disk, row, journal, cleanups>>
      /\ UNCHANGED <<captured, archiving, cached, analysis, policy, now>>
  BY <1>1 DEF Finish, CleanerFrame
<1>3. /\ me \in Cleanups /\ me.pc \in {"idle", "status"} /\ (me.pc = "idle" => me = NoCleaner)
      /\ me.listed = {} /\ me.list = <<>> /\ (k = Periodic => me.pc = "status")
  BY <1>1, NoCleanerTyped DEF NoCleaner, Cleanups
<1>4. FlagsOwned'
  BY <1>2, <1>3, FlagsTyped DEF FlagsOwned
<1>5. flags' \in [pruning : BOOLEAN, refreshing : BOOLEAN]
  BY <1>2, FlagsTyped
<1> QED BY <1>2, <1>3, <1>4, <1>5, FlagsTyped, TurnKeeps

LEMMA EndStatusKept ==
    ASSUME StorageInv, EndStatus
    PROVE  StorageInv'
<1>1. PICK me : me = NoCleaner
  OBVIOUS
<1>2. /\ cleaner[Periodic].pc = "status" /\ flags' = [flags EXCEPT !.refreshing = FALSE]
      /\ cleaner' = [cleaner EXCEPT ![Periodic] = me]
      /\ UNCHANGED <<disk, row, journal, cleanups>>
      /\ UNCHANGED <<captured, archiving, cached, analysis, policy, now>>
  BY <1>1 DEF EndStatus, CleanerFrame
<1>3. /\ me \in Cleanups /\ me.pc = "idle" /\ me = NoCleaner /\ me.listed = {} /\ me.list = <<>>
  BY <1>1, NoCleanerTyped DEF NoCleaner
<1>4. FlagsOwned'
  BY <1>2, <1>3, FlagsTyped DEF FlagsOwned
<1>5. flags' \in [pruning : BOOLEAN, refreshing : BOOLEAN]
  BY <1>2, FlagsTyped
<1> QED BY <1>2, <1>3, <1>4, <1>5, FlagsTyped, TurnKeeps

LEMMA DecideKept ==
    ASSUME StorageInv, Decide
    PROVE  StorageInv'
<1>1. /\ cleaner[Periodic].pc = "decide"
      /\ UNCHANGED <<disk, row, journal, cleanups>>
      /\ UNCHANGED <<captured, archiving, cached, analysis, policy, now>>
  BY DEF Decide, CleanerFrame
<1>2. PICK pc \in {"quarantine", "status"} :
         /\ Goto(Periodic, pc)
         /\ IF pc = "quarantine" THEN flags' = [flags EXCEPT !.pruning = TRUE] ELSE flags' = flags
  BY DEF Decide
<1>3. PICK me : me = [cleaner[Periodic] EXCEPT !.pc = pc]
  OBVIOUS
<1>4. cleaner[Periodic] \in Cleanups /\ cleaner[Periodic].listed = {} /\ cleaner[Periodic].list = <<>>
  BY <1>1, FlagsTyped, CleanupTyped
<1>5. me \in Cleanups /\ me.pc = pc /\ me.listed = {} /\ me.list = <<>>
  BY <1>2, <1>3, <1>4 DEF Cleanups
<1>6. cleaner' = [cleaner EXCEPT ![Periodic] = me]
  BY <1>2, <1>3 DEF Goto
<1>7. FlagsOwned'
  BY <1>1, <1>2, <1>5, <1>6, FlagsTyped DEF FlagsOwned
<1>8. flags' \in [pruning : BOOLEAN, refreshing : BOOLEAN]
  BY <1>2, FlagsTyped
<1> QED BY <1>1, <1>2, <1>5, <1>6, <1>7, <1>8, FlagsTyped, TurnKeeps

LEMMA RefreshStatusKept ==
    ASSUME StorageInv, RefreshStatus
    PROVE  StorageInv'
<1>1. PICK me : me = [NoCleaner EXCEPT !.pc = "decide", !.policy = policy, !.full = policy.auto, !.seen = flags.pruning]
  OBVIOUS
<1>2. /\ cleaner[Periodic].pc = "idle" /\ flags' = [flags EXCEPT !.refreshing = TRUE]
      /\ cleaner' = [cleaner EXCEPT ![Periodic] = me] /\ cleanups < MaxCleanups /\ cleanups' = cleanups + 1
      /\ UNCHANGED <<disk, row, journal>>
      /\ UNCHANGED <<captured, archiving, cached, analysis, policy, now>>
  BY <1>1 DEF RefreshStatus, CleanerFrame
<1>3. policy \in PolicyRecords /\ policy.auto \in BOOLEAN /\ flags.pruning \in BOOLEAN
  BY DEF StorageInv, StorageTyped, PolicyRecords
<1>4. me \in Cleanups /\ me.pc = "decide" /\ me.listed = {} /\ me.list = <<>>
  BY <1>1, <1>3, NoCleanerTyped DEF NoCleaner, Cleanups
<1>5. FlagsOwned'
  BY <1>2, <1>4, FlagsTyped DEF FlagsOwned
<1>6. flags' \in [pruning : BOOLEAN, refreshing : BOOLEAN] /\ cleanups' \in 0..MaxCleanups
  <2>1. MaxCleanups \in Nat
    BY StorageAssumption
  <2>2. flags' \in [pruning : BOOLEAN, refreshing : BOOLEAN]
    BY <1>2, FlagsTyped
  <2>3. cleanups \in 0..MaxCleanups
    BY FlagsTyped
  <2> QED BY <1>2, <2>1, <2>2, <2>3
<1> QED BY <1>2, <1>4, <1>5, <1>6, FlagsTyped, TurnKeeps

LEMMA CleanStorageNowKept ==
    ASSUME StorageInv, NEW m \in Manual, CleanStorageNow(m)
    PROVE  StorageInv'
<1>1. PICK me : me = [NoCleaner EXCEPT !.pc = "quarantine", !.policy = policy, !.full = TRUE]
  OBVIOUS
<1>2. /\ cleaner[m].pc = "idle" /\ flags' = [flags EXCEPT !.pruning = TRUE]
      /\ cleaner' = [cleaner EXCEPT ![m] = me] /\ cleanups < MaxCleanups /\ cleanups' = cleanups + 1
      /\ UNCHANGED <<disk, row, journal>>
      /\ UNCHANGED <<captured, archiving, cached, analysis, policy, now>>
  BY <1>1 DEF CleanStorageNow, CleanerFrame
<1>3. policy \in PolicyRecords
  BY DEF StorageInv, StorageTyped
<1>4. me \in Cleanups /\ me.pc = "quarantine" /\ me.listed = {} /\ me.list = <<>>
  BY <1>1, <1>3, NoCleanerTyped DEF NoCleaner, Cleanups
<1>5. m \in Cleaners /\ m # Periodic
  BY StorageAssumption DEF Cleaners
<1>6. FlagsOwned'
  BY <1>2, <1>4, <1>5, FlagsTyped DEF FlagsOwned
<1>7. flags' \in [pruning : BOOLEAN, refreshing : BOOLEAN] /\ cleanups' \in 0..MaxCleanups
  <2>1. MaxCleanups \in Nat
    BY StorageAssumption
  <2>2. flags' \in [pruning : BOOLEAN, refreshing : BOOLEAN]
    BY <1>2, FlagsTyped
  <2>3. cleanups \in 0..MaxCleanups
    BY FlagsTyped
  <2> QED BY <1>2, <2>1, <2>2, <2>3
<1> QED BY <1>2, <1>4, <1>5, <1>6, <1>7, TurnKeeps

-----------------------------------------------------------------------------
(* The clock, the policy and the writers.                                  *)

\* Time passes only between cleanups, which have no list then.
LEMMA TickKept ==
    ASSUME StorageInv, Tick
    PROVE  StorageInv'
<1>1. /\ now < MaxTime /\ \A k \in Cleaners : cleaner[k].pc = "idle"
      /\ now' = now + 1
      /\ UNCHANGED <<disk, captured, row, archiving, cached, analysis, cleaner, flags, policy, journal, cleanups>>
  BY DEF Tick, Cleaning
<1>2. now \in 0..MaxTime /\ MaxTime \in Nat
  BY StorageAssumption DEF StorageInv, StorageTyped
<1>3. now' \in 0..MaxTime /\ now' >= now /\ now' \in Nat
  BY <1>1, <1>2
<1>4. StorageTyped'
  BY <1>1, <1>3 DEF StorageInv, StorageTyped, NoCleaner
<1>5. IsFiniteSet(Existing)' /\ Charged'
  BY <1>1, FewerFiles DEF Exists
<1>6. \A c \in All : CaptureSound(c)'
  BY <1>1, <1>3, CaptureStays DEF StorageInv
<1>7. \A k \in Cleaners : ListSound(cleaner[k])'
  <2> SUFFICES ASSUME NEW k \in Cleaners PROVE ListSound(cleaner[k])'
    OBVIOUS
  <2>1. PICK me : me = cleaner[k]
    OBVIOUS
  <2>2. me.listed = {} /\ me.list = <<>> /\ me.pc # "prune" /\ cleaner'[k] = me
    BY <1>1, <2>1, CleanupTyped
  <2>3. ListSound(me)'
    BY <2>2, EmptyListSound
  <2> QED BY <2>2, <2>3 DEF ListSound, Pruning, Reached, Left
<1>8. FlagsOwned'
  BY <1>1 DEF StorageInv, FlagsOwned
<1> QED BY <1>4, <1>5, <1>6, <1>7, <1>8 DEF StorageInv

LEMMA UpdateStoragePolicyKept ==
    ASSUME StorageInv, NEW p \in Policies, UpdateStoragePolicy(p)
    PROVE  StorageInv'
<1>1. /\ policy' = Normalized(p)
      /\ UNCHANGED <<disk, captured, row, archiving, cached, analysis, cleaner, flags, journal, now, cleanups>>
  BY DEF UpdateStoragePolicy
<1>2. policy' \in PolicyRecords
  BY <1>1, StorageAssumption DEF Normalized, PolicyRecords
<1>3. StorageTyped'
  BY <1>1, <1>2 DEF StorageInv, StorageTyped, NoCleaner
<1>4. IsFiniteSet(Existing)' /\ Charged'
  BY <1>1, FewerFiles DEF Exists
<1>5. \A c \in All : CaptureSound(c)'
  <2>1. now' >= now /\ now' \in Nat
    BY <1>1 DEF StorageInv, StorageTyped
  <2> QED BY <1>1, <2>1, CaptureStays DEF StorageInv
<1>6. \A k \in Cleaners : ListSound(cleaner[k])'
  BY <1>1, SameFiles, ListStays
<1>7. FlagsOwned'
  BY <1>1 DEF StorageInv, FlagsOwned
<1> QED BY <1>3, <1>4, <1>5, <1>6, <1>7 DEF StorageInv

\* One capture changes; nothing a cleanup has listed comes back.
LEMMA OneCapture ==
    ASSUME StorageInv, NEW c \in All,
           disk' \in [Files -> Records], captured' \in [All -> 0..MaxTime \cup {None}],
           row' \in [All -> Classes \cup {"none"}], archiving' \in All \cup {None},
           cached' \in Nat \cup {None}, analysis' \in [Captures -> Ends], journal' \in Nat,
           UNCHANGED <<cleaner, flags, policy, now, cleanups>>,
           \A d \in All \ {c} : /\ disk'[<<d, "iq">>] = disk[<<d, "iq">>]
                                /\ disk'[<<d, "json">>] = disk[<<d, "json">>]
                                /\ captured'[d] = captured[d]
                                /\ (archiving' = d) <=> (archiving = d)
                                /\ d \in Captures => analysis'[d] = analysis[d],
           CaptureSound(c)', Charged', IsFiniteSet(Existing)',
           \A f \in Files : Written(f) => Written(f)' /\ (Exists(f)' => Exists(f))
    PROVE  StorageInv'
<1>1. StorageTyped'
  BY DEF StorageInv, StorageTyped, NoCleaner
<1>2. \A d \in All : CaptureSound(d)'
  <2>1. now' >= now /\ now' \in Nat
    BY DEF StorageInv, StorageTyped
  <2>2. ASSUME NEW d \in All \ {c} PROVE CaptureSound(d)'
    BY <2>1, <2>2, CaptureStays DEF StorageInv
  <2> QED BY <2>2
<1>3. \A k \in Cleaners : ListSound(cleaner[k])'
  BY ListStays
<1>4. FlagsOwned'
  BY DEF StorageInv, FlagsOwned
<1> QED BY <1>1, <1>2, <1>3, <1>4 DEF StorageInv

LEMMA WhatIsUsed ==
    ASSUME StorageInv
    PROVE  /\ Used = Bytes(Existing) /\ Used \in Nat /\ Budget \in Nat /\ Footprint = Size["iq"] + Size["json"]
           /\ archiving = None => Used <= Budget
           /\ Footprint \in Nat /\ (cached # None => cached \in Nat)
<1>1. Used = Bytes(Existing)
  BY DEF Used, Existing
<1>2. Used \in Nat
  BY <1>1, BytesAreNumbers DEF StorageInv
<1>3. cached # None => cached \in Nat
  BY DEF StorageInv, StorageTyped
<1>4. Budget \in Nat /\ (archiving = None => Used <= Budget)
  <2> HIDE DEF Used
  <2>1. CASE cached = None
    BY <1>2, <2>1 DEF Budget
  <2>2. CASE cached # None
    BY <1>2, <1>3, <2>2 DEF Budget, StorageInv, Charged
  <2> QED BY <2>1, <2>2
<1>5. Footprint = Size["iq"] + Size["json"] /\ Footprint \in Nat
  BY SizesPositive DEF Footprint
<1> QED BY <1>1, <1>2, <1>3, <1>4, <1>5

\* One file is written.
LEMMA PutsOne ==
    ASSUME StorageInv, NEW f \in Files, NEW class \in Classes, Put(f, class)
    PROVE  /\ disk' \in [Files -> Records]
           /\ disk'[f] = [class |-> class, mtime |-> now] /\ Exists(f)'
           /\ \A g \in Files \ {f} : disk'[g] = disk[g] /\ (Exists(g)' <=> Exists(g))
           /\ Used' <= Used + Size[f[2]] /\ Used' \in Nat /\ IsFiniteSet(Existing)'
<1>1. disk \in [Files -> Records] /\ disk' = [disk EXCEPT ![f] = [class |-> class, mtime |-> now]]
  BY DEF StorageInv, StorageTyped, Put
<1>2. disk' \in [Files -> Records]
  BY <1>1 DEF StorageInv, StorageTyped, Records
<1>3. disk'[f] = [class |-> class, mtime |-> now] /\ Exists(f)'
  BY <1>1 DEF Exists, Classes
<1>4. \A g \in Files \ {f} : disk'[g] = disk[g] /\ (Exists(g)' <=> Exists(g))
  BY <1>1 DEF Exists
<1>5. Existing' \subseteq Existing \cup {f}
  BY <1>4 DEF Existing
<1>6. Used = Bytes(Existing) /\ Used' = Bytes(Existing')
  BY DEF Used, Existing
<1>7. /\ Bytes(Existing') <= Bytes(Existing) + Size[f[2]] /\ IsFiniteSet(Existing')
      /\ Bytes(Existing') \in Nat
  <2>1. IsFiniteSet(Existing)
    BY DEF StorageInv
  <2> HIDE DEF Existing
  <2> QED BY <1>5, <2>1, BytesGrow
<1> QED BY <1>2, <1>3, <1>4, <1>6, <1>7

LEMMA CapturesKnown ==
    ASSUME NEW c \in All
    PROVE  /\ c # None /\ None \notin Captures /\ None \notin Originals /\ None \notin All
           /\ c \in Originals <=> c \notin Captures
           /\ <<c, "iq">> \in Files /\ <<c, "json">> \in Files /\ <<c, "iq">> # <<c, "json">>
BY FilesKnown, StorageAssumption DEF All

LEMMA WriteOriginalKept ==
    ASSUME StorageInv, NEW o \in All, WriteOriginal(o)
    PROVE  StorageInv'
<1> DEFINE iq == <<o, "iq">>
           json == <<o, "json">>
<1>1. /\ o \in Originals /\ New(o) /\ archiving = None /\ Put(iq, "Archive")
      /\ captured' = [captured EXCEPT ![o] = now] /\ cached' = Budget + Footprint /\ archiving' = o
      /\ UNCHANGED <<row, analysis, cleaner, flags, policy, journal, now, cleanups>>
  BY DEF WriteOriginal
<1>2. CaptureSound(o) /\ now \in 0..MaxTime /\ captured \in [All -> 0..MaxTime \cup {None}] /\ MaxTime \in Nat
  BY StorageAssumption DEF StorageInv, StorageTyped
<1>3. o # None /\ None \notin All /\ o \notin Captures /\ iq \in Files /\ json \in Files /\ iq # json
      /\ None \notin Nat
  BY <1>1, CapturesKnown, StorageAssumption
<1>4. /\ disk' \in [Files -> Records]
      /\ disk'[iq] = [class |-> "Archive", mtime |-> now] /\ Exists(iq)'
      /\ \A g \in Files \ {iq} : disk'[g] = disk[g] /\ (Exists(g)' <=> Exists(g))
      /\ Used' <= Used + Size["iq"] /\ Used' \in Nat /\ IsFiniteSet(Existing)'
  BY <1>1, <1>3, PutsOne DEF Classes
<1>5. ~New(o)' /\ captured' \in [All -> 0..MaxTime \cup {None}] /\ \A d \in All \ {o} : captured'[d] = captured[d]
  BY <1>1, <1>2, <1>3 DEF New
<1>6. Charged'
  <2>1. Used' + Size["json"] <= cached' /\ cached' \in Nat
    <3> HIDE DEF Used
    <3> QED BY <1>1, <1>4, WhatIsUsed, SizesPositive
  <2> QED BY <1>1, <1>3, <2>1 DEF Charged
<1>7. ~Exists(json) /\ ~Exists(json)' /\ disk'[json] = disk[json] /\ disk[json].mtime <= now
  BY <1>1, <1>2, <1>3, <1>4 DEF CaptureSound
<1>8. CaptureSound(o)'
  <2>1. At(iq, "Archive")' /\ disk'[iq].mtime <= now'
    BY <1>1, <1>2, <1>4 DEF At
  <2> QED BY <1>1, <1>3, <1>5, <1>7, <2>1 DEF CaptureSound
<1>9. \A f \in Files : Written(f) => Written(f)' /\ (Exists(f)' => Exists(f))
  <2> SUFFICES ASSUME NEW f \in Files, Written(f) PROVE Written(f)' /\ (Exists(f)' => Exists(f))
    OBVIOUS
  <2>1. f[1] # o /\ f[1] \in All /\ f # iq
    BY <1>1, FilesKnown DEF Written
  <2> QED BY <1>1, <1>4, <1>5, <2>1 DEF Written, New
<1>10. \A d \in All \ {o} : /\ disk'[<<d, "iq">>] = disk[<<d, "iq">>]
                            /\ disk'[<<d, "json">>] = disk[<<d, "json">>]
                            /\ captured'[d] = captured[d] /\ ((archiving' = d) <=> (archiving = d))
  BY <1>1, <1>3, <1>4, <1>5, FilesKnown
<1>11. cached' \in Nat \cup {None} /\ archiving' \in All \cup {None}
  BY <1>1, WhatIsUsed
<1>12. row' \in [All -> Classes \cup {"none"}] /\ analysis' \in [Captures -> Ends] /\ journal' \in Nat
  BY <1>1 DEF StorageInv, StorageTyped
<1> QED BY <1>1, <1>4, <1>5, <1>6, <1>8, <1>9, <1>10, <1>11, <1>12, OneCapture

LEMMA RefuseOriginalKept ==
    ASSUME StorageInv, NEW o \in All, RefuseOriginal(o)
    PROVE  StorageInv'
<1>1. /\ archiving = None /\ cached' = Budget
      /\ UNCHANGED <<disk, captured, row, archiving, analysis, cleaner, flags, policy, journal, now, cleanups>>
  BY DEF RefuseOriginal
<1>2. Used' = Used /\ Existing' = Existing /\ IsFiniteSet(Existing)
  BY <1>1 DEF Used, Existing, Exists, StorageInv
<1>3. Charged'
  <2>1. archiving' \notin Captures /\ archiving' \notin Originals
    BY <1>1, CapturesKnown
  <2>2. Used' <= cached'
    BY <1>1, <1>2, WhatIsUsed
  <2> QED BY <2>1, <2>2 DEF Charged
<1>4. \A f \in Files : Written(f) => Written(f)' /\ (Exists(f)' => Exists(f))
  BY <1>1 DEF Written, Exists, New
<1>5. CaptureSound(o)'
  <2>1. now' >= now /\ now' \in Nat
    BY <1>1 DEF StorageInv, StorageTyped
  <2> QED BY <1>1, <2>1, CaptureStays DEF StorageInv
<1>6. cached' \in Nat \cup {None} /\ IsFiniteSet(Existing)'
  BY <1>1, <1>2, WhatIsUsed
<1>7. /\ disk' \in [Files -> Records] /\ captured' \in [All -> 0..MaxTime \cup {None}]
      /\ row' \in [All -> Classes \cup {"none"}] /\ archiving' \in All \cup {None}
      /\ analysis' \in [Captures -> Ends] /\ journal' \in Nat
  BY <1>1 DEF StorageInv, StorageTyped
<1> QED BY <1>1, <1>3, <1>4, <1>5, <1>6, <1>7, OneCapture

LEMMA WriteEvidenceKept ==
    ASSUME StorageInv, NEW c \in All, WriteEvidence(c)
    PROVE  StorageInv'
<1> DEFINE iq == <<c, "iq">>
           json == <<c, "json">>
<1>1. /\ c \in Captures /\ New(c) /\ archiving = None /\ Put(iq, "Pending")
      /\ captured' = [captured EXCEPT ![c] = now] /\ archiving' = c
      /\ UNCHANGED <<row, cached, analysis, cleaner, flags, policy, journal, now, cleanups>>
  BY DEF WriteEvidence
<1>2. CaptureSound(c) /\ now \in 0..MaxTime /\ captured \in [All -> 0..MaxTime \cup {None}] /\ MaxTime \in Nat
  BY StorageAssumption DEF StorageInv, StorageTyped
<1>3. c # None /\ None \notin All /\ c \notin Originals /\ iq \in Files /\ json \in Files /\ iq # json
      /\ None \notin Nat
  BY <1>1, CapturesKnown, StorageAssumption
<1>4. /\ disk' \in [Files -> Records]
      /\ disk'[iq] = [class |-> "Pending", mtime |-> now] /\ Exists(iq)'
      /\ \A g \in Files \ {iq} : disk'[g] = disk[g] /\ (Exists(g)' <=> Exists(g))
      /\ Used' <= Used + Size["iq"] /\ Used' \in Nat /\ IsFiniteSet(Existing)'
  BY <1>1, <1>3, PutsOne DEF Classes
<1>5. ~New(c)' /\ captured' \in [All -> 0..MaxTime \cup {None}] /\ \A d \in All \ {c} : captured'[d] = captured[d]
  BY <1>1, <1>2, <1>3 DEF New
<1>6. Charged'
  <2>1. cached # None => Used' <= cached + Size["iq"]
    <3>1. cached # None => Used <= cached /\ cached \in Nat
      BY <1>1, WhatIsUsed DEF StorageInv, Charged
    <3> HIDE DEF Used
    <3> QED BY <1>4, <3>1, WhatIsUsed, SizesPositive
  <2> QED BY <1>1, <1>3, <2>1 DEF Charged
<1>7. ~Exists(json) /\ ~Exists(json)' /\ disk'[json] = disk[json] /\ disk[json].mtime <= now
      /\ analysis[c].pc = "idle"
  BY <1>1, <1>2, <1>3, <1>4 DEF CaptureSound
<1>8. CaptureSound(c)'
  <2>1. At(iq, "Pending")' /\ disk'[iq].mtime <= now'
    BY <1>1, <1>2, <1>4 DEF At
  <2> QED BY <1>1, <1>3, <1>5, <1>7, <2>1 DEF CaptureSound
<1>9. \A f \in Files : Written(f) => Written(f)' /\ (Exists(f)' => Exists(f))
  <2> SUFFICES ASSUME NEW f \in Files, Written(f) PROVE Written(f)' /\ (Exists(f)' => Exists(f))
    OBVIOUS
  <2>1. f[1] # c /\ f[1] \in All /\ f # iq
    BY <1>1, FilesKnown DEF Written
  <2> QED BY <1>1, <1>4, <1>5, <2>1 DEF Written, New
<1>10. \A d \in All \ {c} : /\ disk'[<<d, "iq">>] = disk[<<d, "iq">>]
                            /\ disk'[<<d, "json">>] = disk[<<d, "json">>]
                            /\ captured'[d] = captured[d] /\ ((archiving' = d) <=> (archiving = d))
  BY <1>1, <1>3, <1>4, <1>5, FilesKnown
<1>11. cached' \in Nat \cup {None} /\ archiving' \in All \cup {None}
  BY <1>1 DEF StorageInv, StorageTyped
<1>12. row' \in [All -> Classes \cup {"none"}] /\ analysis' \in [Captures -> Ends] /\ journal' \in Nat
  BY <1>1 DEF StorageInv, StorageTyped
<1> QED BY <1>1, <1>4, <1>5, <1>6, <1>8, <1>9, <1>10, <1>11, <1>12, OneCapture

\* The sidecar of either kind, in the class of the IQ.
LEMMA SidecarKeeps ==
    ASSUME StorageInv, NEW c \in All, archiving = c,
           NEW class, class = (IF c \in Captures THEN "Pending" ELSE "Archive"), Put(<<c, "json">>, class),
           row' = [row EXCEPT ![c] = class], archiving' = None, journal' \in Nat,
           cached' = (IF c \in Captures /\ cached # None THEN cached + Footprint ELSE cached),
           UNCHANGED <<captured, analysis, cleaner, flags, policy, now, cleanups>>
    PROVE  StorageInv'
<1> DEFINE iq == <<c, "iq">>
           json == <<c, "json">>
<1>1. CaptureSound(c) /\ now \in 0..MaxTime /\ MaxTime \in Nat /\ class \in Classes
  BY StorageAssumption DEF StorageInv, StorageTyped, Classes
<1>2. c # None /\ None \notin All /\ (c \in Originals <=> c \notin Captures)
      /\ iq \in Files /\ json \in Files /\ iq # json /\ None \notin Captures /\ None \notin Originals
      /\ None \notin Nat
  BY CapturesKnown, StorageAssumption
<1>3. /\ disk' \in [Files -> Records]
      /\ disk'[json] = [class |-> class, mtime |-> now] /\ Exists(json)'
      /\ \A g \in Files \ {json} : disk'[g] = disk[g] /\ (Exists(g)' <=> Exists(g))
      /\ Used' <= Used + Size["json"] /\ Used' \in Nat /\ IsFiniteSet(Existing)'
  BY <1>1, <1>2, PutsOne
<1>4. ~New(c) /\ ~New(c)' /\ (c \in Captures => analysis'[c].pc = "idle") /\ (Exists(iq) => At(iq, class))
      /\ disk[iq].mtime <= now
  BY <1>1 DEF CaptureSound, New
<1>5. Charged'
  <2>1. cached' # None => Used' <= cached'
    <3> SUFFICES ASSUME cached' # None PROVE Used' <= cached'
      OBVIOUS
    <3>1. cached # None /\ cached \in Nat
      BY <1>2, WhatIsUsed
    <3>2. CASE c \in Captures
      <4>1. Used <= cached + Size["iq"]
        BY <3>1, <3>2 DEF StorageInv, Charged
      <4>2. cached' = cached + (Size["iq"] + Size["json"])
        BY <3>1, <3>2, WhatIsUsed
      <4> HIDE DEF Used
      <4> QED BY <1>3, <3>1, <4>1, <4>2, WhatIsUsed, SizesPositive
    <3>3. CASE c \notin Captures
      <4>1. Used + Size["json"] <= cached /\ cached' = cached
        BY <1>2, <3>1, <3>3 DEF StorageInv, Charged
      <4> HIDE DEF Used
      <4> QED BY <1>3, <3>1, <4>1, WhatIsUsed, SizesPositive
    <3> QED BY <3>2, <3>3
  <2> QED BY <1>2, <2>1 DEF Charged
<1>6. CaptureSound(c)'
  <2>1. At(json, class)' /\ disk'[json].mtime = now /\ disk'[iq] = disk[iq] /\ now' = now
    BY <1>2, <1>3 DEF At
  <2>2. Exists(iq)' => disk'[iq].class = class
    BY <1>2, <1>3, <1>4, <2>1 DEF At
  <2>3. now <= now
    BY <1>1
  <2> QED BY <1>2, <1>3, <1>4, <2>1, <2>2, <2>3 DEF CaptureSound
<1>7. \A f \in Files : Written(f) => Written(f)' /\ (Exists(f)' => Exists(f))
  <2> SUFFICES ASSUME NEW f \in Files, Written(f) PROVE Written(f)' /\ (Exists(f)' => Exists(f))
    OBVIOUS
  <2>1. f # json /\ f[1] \in All
    BY FilesKnown DEF Written
  <2> QED BY <1>2, <1>3, <2>1 DEF Written, New
<1>8. \A d \in All \ {c} : /\ disk'[<<d, "iq">>] = disk[<<d, "iq">>]
                           /\ disk'[<<d, "json">>] = disk[<<d, "json">>]
                           /\ captured'[d] = captured[d] /\ ((archiving' = d) <=> (archiving = d))
  BY <1>2, <1>3, FilesKnown
<1>9. cached' \in Nat \cup {None} /\ archiving' \in All \cup {None}
  BY WhatIsUsed
<1>10. /\ row' \in [All -> Classes \cup {"none"}] /\ analysis' \in [Captures -> Ends]
       /\ captured' \in [All -> 0..MaxTime \cup {None}]
  BY <1>1 DEF StorageInv, StorageTyped
<1> QED BY <1>3, <1>5, <1>6, <1>7, <1>8, <1>9, <1>10, OneCapture

LEMMA WriterStepKept ==
    ASSUME StorageInv, NEW c \in All, WriterStep(c)
    PROVE  StorageInv'
<1>1. journal \in Nat
  BY DEF StorageInv, StorageTyped
<1>2. CASE WriteOriginalSidecar(c)
  <2>1. c \notin Captures
    BY <1>2, CapturesKnown DEF WriteOriginalSidecar
  <2>2. PICK class : class = "Archive"
    OBVIOUS
  <2>3. /\ archiving = c /\ Put(<<c, "json">>, class) /\ row' = [row EXCEPT ![c] = class]
        /\ archiving' = None /\ journal' \in Nat
        /\ UNCHANGED <<captured, cached, analysis, cleaner, flags, policy, now, cleanups>>
    BY <1>1, <1>2, <2>2 DEF WriteOriginalSidecar
  <2>4. /\ class = (IF c \in Captures THEN "Pending" ELSE "Archive")
        /\ cached' = (IF c \in Captures /\ cached # None THEN cached + Footprint ELSE cached)
    BY <2>1, <2>2, <2>3
  <2> QED BY <2>3, <2>4, SidecarKeeps
<1>3. CASE WriteEvidenceSidecar(c)
  <2>1. PICK class : class = "Pending"
    OBVIOUS
  <2> QED BY <1>1, <1>3, <2>1, SidecarKeeps DEF WriteEvidenceSidecar
<1> QED BY <1>2, <1>3 DEF WriterStep

-----------------------------------------------------------------------------
(* The end of an analysis.                                                 *)

\* An analysis touches the files of its capture and writes no new one.
LEMMA AnalysisKeeps ==
    ASSUME StorageInv, NEW c \in Captures, NEW end \in Ends,
           analysis' = [analysis EXCEPT ![c] = end],
           disk' \in [Files -> Records], \A f \in Files : Exists(f)' => Exists(f),
           \A f \in Files : f[1] # c => disk'[f] = disk[f],
           row' \in [All -> Classes \cup {"none"}],
           UNCHANGED <<captured, archiving, cached, cleaner, flags, policy, journal, now, cleanups>>,
           CaptureSound(c)'
    PROVE  StorageInv'
<1>1. c \in All
  BY DEF All
<1>2. IsFiniteSet(Existing)' /\ Charged'
  BY FewerFiles
<1>3. \A f \in Files : Written(f) => Written(f)' /\ (Exists(f)' => Exists(f))
  BY Shrinks
<1>4. /\ captured' \in [All -> 0..MaxTime \cup {None}] /\ archiving' \in All \cup {None}
      /\ cached' \in Nat \cup {None} /\ analysis' \in [Captures -> Ends] /\ journal' \in Nat
      /\ \A d \in Captures \ {c} : analysis'[d] = analysis[d]
  BY DEF StorageInv, StorageTyped
<1>5. \A d \in All \ {c} : /\ disk'[<<d, "iq">>] = disk[<<d, "iq">>]
                           /\ disk'[<<d, "json">>] = disk[<<d, "json">>]
                           /\ captured'[d] = captured[d] /\ ((archiving' = d) <=> (archiving = d))
                           /\ d \in Captures => analysis'[d] = analysis[d]
  BY <1>4, FilesKnown
<1> QED BY <1>1, <1>2, <1>3, <1>4, <1>5, OneCapture

\* What is known when an analysis is at c.
LEMMA AtCapture ==
    ASSUME StorageInv, NEW c \in Captures
    PROVE  /\ c \in All /\ CaptureSound(c) /\ disk \in [Files -> Records] /\ analysis \in [Captures -> Ends]
           /\ <<c, "iq">> \in Files /\ <<c, "json">> \in Files /\ <<c, "iq">> # <<c, "json">>
           /\ row \in [All -> Classes \cup {"none"}] /\ Absent \in Records
           /\ now \in 0..MaxTime /\ MaxTime \in Nat /\ now \in Nat
<1>1. c \in All
  BY DEF All
<1>2. MaxTime \in Nat
  BY StorageAssumption
<1> QED BY <1>1, <1>2, CapturesKnown DEF StorageInv, StorageTyped, Absent, Records

LEMMA DeleteEvidenceKept ==
    ASSUME StorageInv, NEW c \in Captures, DeleteEvidence(c)
    PROVE  StorageInv'
<1> DEFINE iq == <<c, "iq">>
           json == <<c, "json">>
<1>1. /\ analysis[c].pc = "idle" /\ At(json, "Pending")
      /\ disk' = [disk EXCEPT ![iq] = Absent]
      /\ UNCHANGED <<captured, row, archiving, cached, cleaner, flags, policy, journal, now, cleanups>>
  BY DEF DeleteEvidence
<1>2. PICK end : end = [pc |-> "remove", dest |-> "none"]
  OBVIOUS
<1>3. analysis' = [analysis EXCEPT ![c] = end] /\ end \in Ends /\ end.pc = "remove"
  BY <1>2 DEF DeleteEvidence, Analysing, Ends
<1>4. /\ disk' \in [Files -> Records] /\ disk'[iq] = Absent /\ ~Exists(iq)' /\ disk'[json] = disk[json]
      /\ \A f \in Files : Exists(f)' => Exists(f)
      /\ \A f \in Files : f[1] # c => disk'[f] = disk[f]
  BY <1>1, AtCapture DEF Exists, Absent
<1>5. Exists(json) /\ ~New(c)' /\ archiving' # c /\ disk[json].mtime <= now
  BY <1>1, AtCapture DEF CaptureSound, At, Exists, New
<1>6. CaptureSound(c)'
  <2>1. analysis'[c] = end /\ now' = now /\ disk'[iq].mtime <= now
    BY <1>1, <1>3, <1>4, AtCapture DEF Absent
  <2> QED BY <1>3, <1>4, <1>5, <2>1 DEF CaptureSound
<1> QED BY <1>1, <1>3, <1>4, <1>6, AtCapture, AnalysisKeeps

LEMMA RemoveSidecarKept ==
    ASSUME StorageInv, NEW c \in Captures, RemoveSidecar(c)
    PROVE  StorageInv'
<1> DEFINE iq == <<c, "iq">>
           json == <<c, "json">>
<1>1. /\ analysis[c].pc = "remove"
      /\ disk' = [disk EXCEPT ![json] = Absent]
      /\ UNCHANGED <<captured, row, archiving, cached, cleaner, flags, policy, journal, now, cleanups>>
  BY DEF RemoveSidecar
<1>2. PICK end : end = [pc |-> "store", dest |-> "none"]
  OBVIOUS
<1>3. analysis' = [analysis EXCEPT ![c] = end] /\ end \in Ends /\ end.pc = "store"
  BY <1>2 DEF RemoveSidecar, Analysing, Ends
<1>4. /\ disk' \in [Files -> Records] /\ disk'[json] = Absent /\ ~Exists(json)' /\ disk'[iq] = disk[iq]
      /\ \A f \in Files : Exists(f)' => Exists(f)
      /\ \A f \in Files : f[1] # c => disk'[f] = disk[f]
  <2>1. disk' \in [Files -> Records] /\ disk'[json] = Absent /\ disk'[iq] = disk[iq]
    BY <1>1, AtCapture
  <2>2. \A f \in Files : disk'[f] = disk[f] \/ disk'[f] = Absent
    BY <1>1, AtCapture
  <2>3. \A f \in Files : f[1] # c => disk'[f] = disk[f]
    BY <1>1, AtCapture
  <2> QED BY <2>1, <2>2, <2>3 DEF Exists, Absent
<1>5. ~Exists(iq) /\ ~Exists(iq)' /\ ~New(c)' /\ archiving' # c /\ disk[iq].mtime <= now
  BY <1>1, <1>4, AtCapture DEF CaptureSound, Exists, New
<1>6. CaptureSound(c)'
  <2>1. analysis'[c] = end /\ now' = now /\ disk'[json].mtime <= now
    <3>1. Absent.mtime = 0
      BY DEF Absent
    <3>2. 0 <= now
      <4>1. now \in Nat
        BY AtCapture
      <4> QED BY <4>1
    <3> QED BY <1>1, <1>3, <1>4, <3>1, <3>2, AtCapture
  <2> QED BY <1>3, <1>4, <1>5, <2>1 DEF CaptureSound
<1> QED BY <1>1, <1>3, <1>4, <1>6, AtCapture, AnalysisKeeps

LEMMA RewriteSidecarKept ==
    ASSUME StorageInv, NEW c \in Captures, NEW dest \in {"Retained", "Quarantine"},
           RewriteSidecar(c, dest)
    PROVE  StorageInv'
<1> DEFINE iq == <<c, "iq">>
           json == <<c, "json">>
<1>1. /\ analysis[c].pc = "idle" /\ At(json, "Pending") /\ Put(json, "Pending")
      /\ UNCHANGED <<captured, row, archiving, cached, cleaner, flags, policy, journal, now, cleanups>>
  BY DEF RewriteSidecar
<1>2. PICK end : end = [pc |-> "rename", dest |-> dest]
  OBVIOUS
<1>3. analysis' = [analysis EXCEPT ![c] = end] /\ end \in Ends /\ end.pc = "rename"
      /\ end.dest \in {"Retained", "Quarantine"}
  BY <1>2 DEF RewriteSidecar, Analysing, Ends, Classes
<1>4. /\ disk' \in [Files -> Records] /\ disk'[json] = [class |-> "Pending", mtime |-> now] /\ Exists(json)'
      /\ disk'[iq] = disk[iq] /\ \A f \in Files : f[1] # c => disk'[f] = disk[f]
      /\ (Exists(iq)' <=> Exists(iq))
  <2>1. "Pending" \in Classes
    BY DEF Classes
  <2>2. /\ disk' \in [Files -> Records] /\ disk'[json] = [class |-> "Pending", mtime |-> now] /\ Exists(json)'
        /\ \A g \in Files \ {json} : disk'[g] = disk[g] /\ (Exists(g)' <=> Exists(g))
    BY <1>1, <2>1, AtCapture, PutsOne
  <2> QED BY <2>2, AtCapture
<1>5. Exists(json) /\ ~New(c)' /\ archiving' # c /\ disk[iq].mtime <= now
      /\ (Exists(iq) => At(json, disk[iq].class))
  BY <1>1, AtCapture DEF CaptureSound, At, Exists, New
<1>6. \A f \in Files : Exists(f)' => Exists(f)
  <2>1. \A f \in Files : f = json \/ f = iq \/ f[1] # c
    BY FilesKnown
  <2> QED BY <1>4, <1>5, <2>1 DEF Exists
<1>7. CaptureSound(c)'
  <2>1. analysis'[c] = end /\ now' = now /\ disk'[json].mtime = now /\ At(json, "Pending")'
    BY <1>1, <1>3, <1>4, AtCapture DEF At
  <2>2. Exists(iq)' => disk'[iq].class = "Pending"
    BY <1>1, <1>4, <1>5 DEF At
  <2>3. now <= now
    <3>1. now \in Nat
      BY AtCapture
    <3> QED BY <3>1
  <2> QED BY <1>3, <1>4, <1>5, <2>1, <2>2, <2>3 DEF CaptureSound
<1> QED BY <1>1, <1>3, <1>4, <1>6, <1>7, AtCapture, AnalysisKeeps

LEMMA RenameIQKept ==
    ASSUME StorageInv, NEW c \in Captures, RenameIQ(c)
    PROVE  StorageInv'
<1> DEFINE iq == <<c, "iq">>
           json == <<c, "json">>
<1>0. PICK dest : dest = analysis[c].dest
  OBVIOUS
<1>1. /\ analysis[c].pc = "rename"
      /\ UNCHANGED <<captured, row, archiving, cached, cleaner, flags, policy, journal, now, cleanups>>
  BY DEF RenameIQ
<1>2. ~New(c) /\ ~New(c)' /\ archiving' # c /\ archiving # c /\ dest \in {"Retained", "Quarantine"}
      /\ disk[iq].mtime <= now /\ disk[json].mtime <= now
      /\ (Exists(iq) => At(json, disk[iq].class) /\ disk[iq].mtime <= disk[json].mtime)
  BY <1>0, <1>1, AtCapture DEF CaptureSound, New, At, Exists
<1>3. CASE At(iq, "Pending")
  <2>1. disk' = [disk EXCEPT ![iq].class = dest]
    BY <1>0, <1>3 DEF RenameIQ
  <2>2. PICK end : end = [pc |-> "sidecar", dest |-> dest]
    OBVIOUS
  <2>3. analysis' = [analysis EXCEPT ![c] = end] /\ end \in Ends /\ end.pc = "sidecar" /\ end.dest = dest
    BY <1>0, <1>2, <1>3, <2>2 DEF RenameIQ, Analysing, Ends, Classes
  <2>4. disk[iq] \in Records
    BY AtCapture
  <2>5. /\ disk'[iq].class = dest /\ disk'[iq].mtime = disk[iq].mtime /\ disk'[iq] \in Records
    BY <1>2, <2>1, <2>4, AtCapture DEF Records, Classes
  <2>6. /\ disk' \in [Files -> Records] /\ disk'[json] = disk[json] /\ \A f \in Files : f # iq => disk'[f] = disk[f]
    BY <2>1, <2>5, AtCapture
  <2>7. Exists(iq) /\ At(json, "Pending")
    BY <1>2, <1>3 DEF At, Exists
  <2>8. \A f \in Files : (Exists(f)' => Exists(f)) /\ (f[1] # c => disk'[f] = disk[f])
    BY <2>6, <2>7 DEF Exists
  <2>9. CaptureSound(c)'
    <3>1. analysis'[c] = end /\ now' = now /\ At(json, "Pending")' /\ At(iq, end.dest)' /\ Exists(json)'
      BY <1>1, <2>3, <2>5, <2>6, <2>7, AtCapture DEF At, Exists
    <3> QED BY <1>2, <2>3, <2>5, <2>6, <2>7, <3>1 DEF CaptureSound, At
  <2> QED BY <1>1, <2>3, <2>6, <2>8, <2>9, AtCapture, AnalysisKeeps
<1>4. CASE ~At(iq, "Pending")
  <2>1. PICK end : end = [pc |-> "done", dest |-> "none"]
    OBVIOUS
  <2>2. analysis' = [analysis EXCEPT ![c] = end] /\ end \in Ends /\ end.pc = "done" /\ disk' = disk
    BY <1>4, <2>1 DEF RenameIQ, Analysing, Ends
  <2>3. CaptureSound(c)'
    <3>1. analysis'[c] = end /\ now' = now
      BY <1>1, <2>2, AtCapture
    <3> QED BY <1>2, <2>2, <3>1 DEF CaptureSound, At, Exists
  <2> QED BY <1>1, <2>2, <2>3, AtCapture, AnalysisKeeps DEF Exists
<1> QED BY <1>3, <1>4

\* Only IQ that is gone goes without its sidecar.
LEMMA RenameSidecarKept ==
    ASSUME StorageInv, NEW c \in Captures, RenameSidecar(c)
    PROVE  StorageInv'
<1> DEFINE iq == <<c, "iq">>
           json == <<c, "json">>
<1>0. PICK dest : dest = analysis[c].dest
  OBVIOUS
<1>1. /\ analysis[c].pc = "sidecar"
      /\ UNCHANGED <<captured, row, archiving, cached, cleaner, flags, policy, journal, now, cleanups>>
  BY DEF RenameSidecar
<1>2. ~New(c) /\ ~New(c)' /\ archiving' # c /\ archiving # c /\ dest \in {"Retained", "Quarantine"}
      /\ disk[iq].mtime <= now /\ disk[json].mtime <= now
      /\ (Exists(iq) => At(json, "Pending") /\ At(iq, dest))
      /\ (Exists(iq) /\ Exists(json) => disk[iq].mtime <= disk[json].mtime)
  BY <1>0, <1>1, AtCapture DEF CaptureSound, New
<1>3. CASE /\ At(json, "Pending") /\ disk' = [disk EXCEPT ![json].class = dest]
           /\ Analysing(c, "store", dest)
  <2>1. PICK end : end = [pc |-> "store", dest |-> dest]
    OBVIOUS
  <2>2. analysis' = [analysis EXCEPT ![c] = end] /\ end \in Ends /\ end.pc = "store"
    BY <1>2, <1>3, <2>1 DEF Analysing, Ends, Classes
  <2>3. disk[json] \in Records
    BY AtCapture
  <2>4. /\ disk'[json].class = dest /\ disk'[json].mtime = disk[json].mtime /\ disk'[json] \in Records
    BY <1>2, <1>3, <2>3, AtCapture DEF Records, Classes
  <2>5. /\ disk' \in [Files -> Records] /\ disk'[iq] = disk[iq] /\ \A f \in Files : f # json => disk'[f] = disk[f]
    BY <1>3, <2>4, AtCapture
  <2>6. Exists(json)
    BY <1>3 DEF At, Exists
  <2>7. \A f \in Files : (Exists(f)' => Exists(f)) /\ (f[1] # c => disk'[f] = disk[f])
    BY <2>5, <2>6 DEF Exists
  <2>8. CaptureSound(c)'
    <3>1. analysis'[c] = end /\ now' = now /\ At(json, dest)'
      BY <1>1, <2>2, <2>4, AtCapture DEF At
    <3>2. Exists(iq)' => Exists(iq) /\ disk'[iq].class = dest
      BY <1>2, <2>5 DEF At, Exists
    <3> QED BY <1>2, <2>2, <2>4, <2>5, <2>6, <3>1, <3>2 DEF CaptureSound
  <2> QED BY <1>1, <2>2, <2>5, <2>7, <2>8, AtCapture, AnalysisKeeps
<1>4. CASE /\ ~At(json, "Pending") \/ ~Exists(iq)
           /\ disk' = [disk EXCEPT ![iq].class = IF @ = dest THEN "Pending" ELSE @]
           /\ Analysing(c, "done", "none")
  <2>1. PICK end : end = [pc |-> "done", dest |-> "none"]
    OBVIOUS
  <2>2. analysis' = [analysis EXCEPT ![c] = end] /\ end \in Ends /\ end.pc = "done"
    BY <1>4, <2>1 DEF Analysing, Ends
  <2>3. ~Exists(iq) /\ disk[iq].class = "none" /\ disk[iq].class # dest
    BY <1>2, <1>4 DEF Exists
  <2>4. disk' = disk
    <3>1. disk[iq] \in Records
      BY AtCapture
    <3>2. [disk[iq] EXCEPT !.class = "none"] = disk[iq]
      BY <2>3, <3>1 DEF Records
    <3>3. disk' = [disk EXCEPT ![iq] = [disk[iq] EXCEPT !.class = "none"]]
      BY <1>4, <2>3
    <3> QED BY <3>2, <3>3, AtCapture
  <2>5. CaptureSound(c)'
    <3>1. analysis'[c] = end /\ now' = now
      BY <1>1, <2>2, AtCapture
    <3> QED BY <1>2, <2>2, <2>3, <2>4, <3>1 DEF CaptureSound, At, Exists
  <2> QED BY <1>1, <2>2, <2>4, <2>5, AtCapture, AnalysisKeeps DEF Exists
<1> QED BY <1>0, <1>3, <1>4 DEF RenameSidecar

LEMMA StorePathKept ==
    ASSUME StorageInv, NEW c \in Captures, StorePath(c)
    PROVE  StorageInv'
<1>1. /\ analysis[c].pc = "store" /\ row' = [row EXCEPT ![c] = analysis[c].dest]
      /\ UNCHANGED <<disk, captured, archiving, cached, cleaner, flags, policy, journal, now, cleanups>>
  BY DEF StorePath
<1>2. PICK end : end = [pc |-> "done", dest |-> "none"]
  OBVIOUS
<1>3. analysis' = [analysis EXCEPT ![c] = end] /\ end \in Ends /\ end.pc = "done"
  BY <1>2 DEF StorePath, Analysing, Ends
<1>4. row' \in [All -> Classes \cup {"none"}]
  <2>1. analysis[c].dest \in Classes \cup {"none"}
    BY AtCapture DEF Ends
  <2> QED BY <1>1, <2>1, AtCapture
<1>5. CaptureSound(c)'
  <2>1. analysis'[c] = end /\ now' = now
    BY <1>1, <1>3, AtCapture
  <2> QED BY <1>1, <1>3, <2>1, AtCapture DEF CaptureSound, At, Exists, New
<1> QED BY <1>1, <1>3, <1>4, <1>5, AtCapture, AnalysisKeeps DEF Exists

-----------------------------------------------------------------------------
(* The theorems.                                                           *)

LEMMA InitiallySound ==
    ASSUME Init
    PROVE  StorageInv
<1>1. StorageTyped
  <2>1. disk \in [Files -> Records] /\ MaxTime \in Nat /\ MaxCleanups \in Nat
    BY StorageAssumption DEF Init, Absent, Records
  <2>2. cleaner \in [Cleaners -> Cleanups] /\ \A k \in Cleaners : cleaner[k] = NoCleaner
    BY NoCleanerTyped DEF Init
  <2>3. analysis \in [Captures -> Ends]
    BY DEF Init, NoAnalysis, Ends
  <2>4. /\ captured \in [All -> 0..MaxTime \cup {None}] /\ row \in [All -> Classes \cup {"none"}]
        /\ archiving \in All \cup {None} /\ cached \in Nat \cup {None}
        /\ flags \in [pruning : BOOLEAN, refreshing : BOOLEAN] /\ policy \in PolicyRecords
        /\ journal \in Nat
    BY StorageAssumption DEF Init
  <2>5. now \in 0..MaxTime /\ cleanups \in 0..MaxCleanups
    BY <2>1 DEF Init
  <2> QED BY <2>1, <2>2, <2>3, <2>4, <2>5, NoCleanerTyped DEF StorageTyped
<1>2. \A f \in Files : ~Exists(f) /\ disk[f].class = "none" /\ disk[f].mtime = 0
  BY DEF Init, Absent, Exists
<1>3. Existing = {} /\ IsFiniteSet(Existing)
  BY <1>2, FS_EmptySet DEF Existing
<1>4. \A c \in All : CaptureSound(c)
  <2> SUFFICES ASSUME NEW c \in All PROVE CaptureSound(c)
    OBVIOUS
  <2>1. c # None /\ archiving = None /\ now = 0 /\ (c \in Captures => analysis[c].pc = "idle")
    BY CapturesKnown DEF Init, NoAnalysis
  <2>2. /\ ~Exists(<<c, "iq">>) /\ disk[<<c, "iq">>].mtime = 0
        /\ ~Exists(<<c, "json">>) /\ disk[<<c, "json">>].mtime = 0
    BY <1>2, FilesKnown
  <2> QED BY <2>1, <2>2 DEF CaptureSound
<1>5. Charged
  <2>1. Used = 0
    <3>1. Used = Bytes({})
      BY <1>3 DEF Used, Existing
    <3>2. OfKind({}, "iq") = {} /\ OfKind({}, "json") = {}
      BY DEF OfKind
    <3>3. Bytes({}) = Size["iq"] * 0 + Size["json"] * 0
      BY <3>2, BytesSum, FS_EmptySet
    <3> QED BY <3>1, <3>3, SizesPositive
  <2>2. archiving \notin Captures /\ archiving \notin Originals /\ cached \in {None, 0}
    BY StorageAssumption DEF Init, All
  <2> HIDE DEF Used
  <2> QED BY <2>1, <2>2 DEF Charged
<1>6. \A k \in Cleaners : ListSound(cleaner[k])
  BY DEF Init, NoCleaner, ListSound
<1>7. FlagsOwned
  BY DEF Init, NoCleaner, FlagsOwned, Cleaners
<1> QED BY <1>1, <1>3, <1>4, <1>5, <1>6, <1>7 DEF StorageInv

LEMMA StaysSound ==
    ASSUME StorageInv, [Next]_vars
    PROVE  StorageInv'
<1>1. CASE UNCHANGED vars
  <2>1. UNCHANGED <<disk, captured, row, archiving, cached, analysis, cleaner, flags, policy, journal, now, cleanups>>
    BY <1>1 DEF vars
  <2>2. StorageTyped' /\ FlagsOwned' /\ IsFiniteSet(Existing)' /\ Charged'
    BY <2>1, FewerFiles DEF StorageInv, StorageTyped, FlagsOwned, Exists, NoCleaner
  <2>3. \A c \in All : CaptureSound(c)'
    <3>1. now' >= now /\ now' \in Nat
      BY <2>1 DEF StorageInv, StorageTyped
    <3> QED BY <2>1, <3>1, CaptureStays DEF StorageInv
  <2>4. \A k \in Cleaners : ListSound(cleaner[k])'
    BY <2>1, SameFiles, ListStays
  <2> QED BY <2>2, <2>3, <2>4 DEF StorageInv
<1>2. ASSUME NEW c \in All,
             WriteOriginal(c) \/ RefuseOriginal(c) \/ WriteEvidence(c) \/ WriterStep(c)
      PROVE  StorageInv'
  BY <1>2, WriteOriginalKept, RefuseOriginalKept, WriteEvidenceKept, WriterStepKept
<1>3. ASSUME NEW c \in Captures, AnalysisStep(c)
      PROVE  StorageInv'
  <2>1. CASE \E dest \in {"Retained", "Quarantine"} : RewriteSidecar(c, dest)
    BY <2>1, RewriteSidecarKept
  <2>2. CASE DeleteEvidence(c) \/ RemoveSidecar(c) \/ RenameIQ(c) \/ RenameSidecar(c) \/ StorePath(c)
    BY <2>2, DeleteEvidenceKept, RemoveSidecarKept, RenameIQKept, RenameSidecarKept,
       StorePathKept
  <2> QED BY <1>3, <2>1, <2>2 DEF AnalysisStep
<1>4. ASSUME NEW k \in Cleaners, CleanerStep(k)
      PROVE  StorageInv'
  <2>1. CASE RemoveRejected(k) \/ EndRejected(k) \/ Expire(k) \/ List(k)
    BY <2>1, RemoveRejectedKept, EndRejectedKept, ExpireKept, ListKept
  <2>2. CASE RemoveListed(k) \/ EndPrune(k) \/ Compact(k) \/ Reconcile(k) \/ Finish(k)
    BY <2>2, RemoveListedKept, EndPruneKept, CompactKept, ReconcileKept, FinishKept
  <2> QED BY <1>4, <2>1, <2>2 DEF CleanerStep
<1>5. CASE Tick \/ RefreshStatus \/ Decide \/ EndStatus
  BY <1>5, TickKept, RefreshStatusKept, DecideKept, EndStatusKept
<1>6. CASE \E p \in Policies : UpdateStoragePolicy(p)
  BY <1>6, UpdateStoragePolicyKept
<1>7. CASE \E m \in Manual : CleanStorageNow(m)
  BY <1>7, CleanStorageNowKept
<1> QED BY <1>1, <1>2, <1>3, <1>4, <1>5, <1>6, <1>7 DEF Next

LEMMA AlwaysSound == Spec => []StorageInv
<1>1. Init => StorageInv
  BY InitiallySound
<1>2. StorageInv /\ [Next]_vars => StorageInv'
  BY StaysSound
<1> QED BY <1>1, <1>2, PTL DEF Spec

\* Every variable keeps its type: files keep one class and date, the cached
\* sum stays a number, and a cleanup counts no bytes below zero.
THEOREM CapturesTyped == Spec => []TypeOK
<1>1. StorageInv => TypeOK
  BY SoundImplies
<1> QED BY <1>1, AlwaysSound, PTL

\* Whatever archives, analyses and cleanups are interleaved, the IQ of a capture
\* keeps its sidecar beside it, a cleanup that reports no error has reached its
\* cap for the files it listed or left only protected ones, and neither flag
\* outlives the cleanup that set it (recording_retention.go, storage_policy.go).
THEOREM FilesStayAccounted == Spec => []FilesAccounted
<1>1. StorageInv => FilesAccounted
  BY SoundImplies
<1> QED BY <1>1, AlwaysSound, PTL

\* Only WriteOriginal writes the IQ of an original.
LEMMA OnlyWriters ==
    ASSUME StorageInv, [Next]_vars, NEW o \in Originals,
           ~Exists(<<o, "iq">>), Exists(<<o, "iq">>)'
    PROVE  policy.cap = 0 \/ Used + Footprint <= policy.cap
<1> DEFINE iq == <<o, "iq">>
<1>1. o \in All /\ o \notin Captures /\ iq \in Files
  BY CapturesKnown, FilesKnown, StorageAssumption DEF All
<1>2. WriteOriginal(o)
  <2>1. disk'[iq] # disk[iq] /\ disk'[iq] # Absent
    BY DEF Exists, Absent
  <2>2. disk \in [Files -> Records]
    BY DEF StorageInv, StorageTyped
  <2>3. ~UNCHANGED disk
    BY <2>1
  <2>4. ASSUME NEW c \in All, WriteOriginal(c) \/ WriteEvidence(c) \/ WriterStep(c)
        PROVE  WriteOriginal(o)
    <3>1. CASE WriteOriginal(c) \/ WriteEvidence(c)
      <4>1. \/ WriteOriginal(c) /\ Put(<<c, "iq">>, "Archive")
            \/ c \in Captures /\ Put(<<c, "iq">>, "Pending")
        BY <3>1 DEF WriteOriginal, WriteEvidence
      <4>2. <<c, "iq">> = iq
        BY <1>1, <2>1, <2>2, <4>1 DEF Put
      <4>3. c = o
        BY <4>2
      <4> QED BY <1>1, <4>1, <4>3
    <3>2. CASE WriterStep(c)
      <4>1. PICK class : Put(<<c, "json">>, class)
        BY <3>2 DEF WriterStep, WriteOriginalSidecar, WriteEvidenceSidecar
      <4>2. disk'[iq] = disk[iq]
        BY <1>1, <2>2, <4>1 DEF Put
      <4> QED BY <2>1, <4>2
    <3> QED BY <2>4, <3>1, <3>2
  <2>5. ASSUME NEW c \in Captures, AnalysisStep(c)
        PROVE  FALSE
    <3>1. \/ UNCHANGED disk
          \/ \E kind, new : disk' = [disk EXCEPT ![<<c, kind>>] = new]
      BY <2>5
         DEF AnalysisStep, DeleteEvidence, RemoveSidecar, RewriteSidecar, Put, RenameIQ,
             RenameSidecar, StorePath
    <3>2. \A kind : <<c, kind>> # iq
      BY <1>1
    <3> QED BY <1>1, <2>1, <2>2, <3>1, <3>2
  <2>6. ASSUME NEW k \in Cleaners, CleanerStep(k)
        PROVE  FALSE
    <3>1. UNCHANGED disk \/ disk'[iq] \in {disk[iq], Absent}
      BY <1>1, <2>2, <2>6
         DEF CleanerStep, RemoveRejected, EndRejected, Expire, List, RemoveListed, EndPrune,
             Compact,
         Reconcile, Finish
    <3> QED BY <2>1, <3>1
  <2>7. ~(UNCHANGED vars \/ Tick \/ RefreshStatus \/ Decide \/ EndStatus
          \/ (\E c \in All : RefuseOriginal(c)) \/ (\E p \in Policies : UpdateStoragePolicy(p))
          \/ (\E m \in Manual : CleanStorageNow(m)))
    BY <2>3
       DEF vars, Tick, RefreshStatus, Decide, EndStatus, RefuseOriginal, UpdateStoragePolicy,
           CleanStorageNow
  <2> QED BY <2>4, <2>5, <2>6, <2>7 DEF Next
<1>3. archiving = None /\ (policy.cap = 0 \/ Budget + Footprint <= policy.cap)
  BY <1>2 DEF WriteOriginal
<1>4. policy.cap \in Nat
  BY DEF StorageInv, StorageTyped, PolicyRecords
<1> HIDE DEF Used
<1> QED BY <1>3, <1>4, WhatIsUsed

\* A cleanup removes what is first in its list, and what goes before is passed.
LEMMA InListOrder ==
    ASSUME StorageInv, [Next]_vars, NEW k \in Cleaners, cleaner[k].pc = "prune",
           cleaner'[k] # cleaner[k],
           NEW e \in cleaner[k].listed, e.class = "Retained", At(e.file, "Retained"),
           ~Exists(e.file)',
           NEW d \in cleaner[k].listed, d.class \in {"Quarantine", "Archive"}, ~Protected(d)
    PROVE  ~At(d.file, d.class)
<1>0. PICK old, s, entry : old = cleaner[k] /\ s = old.list /\ entry = Head(s)
  OBVIOUS
<1>1. old \in Cleanups /\ ToSet(s) \subseteq old.listed /\ ListSound(old) /\ Pruning(old)
  BY <1>0, CleanupTyped DEF ListSound
<1>2. e \in Entries /\ d \in Entries /\ e.file \in Files /\ s \in Seq(Entries)
  BY <1>0, <1>1 DEF Cleanups, Entries
<1>3. disk'[e.file] # disk[e.file]
  BY DEF At, Exists
<1>4. RemoveListed(k)
  <2>1. disk' # disk
    BY <1>3
  <2>2. cleaner' # cleaner
    OBVIOUS
  <2>3. ~(UNCHANGED vars \/ Tick \/ RefreshStatus \/ Decide \/ EndStatus
          \/ (\E p \in Policies : UpdateStoragePolicy(p)) \/ (\E m \in Manual : CleanStorageNow(m)))
    BY <2>1
       DEF vars, Tick, RefreshStatus, Decide, EndStatus, UpdateStoragePolicy, CleanStorageNow
  <2>4. ~\E c \in All : WriteOriginal(c) \/ RefuseOriginal(c) \/ WriteEvidence(c) \/ WriterStep(c)
    BY <2>2
       DEF WriteOriginal, RefuseOriginal, WriteEvidence, WriterStep, WriteOriginalSidecar,
           WriteEvidenceSidecar
  <2>5. ~\E c \in Captures : AnalysisStep(c)
    BY <2>2
       DEF AnalysisStep, DeleteEvidence, RemoveSidecar, RewriteSidecar, RenameIQ,
           RenameSidecar, StorePath
  <2>6. PICK o \in Cleaners : CleanerStep(o)
    BY <2>3, <2>4, <2>5 DEF Next
  <2>7. RemoveRejected(o) \/ Expire(o) \/ RemoveListed(o)
    BY <2>1, <2>6 DEF CleanerStep, EndRejected, List, EndPrune, Compact, Reconcile, Finish
  <2>8. ~RemoveRejected(o)
    BY <2>2 DEF RemoveRejected
  <2>9. CASE o = k
    BY <2>7, <2>8, <2>9 DEF Expire
  <2>10. CASE o # k
    <3>1. cleaner'[k] = cleaner[k]
      <4>1. cleaner \in [Cleaners -> Cleanups]
        BY FlagsTyped
      <4>2. \E new : cleaner' = [cleaner EXCEPT ![o] = new]
        BY <2>7, <2>8 DEF Expire, RemoveListed, Goto
      <4> QED BY <2>10, <4>1, <4>2
    <3> QED BY <3>1
  <2> QED BY <2>9, <2>10
<1>5. s # <<>> /\ entry.file = e.file /\ At(entry.file, entry.class)
  <2>1. s # <<>> /\ (disk' # disk => At(entry.file, entry.class) /\ disk' = [disk EXCEPT ![entry.file] = Absent])
    BY <1>0, <1>4 DEF RemoveListed
  <2>2. disk \in [Files -> Records]
    BY DEF StorageInv, StorageTyped
  <2> QED BY <1>2, <1>3, <2>1, <2>2
<1>6. entry.class = "Retained"
  BY <1>5 DEF At
<1>7. entry = s[1] /\ 1 \in 1..Len(s) /\ Len(s) \in Nat /\ entry \in Entries
  BY <1>0, <1>2, <1>5, HeadAndTail
<1>8. d \notin ToSet(s)
  <2> SUFFICES ASSUME d \in ToSet(s) PROVE FALSE
    OBVIOUS
  <2>1. PICK i \in 1..Len(s) : d = s[i]
    BY <1>2 DEF ToSet
  <2>2. i # 1
    BY <1>6, <1>7, <2>1
  <2>3. Before(entry, d)
    BY <1>0, <1>1, <1>7, <2>1, <2>2 DEF Pruning
  <2> QED BY <1>6, <2>3 DEF Before, Priority
<1>9. Gone(d.file)
  BY <1>0, <1>1, <1>8 DEF Pruning
<1> QED BY <1>9 DEF Gone, At, Exists

\* An original is archived only where it fits under the cap, and a cleanup
\* deletes retained evidence only after everything cheaper it had listed and
\* may delete (recordOriginalIQ, pruneCaptureRootToCap).
THEOREM CleanupsStayOrdered == Spec => CleanupOrdered
<1>1. StorageInv /\ [Next]_vars =>
        [\A o \in Originals :
           ~Exists(<<o, "iq">>) /\ Exists(<<o, "iq">>)' => policy.cap = 0 \/ Used + Footprint <= policy.cap]_vars
  BY OnlyWriters
<1>2. StorageInv /\ [Next]_vars =>
        [\A k \in Cleaners :
           LET me == cleaner[k] IN
             /\ me.pc = "prune" /\ cleaner'[k] # me
             /\ \E e \in me.listed : e.class = "Retained" /\ At(e.file, "Retained") /\ ~Exists(e.file)'
             => \A e \in me.listed :
                  e.class \in {"Quarantine", "Archive"} /\ ~Protected(e) => ~At(e.file, e.class)]_vars
  BY InListOrder
<1> QED BY <1>1, <1>2, AlwaysSound, PTL DEF Spec, CleanupOrdered, OriginalFits, RetainedLast

=============================================================================
