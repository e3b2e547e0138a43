---------------------------- MODULE RetentionProofs ----------------------------
(***************************************************************************)
(* Theorems about Retention for every set of tasks, every combination of   *)
(* their options and every directory.                                      *)
(*                                                                         *)
(* No two archives of a directory were last written to at the same moment, *)
(* and none in the future (Good); nor were two that one pruning has seen,  *)
(* at whatever moments it looked at them (Sees).  So what a pruning sorts  *)
(* has a first, a second, a third, ... newest: the number of those newer   *)
(* than an archive maps them one to one onto 0..n-1 (RankIsOneToOne).      *)
(* What the three options delete and keep is counted by that.              *)
(***************************************************************************)
EXTENDS Retention, FiniteSetTheorems, FunctionTheorems, TLAPS

\* Archives that can be sorted by the time of the last write.
Sortable(all) == /\ IsFiniteSet(all)
                 /\ \A f \in all : f.mod \in Nat
                 /\ \A f, g \in all : f.mod = g.mod => f = g

Rank(f, all) == Cardinality(Newer(f, all))

-----------------------------------------------------------------------------
(* Counting archives by age.                                                *)

\* The options and bounds are numbers, one by one.
LEMMA Numbers ==
  /\ \A name \in Names : Retain[name] \in Nat /\ MinBackups[name] \in Nat /\ MaxBackups[name] \in Nat
  /\ Second \in Nat \ {0} /\ Start \in Nat /\ MaxClock \in Nat /\ Start <= MaxClock /\ MaxFaults \in Nat
  BY OptionsAssumption, ClockAssumption

\* An archive is newer than fewer archives than there are.
LEMMA RankIsSmall ==
  ASSUME NEW all, Sortable(all), NEW f \in all
  PROVE  /\ IsFiniteSet(Newer(f, all))
         /\ Rank(f, all) \in 0..(Cardinality(all) - 1)
<1>1. IsFiniteSet(all \ {f}) /\ Cardinality(all \ {f}) = Cardinality(all) - 1
  BY FS_RemoveElement DEF Sortable
<1>2. Newer(f, all) \in SUBSET (all \ {f})
  BY DEF Newer, Sortable
<1>3. IsFiniteSet(Newer(f, all)) /\ Cardinality(Newer(f, all)) <= Cardinality(all \ {f})
  BY <1>1, <1>2, FS_Subset
<1>4. Cardinality(Newer(f, all)) \in Nat /\ Cardinality(all) \in Nat
  BY <1>3, FS_CardinalityType DEF Sortable
<1> QED
  BY <1>1, <1>3, <1>4 DEF Rank

\* A newer archive has a smaller rank.
LEMMA NewerRanksFirst ==
  ASSUME NEW all, Sortable(all), NEW f \in all, NEW g \in all, f.mod > g.mod
  PROVE  Rank(f, all) < Rank(g, all)
<1>1. Newer(f, all) \in SUBSET Newer(g, all)
  BY DEF Newer, Sortable
<1>2. f \in Newer(g, all) /\ f \notin Newer(f, all)
  BY DEF Newer, Sortable
<1>3. IsFiniteSet(Newer(g, all)) /\ Rank(g, all) \in Nat /\ Rank(f, all) \in Nat
  BY RankIsSmall
<1>4. Cardinality(Newer(f, all)) <= Cardinality(Newer(g, all))
      /\ Cardinality(Newer(f, all)) # Cardinality(Newer(g, all))
  BY <1>1, <1>2, <1>3, FS_Subset
<1> QED
  BY <1>3, <1>4 DEF Rank

\* No two archives have the same rank.
LEMMA RanksDiffer ==
  ASSUME NEW all, Sortable(all), NEW f \in all, NEW g \in all, Rank(f, all) = Rank(g, all)
  PROVE  f = g
<1>1. CASE f.mod > g.mod
  BY <1>1, NewerRanksFirst, RankIsSmall
<1>2. CASE g.mod > f.mod
  BY <1>2, NewerRanksFirst, RankIsSmall
<1>3. CASE f.mod = g.mod
  BY <1>3 DEF Sortable
<1> QED
  BY <1>1, <1>2, <1>3 DEF Sortable

\* Every rank below the number of archives is taken.
LEMMA RankIsOneToOne ==
  ASSUME NEW all, Sortable(all), NEW r \in 0..(Cardinality(all) - 1)
  PROVE  \E f \in all : Rank(f, all) = r
<1> DEFINE n == Cardinality(all)
           R == [f \in all |-> Rank(f, all)]
<1>1. n \in Nat /\ n = Cardinality(all)
  BY FS_CardinalityType DEF Sortable
<1>2. R \in [all -> 0..(n - 1)]
  BY RankIsSmall
<1>3. R \in Injection(all, 0..(n - 1))
  <2>1. \A f, g \in all : R[f] = R[g] => f = g
    BY RanksDiffer
  <2> HIDE DEF R, n
  <2> QED
    BY <1>2, <2>1, Fun_IsInj
<1>4. IsFiniteSet(0..(n - 1)) /\ Cardinality(0..(n - 1)) = n
  BY <1>1, FS_Interval
<1>5. R \in Surjection(all, 0..(n - 1))
  <2> HIDE DEF R, n
  <2> QED
    BY <1>1, <1>3, <1>4, FS_Injection
<1>6. \E f \in all : R[f] = r
  <2>1. r \in 0..(n - 1)
    OBVIOUS
  <2>2. \A t \in 0..(n - 1) : \E s \in all : R[s] = t
    <3> HIDE DEF R, n
    <3> QED
      BY <1>5, Fun_SurjectionProperties
  <2> HIDE DEF R, n
  <2> QED
    BY <2>1, <2>2
<1> QED
  BY <1>6

\* The k newest archives are k, or all there are.
LEMMA NewestAreCounted ==
  ASSUME NEW all, Sortable(all), NEW k \in Nat
  PROVE  LET first == {f \in all : Rank(f, all) < k}
         IN  /\ IsFiniteSet(first)
             /\ Cardinality(first) = IF k <= Cardinality(all) THEN k ELSE Cardinality(all)
<1> DEFINE first == {f \in all : Rank(f, all) < k}
           R == [f \in first |-> Rank(f, all)]
<1>1. Cardinality(all) \in Nat /\ first \in SUBSET all /\ IsFiniteSet(all)
  BY FS_CardinalityType DEF Sortable
<1>2. IsFiniteSet(first)
  BY <1>1, FS_Subset
<1>3. CASE k > Cardinality(all)
  <2>1. first = all
    BY <1>1, <1>3, RankIsSmall
  <2> QED
    BY <1>1, <1>3, <2>1
<1>4. CASE k <= Cardinality(all)
  <2>1. R \in [first -> 0..(k - 1)]
    BY <1>1, RankIsSmall
  <2>2. R \in Injection(first, 0..(k - 1))
    <3>1. \A f, g \in first : R[f] = R[g] => f = g
      BY RanksDiffer
    <3> HIDE DEF R, first
    <3> QED
      BY <2>1, <3>1, Fun_IsInj
  <2>3. R \in Surjection(first, 0..(k - 1))
    <3>1. ASSUME NEW r \in 0..(k - 1) PROVE \E f \in first : R[f] = r
      <4>1. r \in 0..(Cardinality(all) - 1) /\ r < k
        BY <1>1, <1>4
      <4>2. PICK f \in all : Rank(f, all) = r
        BY <4>1, RankIsOneToOne
      <4> QED
        BY <4>1, <4>2
    <3> HIDE DEF R, first
    <3> QED
      BY <2>1, <3>1, Fun_IsSurj
  <2>4. IsFiniteSet(0..(k - 1)) /\ Cardinality(0..(k - 1)) = k
    BY FS_Interval
  <2>5. Cardinality(first) = k
    <3> HIDE DEF R, first
    <3> QED
      BY <2>2, <2>3, <2>4, FS_Injection
  <2> QED
    BY <1>2, <1>4, <2>5
<1> QED
  BY <1>1, <1>2, <1>3, <1>4

-----------------------------------------------------------------------------
(* What a pruning deletes.                                                  *)

\* What is left of the candidates when nothing resists.
Kept(name, candidates) == candidates \ ToDelete(name, candidates)

\* At most the cap is left.
LEMMA CapIsHard ==
  ASSUME NEW name \in Names, NEW all, Sortable(all), MaxBackups[name] > 0
  PROVE  IsFiniteSet(Kept(name, all)) /\ Cardinality(Kept(name, all)) <= MaxBackups[name]
<1> DEFINE k == MaxBackups[name]
           first == {f \in all : Rank(f, all) < k}
<1>1. k \in Nat
  BY Numbers
<1>2. Kept(name, all) \in SUBSET first
  BY <1>1, RankIsSmall DEF Kept, ToDelete, OverCap, Rank
<1>3. IsFiniteSet(first) /\ Cardinality(first) <= k /\ Cardinality(first) \in Nat
  <2>1. Cardinality(all) \in Nat
    BY FS_CardinalityType DEF Sortable
  <2>2. IsFiniteSet(first)
        /\ Cardinality(first) = IF k <= Cardinality(all) THEN k ELSE Cardinality(all)
    BY <1>1, NewestAreCounted
  <2> QED
    BY <1>1, <2>1, <2>2
<1>4. IsFiniteSet(Kept(name, all)) /\ Cardinality(Kept(name, all)) <= Cardinality(first)
  BY <1>2, <1>3, FS_Subset
<1>5. Cardinality(Kept(name, all)) \in Nat
  BY <1>4, FS_CardinalityType
<1> QED
  BY <1>1, <1>3, <1>4, <1>5

\* The newest are left, as many as both the cap and the minimum admit.
LEMMA NewestAreLeft ==
  ASSUME NEW name \in Names, NEW all, Sortable(all),
         NEW k \in Nat, k <= Larger(MinBackups[name], 1), MaxBackups[name] > 0 => k <= MaxBackups[name]
  PROVE  {f \in all : Rank(f, all) < k} \subseteq Kept(name, all)
<1> SUFFICES ASSUME NEW f \in all, Rank(f, all) < k PROVE f \in Kept(name, all)
  OBVIOUS
<1>1. Rank(f, all) \in Nat
  BY RankIsSmall
<1>2. MaxBackups[name] \in Nat /\ Larger(MinBackups[name], 1) \in Nat
  BY Numbers DEF Larger
<1>3. f \notin OverCap(name, all)
  BY <1>1, <1>2 DEF OverCap, Rank
<1>4. f \notin Expired(name, all)
  BY <1>1, <1>2 DEF Expired, Rank
<1> QED
  BY <1>3, <1>4 DEF Kept, ToDelete

\* A directory between what the pruning leaves and what it found has the
\* minimum, or the cap, or all of what was found.
LEMMA MinimumIsKept ==
  ASSUME NEW name \in Names, NEW all, Sortable(all),
         NEW kept \in SUBSET all, Kept(name, all) \subseteq kept,
         Cardinality(kept) < Cardinality(all)
  PROVE  \/ Cardinality(kept) >= Larger(MinBackups[name], 1)
         \/ MaxBackups[name] > 0 /\ Cardinality(kept) >= MaxBackups[name]
<1> DEFINE least == Larger(MinBackups[name], 1)
           cap   == MaxBackups[name]
           k     == IF cap > 0 /\ cap < least THEN cap ELSE least
           first == {f \in all : Rank(f, all) < k}
<1>1. least \in Nat /\ cap \in Nat
  BY Numbers DEF Larger
<1>2. k \in Nat /\ k <= least /\ (cap > 0 => k <= cap) /\ (k = least \/ (cap > 0 /\ k = cap))
  BY <1>1
<1>3. IsFiniteSet(kept) /\ Cardinality(kept) \in Nat /\ Cardinality(all) \in Nat
  BY FS_Subset, FS_CardinalityType DEF Sortable
<1>4. Cardinality(first) = IF k <= Cardinality(all) THEN k ELSE Cardinality(all)
  <2> HIDE DEF k
  <2> QED
    BY <1>2, NewestAreCounted
<1>5. first \in SUBSET kept
  <2> HIDE DEF k
  <2>1. {f \in all : Rank(f, all) < k} \subseteq Kept(name, all)
    BY <1>2, NewestAreLeft
  <2> QED
    BY <2>1
<1>6. Cardinality(first) <= Cardinality(kept)
  <2> HIDE DEF first
  <2> QED
    BY <1>3, <1>5, FS_Subset
<1> HIDE DEF k, first
<1>7. k <= Cardinality(kept)
  BY <1>2, <1>3, <1>4, <1>6
<1> QED
  BY <1>1, <1>2, <1>3, <1>7

\* What is deleted is old, or beyond a cap that is filled by newer archives.
LEMMA DeletedForAReason ==
  ASSUME NEW name \in Names, NEW all, Sortable(all), clock \in Nat,
         NEW kept \in SUBSET all, Kept(name, all) \subseteq kept,
         NEW f \in all, f \notin kept
  PROVE  \/ Retain[name] > 0 /\ f.mod + Retain[name] < clock
         \/ MaxBackups[name] > 0 /\ Cardinality(kept) >= MaxBackups[name]
<1> DEFINE cap   == MaxBackups[name]
           first == {g \in all : Rank(g, all) < cap}
<1>1. cap \in Nat /\ Retain[name] \in Nat
  BY Numbers
<1>2. f \in OverCap(name, all) \/ f \in Expired(name, all)
  BY DEF Kept, ToDelete
<1>3. CASE f \in Expired(name, all)
  BY <1>3 DEF Expired
<1>4. CASE f \in OverCap(name, all) /\ ~(Retain[name] > 0 /\ f.mod + Retain[name] < clock)
  <2>1. cap > 0 /\ Rank(f, all) >= cap
    BY <1>4 DEF OverCap, Rank
  <2>2. first \in SUBSET kept
    <3> SUFFICES ASSUME NEW g \in all, Rank(g, all) < cap PROVE g \in kept
      OBVIOUS
    <3>1. Rank(f, all) \in Nat /\ Rank(g, all) \in Nat
      BY RankIsSmall
    <3>2. f.mod \in Nat /\ g.mod \in Nat
      BY DEF Sortable
    <3>3. ~(f.mod > g.mod)
      <4>1. f.mod > g.mod => Rank(f, all) < Rank(g, all)
        BY NewerRanksFirst
      <4> QED
        BY <1>1, <2>1, <3>1, <4>1
    <3>4. g \notin Expired(name, all)
      BY <1>1, <1>4, <3>2, <3>3 DEF Expired
    <3>5. g \notin OverCap(name, all)
      BY <1>1, <3>1 DEF OverCap, Rank
    <3> QED
      BY <3>4, <3>5 DEF Kept, ToDelete
  <2>3. IsFiniteSet(kept) /\ Cardinality(kept) \in Nat /\ Cardinality(all) \in Nat
    BY FS_Subset, FS_CardinalityType DEF Sortable
  <2>4. cap <= Cardinality(all)
    BY <1>1, <2>1, <2>3, RankIsSmall
  <2>5. Cardinality(first) = cap
    <3>1. Cardinality(first) = IF cap <= Cardinality(all) THEN cap ELSE Cardinality(all)
      BY <1>1, NewestAreCounted
    <3> QED
      BY <2>4, <3>1
  <2>6. Cardinality(first) <= Cardinality(kept)
    <3> HIDE DEF first
    <3> QED
      BY <2>2, <2>3, FS_Subset
  <2> QED
    BY <2>1, <2>5, <2>6
<1> QED
  BY <1>2, <1>3, <1>4

-----------------------------------------------------------------------------
(* Sets of archives that stay sortable.                                     *)

\* Archives that are one per name and were last written to at moments before now.
Good(all, now) ==
  /\ IsFiniteSet(all) /\ all \subseteq File
  /\ \A f, g \in all : IdOf(f) = IdOf(g) \/ f.mod = g.mod => f = g
  /\ \A f \in all : f.mod < now

LEMMA GoodIsSortable ==
  ASSUME NEW all, NEW now \in Nat, Good(all, now)
  PROVE  Sortable(all)
  BY DEF Good, Sortable, File

\* Deleting archives, and time, leave it good.
LEMMA FewerAndLater ==
  ASSUME NEW all, NEW now \in Nat, NEW later \in Nat, Good(all, now), now <= later,
         NEW sub \in SUBSET all
  PROVE  Good(sub, later)
<1>1. IsFiniteSet(sub)
  BY FS_Subset DEF Good
<1>2. \A f \in sub : f.mod \in Nat /\ f.mod < now
  BY DEF Good, File
<1>3. \A f \in sub : f.mod < later
  BY <1>2
<1> QED
  BY <1>1, <1>3 DEF Good

\* So does one archive written to now in place of one of its name.
LEMMA Replaced ==
  ASSUME NEW all, NEW now \in Nat, Good(all, now),
         NEW r \in File, r.mod = now, NEW id, IdOf(r) = id
  PROVE  Good({IF IdOf(f) = id THEN r ELSE f : f \in all}, now + 1)
<1> DEFINE G    == [f \in all |-> IF IdOf(f) = id THEN r ELSE f]
           next == {IF IdOf(f) = id THEN r ELSE f : f \in all}
<1>1. next \subseteq all \cup {r}
  OBVIOUS
<1>2. IsFiniteSet(all \cup {r})
  BY FS_AddElement DEF Good
<1>3. IsFiniteSet(next)
  <2> HIDE DEF next
  <2> QED
    BY <1>1, <1>2, FS_Subset
<1>4. \A x \in next : x \in File /\ (x = r \/ (x \in all /\ IdOf(x) # id))
  BY DEF Good
<1> HIDE DEF next
<1>5. \A x \in next : x.mod \in Nat /\ x.mod < now + 1 /\ (x # r => x.mod < now)
  <2>1. \A x \in all : x.mod < now
    BY DEF Good
  <2>2. \A x \in File : x.mod \in Nat
    BY DEF File
  <2> QED
    BY <1>4, <2>1, <2>2
<1>6. \A x, y \in next : IdOf(x) = IdOf(y) \/ x.mod = y.mod => x = y
  <2> SUFFICES ASSUME NEW x \in next, NEW y \in next, IdOf(x) = IdOf(y) \/ x.mod = y.mod
               PROVE  x = y
    OBVIOUS
  <2>1. CASE x = r /\ y # r
    BY <1>4, <1>5, <2>1
  <2>2. CASE x # r /\ y = r
    BY <1>4, <1>5, <2>2
  <2>3. CASE x # r /\ y # r
    BY <1>4, <2>3 DEF Good
  <2> QED
    BY <2>1, <2>2, <2>3
<1>7. next \subseteq File
  BY <1>4
<1> QED
  BY <1>3, <1>5, <1>6, <1>7 DEF Good, next

\* So does a new archive under a name nothing has.
LEMMA Added ==
  ASSUME NEW all, NEW now \in Nat, Good(all, now),
         NEW r \in File, r.mod = now, \A f \in all : IdOf(f) # IdOf(r)
  PROVE  Good(all \cup {r}, now + 1)
<1>1. IsFiniteSet(all \cup {r})
  BY FS_AddElement DEF Good
<1>2. \A x \in all : x.mod \in Nat /\ x.mod < now
  BY DEF Good, File
<1>3. \A x, y \in all \cup {r} : IdOf(x) = IdOf(y) \/ x.mod = y.mod => x = y
  BY <1>2 DEF Good
<1>4. \A x \in all \cup {r} : x.mod < now + 1
  BY <1>2
<1> QED
  BY <1>1, <1>3, <1>4 DEF Good

-----------------------------------------------------------------------------
(* The invariant.                                                           *)

\* Archives another list of archives knows by the same moment are the same files.
Agree(some, all) == \A s \in some : \A f \in all : s.mod = f.mod => IdOf(s) = IdOf(f)

\* What backup r has seen can be sorted, and agrees with the directory.
Sees(r) ==
  /\ Good(seen[r], clock) /\ Agree(seen[r], files)
  /\ \A s \in seen[r] : IdOf(s) \notin unread[r]
  /\ pc[r] \in {"idle", "write", "list"} => seen[r] = {}

\* The archive of r is the newest, and complete.
Newest(r) ==
  \E own \in files : /\ IdOf(own) = target[r] /\ own.content = "whole"
                     /\ \A g \in files : g.mod <= own.mod

\* The archives of its name that r is not to delete.
Spared(r) == {f \in Matching(target[r].name, files) : IdOf(f) \notin doomed[r]}

\* A backup that has met no other.
Undisturbed(r) ==
  /\ \A q \in Runs : q # r => pc[q] = "idle"
  /\ pc[r] = "write" => r \in linked /\ \E own \in files : IdOf(own) = target[r] /\ own.content = "part"
  /\ pc[r] \in {"list", "look", "delete"} => Newest(r)
  /\ pc[r] = "look" => /\ seen[r] \subseteq files
                       /\ \A f \in Matching(target[r].name, files) : IdOf(f) \in unread[r] \/ f \in seen[r]
  /\ pc[r] = "delete" => /\ target[r] \notin doomed[r]
                         /\ faults = 0 => CapHolds(target[r].name, Spared(r))

Steps == {"idle", "write", "list", "look", "delete"}

Typed ==
  /\ pc \in [Runs -> Steps] /\ target \in [Runs -> Id] /\ seen \in [Runs -> SUBSET File]
  /\ unread \in [Runs -> SUBSET Id] /\ doomed \in [Runs -> SUBSET Id]
  /\ linked \subseteq {r \in Runs : pc[r] = "write"} /\ alone \subseteq InFlight
  /\ clock \in Start..MaxClock /\ faults \in 0..MaxFaults

Seeing == \A r \in Runs : Sees(r)

Inv == Typed /\ Good(files, clock) /\ Seeing /\ \A r \in alone : Undisturbed(r)

\* The numbers of a state are natural, and the clock does not pass its bound.
LEMMA Times ==
  ASSUME Typed
  PROVE  /\ clock \in Nat /\ faults \in Nat
         /\ Passes => clock' = clock + 1 /\ clock' \in Start..MaxClock
         /\ Fault => faults' \in 0..MaxFaults /\ faults' # 0
  BY Numbers DEF Typed, Passes, Fault

\* A name and second of a task are those of an archive.
LEMMA NoneIsId == None \in Id
  BY NamesAssumption DEF None, Id

LEMMA IdsAreIds == \A f \in File : IdOf(f) \in Id
  BY DEF File, Id, IdOf

LEMMA InitInv == Init => Inv
<1> SUFFICES ASSUME Init PROVE Inv
  OBVIOUS
<1>1. Good(files, clock)
  <2>1. Good(Earlier, Start)
    BY EarlierAssumption DEF Good
  <2>2. Start <= Start /\ Start \in Nat /\ files \in SUBSET Earlier /\ clock = Start
    BY Numbers DEF Init
  <2> QED
    BY <2>1, <2>2, FewerAndLater
<1>2. Typed
  BY Numbers, NoneIsId DEF Init, Typed, Steps
<1>3. Seeing
  BY FS_EmptySet DEF Init, Seeing, Sees, Good, Agree
<1> QED
  BY <1>1, <1>2, <1>3 DEF Init, Inv

-----------------------------------------------------------------------------
(* What the steps do to the directory.                                      *)

\* The directory stays good, and what is new in it was written now.
Tidy ==
  /\ clock' \in Nat /\ clock <= clock' /\ Good(files', clock')
  /\ \A f \in files' : f \in files \/ f.mod = clock

\* Deleting, and time, are tidy.
LEMMA DeletingIsTidy ==
  ASSUME Inv, files' \in SUBSET files, clock' = clock \/ Passes
  PROVE  Tidy
<1>1. clock \in Nat /\ clock' \in Nat /\ clock <= clock'
  BY Times DEF Inv, Passes
<1>2. Good(files', clock')
  BY <1>1, FewerAndLater DEF Inv
<1> QED
  BY <1>1, <1>2 DEF Tidy

\* What an archive is that is written to.
LEMMA WrittenIs ==
  ASSUME clock \in Nat, NEW f \in File, NEW end \in BOOLEAN
  PROVE  /\ Written(f, end) \in File /\ Written(f, end).mod = clock /\ IdOf(Written(f, end)) = IdOf(f)
         /\ Written(f, end).content = IF end /\ f.content = "part" THEN "whole" ELSE f.content
<1> DEFINE text == IF end /\ f.content = "part" THEN "whole" ELSE f.content
<1>1. text \in {"part", "mixed", "whole"}
  BY DEF File
<1>2. Written(f, end) = [f EXCEPT !.mod = clock, !.content = text]
  BY DEF Written, File
<1> HIDE DEF text
<1>3. Written(f, end) \in File /\ Written(f, end).mod = clock /\ Written(f, end).content = text
  BY <1>1, <1>2 DEF File
<1>4. IdOf(Written(f, end)) = IdOf(f)
  BY <1>2 DEF File, IdOf
<1> QED
  BY <1>3, <1>4 DEF text

\* Writing is tidy.
LEMMA WritingIsTidy ==
  ASSUME Inv, NEW r \in Runs, NEW end \in BOOLEAN, Writes(r, end)
  PROVE  /\ Tidy
         /\ \A g \in files : r \in linked /\ IdOf(g) = target[r] =>
              Written(g, end) \in files' /\ \A f \in files' : f.mod <= clock
<1>1. clock \in Nat /\ clock' = clock + 1 /\ clock' \in Nat /\ clock + 1 \in Nat /\ clock <= clock + 1 /\ Good(files, clock)
  BY Times DEF Inv, Writes
<1>2. CASE r \notin linked \/ \A f \in files : IdOf(f) # target[r]
  <2>1. files' = files
    BY <1>2 DEF Writes
  <2>2. Tidy
    BY <2>1, DeletingIsTidy DEF Writes
  <2> QED
    BY <1>2, <2>2
<1>3. ASSUME r \in linked, NEW g \in files, IdOf(g) = target[r]
      PROVE  Tidy /\ Written(g, end) \in files' /\ \A f \in files' : f.mod <= clock
  <2> DEFINE w == Written(g, end)
  <2>1. g \in File
    BY <1>1 DEF Good
  <2>2. w \in File /\ w.mod = clock /\ IdOf(w) = target[r]
    BY <1>1, <1>3, <2>1, WrittenIs
  <2>3. \A f \in files : IdOf(f) = target[r] => f = g
    BY <1>1, <1>3 DEF Good
  <2>4. files' = {IF IdOf(f) = target[r] THEN w ELSE f : f \in files}
    BY <1>3, <2>3 DEF Writes
  <2> HIDE DEF w
  <2>5. Good(files', clock')
    BY <1>1, <2>2, <2>4, Replaced
  <2>6. \A f \in files' : f \in files \/ f = w
    BY <2>4
  <2>7. w \in files'
    BY <1>3, <2>4
  <2>8. \A f \in files : f.mod \in Nat /\ f.mod < clock
    BY <1>1 DEF Good, File
  <2> QED
    BY <1>1, <2>2, <2>5, <2>6, <2>7, <2>8 DEF Tidy, w
<1> QED
  BY <1>2, <1>3

\* So is the making of an archive.
LEMMA CreatingIsTidy ==
  ASSUME Inv, NEW id \in Id, Passes, files' = {f \in files : IdOf(f) # id} \cup {Created(id)}
  PROVE  Tidy /\ Created(id) \in files' /\ IdOf(Created(id)) = id
         /\ (linked = {} => Created(id).content = "part")
<1> DEFINE rest == {f \in files : IdOf(f) # id}
           new  == Created(id)
<1>1. clock \in Nat /\ clock' = clock + 1 /\ clock' \in Nat /\ clock + 1 \in Nat /\ clock <= clock + 1 /\ clock <= clock
      /\ Good(files, clock)
  BY Times DEF Inv
<1>2. new \in File /\ new.mod = clock
  BY <1>1 DEF Created, File, Id
<1>3. IdOf(new) = id
  BY DEF Created, IdOf, Id
<1>4. linked = {} => new.content = "part"
  BY DEF Created
<1> HIDE DEF new
<1>5. Good(rest, clock)
  BY <1>1, FewerAndLater
<1>6. \A f \in rest : IdOf(f) # IdOf(new)
  BY <1>3
<1>7. files' = rest \cup {new} /\ rest \subseteq files
  BY DEF new
<1> HIDE DEF rest
<1>8. Good(files', clock')
  BY <1>1, <1>2, <1>5, <1>6, <1>7, Added
<1> QED
  BY <1>1, <1>2, <1>3, <1>4, <1>7, <1>8 DEF Tidy, new

\* Every step is tidy.
LEMMA TidyStep ==
  ASSUME Inv, [Next]_vars
  PROVE  Tidy
<1>1. ASSUME NEW r \in Runs, NEW name \in Names, CreateArchive(r, name) PROVE Tidy
  <2> DEFINE id == [name |-> name, second |-> clock \div Second]
  <2>1. id \in Id
    <3>1. clock \div Second \in Nat
      BY Times, Numbers DEF Inv
    <3> QED
      BY <3>1 DEF Id
  <2>2. Passes /\ files' = {f \in files : IdOf(f) # id} \cup {Created(id)}
    BY <1>1 DEF CreateArchive, Begins
  <2> HIDE DEF id
  <2> QED
    BY <2>1, <2>2, CreatingIsTidy
<1>2. ASSUME NEW r \in Runs, WriteMore(r) \/ EndArchive(r) PROVE Tidy
  BY <1>2, WritingIsTidy DEF WriteMore, EndArchive
<1>3. ASSUME NEW r \in Runs, BackupFails(r) \/ List(r) \/ Look(r) \/ Select(r) \/ Delete(r) \/ FinishBackup(r)
      PROVE  Tidy
  <2>1. files' \in SUBSET files /\ clock' = clock
    BY <1>3 DEF BackupFails, List, Look, Select, Delete, FinishBackup, Unlink
  <2> QED
    BY <2>1, DeletingIsTidy
<1>4. CASE Tick \/ Crash \/ UNCHANGED vars
  <2>1. files' \in SUBSET files /\ (clock' = clock \/ Passes)
    BY <1>4 DEF Tick, Crash, vars
  <2> QED
    BY <2>1, DeletingIsTidy
<1> QED
  BY <1>1, <1>2, <1>3, <1>4 DEF Next

-----------------------------------------------------------------------------
(* What they do to a pruning.                                               *)

\* A backup that ends forgets what it saw.
LEMMA EndsTyped ==
  ASSUME Typed, NEW r \in Runs, Ends(r)
  PROVE  /\ pc' \in [Runs -> Steps] /\ target' \in [Runs -> Id] /\ seen' \in [Runs -> SUBSET File]
         /\ unread' \in [Runs -> SUBSET Id] /\ doomed' \in [Runs -> SUBSET Id]
         /\ alone' \subseteq InFlight'
         /\ \A q \in linked : q # r => pc'[q] = "write"
  BY NoneIsId DEF Typed, Ends, Goto, Steps, InFlight

\* The types hold after every step.
LEMMA TypedStep ==
  ASSUME Inv, [Next]_vars
  PROVE  Typed'
<1>1. ASSUME NEW r \in Runs, NEW name \in Names, CreateArchive(r, name) PROVE Typed'
  <2> DEFINE id == [name |-> name, second |-> clock \div Second]
  <2>1. id \in Id
    <3>1. clock \div Second \in Nat
      BY Times, Numbers DEF Inv
    <3> QED
      BY <3>1 DEF Id
  <2>2. Begins(r, id)
    BY <1>1 DEF CreateArchive
  <2> HIDE DEF id
  <2> QED
    BY <2>1, <2>2, Times DEF Inv, Typed, Begins, Goto, pruning, Steps, InFlight
<1>2. ASSUME NEW r \in Runs, WriteMore(r) PROVE Typed'
  BY <1>2, Times DEF Inv, Typed, WriteMore, Writes, pruning, InFlight
<1>3. ASSUME NEW r \in Runs, EndArchive(r) PROVE Typed'
  <2>1. clock' \in Start..MaxClock /\ faults' = faults /\ linked' = linked \ {r}
    BY <1>3, Times DEF Inv, EndArchive, Writes
  <2>2. CASE Ends(r)
    BY <1>3, <2>1, <2>2, EndsTyped DEF Inv, Typed
  <2>3. CASE Goto(r, "list") /\ UNCHANGED <<target, pruning, alone>>
    BY <1>3, <2>1, <2>3 DEF Inv, Typed, Goto, pruning, Steps, InFlight
  <2> QED
    BY <1>3, <2>2, <2>3 DEF EndArchive
<1>4. ASSUME NEW r \in Runs, BackupFails(r) PROVE Typed'
  <2>1. clock' = clock /\ faults' = faults /\ linked' \subseteq linked \ {r} /\ Ends(r)
    BY <1>4 DEF BackupFails
  <2> QED
    BY <2>1, EndsTyped DEF Inv, Typed
<1>5. ASSUME NEW r \in Runs, List(r) PROVE Typed'
  <2>1. clock' = clock /\ linked' = linked /\ r \notin linked
    BY <1>5 DEF List, Inv, Typed
  <2>2. CASE Ends(r) /\ Fault
    BY <2>1, <2>2, EndsTyped, Times DEF Inv, Typed
  <2>3. CASE ~(Ends(r) /\ Fault)
    <3> DEFINE ids == {IdOf(f) : f \in Matching(target[r].name, files)}
    <3>1. unread' = [unread EXCEPT ![r] = ids] /\ Goto(r, "look") /\ UNCHANGED <<target, seen, doomed, alone, faults>>
      BY <1>5, <2>3 DEF List
    <3>2. ids \in SUBSET Id
      BY IdsAreIds DEF Matching, Inv, Good
    <3> HIDE DEF ids
    <3> QED
      BY <2>1, <3>1, <3>2 DEF Inv, Typed, Goto, Steps, InFlight
  <2> QED
    BY <2>2, <2>3
<1>6. ASSUME NEW r \in Runs, Look(r) PROVE Typed'
  <2>1. PICK id \in unread[r] :
          /\ unread' = [unread EXCEPT ![r] = @ \ {id}]
          /\ seen' = [seen EXCEPT ![r] = @ \cup {f \in files : IdOf(f) = id}]
    BY <1>6 DEF Look
  <2>2. files \subseteq File
    BY DEF Inv, Good
  <2>3. UNCHANGED <<files, pc, target, linked, doomed, alone, clock, faults>>
    BY <1>6 DEF Look
  <2> QED
    BY <2>1, <2>2, <2>3 DEF Inv, Typed, InFlight
<1>7. ASSUME NEW r \in Runs, Select(r) PROVE Typed'
  <2> DEFINE ids == {IdOf(f) : f \in ToDelete(target[r].name, seen[r])}
  <2>1. ids \in SUBSET Id
    BY DEF ToDelete, OverCap, Expired, IdOf, Id, Inv, Typed, File
  <2>2. doomed' = [doomed EXCEPT ![r] = ids] /\ pc[r] = "look" /\ Goto(r, "delete")
        /\ UNCHANGED <<files, target, linked, unread, seen, alone, clock, faults>>
    BY <1>7 DEF Select
  <2> HIDE DEF ids
  <2> QED
    BY <2>1, <2>2 DEF Inv, Typed, Goto, Steps, InFlight
<1>8. ASSUME NEW r \in Runs, Delete(r) PROVE Typed'
  <2>1. PICK id \in doomed[r] : doomed' = [doomed EXCEPT ![r] = @ \ {id}]
    BY <1>8 DEF Delete
  <2>2. UNCHANGED <<pc, target, unread, seen, alone, clock>> /\ linked' \subseteq linked
        /\ faults' \in 0..MaxFaults
    BY <1>8, Times DEF Delete, Unlink, Inv, Typed
  <2> QED
    BY <2>1, <2>2 DEF Inv, Typed, InFlight
<1>9. ASSUME NEW r \in Runs, FinishBackup(r) PROVE Typed'
  <2>1. clock' = clock /\ faults' = faults /\ linked' = linked /\ r \notin linked /\ Ends(r)
    BY <1>9 DEF FinishBackup, Inv, Typed
  <2> QED
    BY <2>1, EndsTyped DEF Inv, Typed
<1>10. CASE Tick
  BY <1>10, Times DEF Inv, Typed, Tick, pruning, InFlight
<1>11. CASE Crash
  BY <1>11, Times, NoneIsId DEF Inv, Typed, Crash, Steps, InFlight
<1>12. CASE UNCHANGED vars
  BY <1>12 DEF Inv, Typed, vars, InFlight
<1> QED
  BY <1>1, <1>2, <1>3, <1>4, <1>5, <1>6, <1>7, <1>8, <1>9, <1>10, <1>11, <1>12 DEF Next

\* What was seen before stays sortable beside a tidy directory.
LEMMA SeenStays ==
  ASSUME Inv, Tidy, NEW r \in Runs
  PROVE  Good(seen[r], clock') /\ Agree(seen[r], files')
<1>1. Good(seen[r], clock) /\ Agree(seen[r], files) /\ clock \in Nat
  BY Times DEF Inv, Seeing, Sees
<1>2. Good(seen[r], clock')
  <2>1. seen[r] \in SUBSET seen[r]
    OBVIOUS
  <2> QED
    BY <1>1, <2>1, FewerAndLater DEF Tidy
<1>3. ASSUME NEW s \in seen[r], NEW f \in files', s.mod = f.mod PROVE IdOf(s) = IdOf(f)
  <2>1. s.mod \in Nat /\ s.mod < clock
    BY <1>1 DEF Good, File
  <2>2. f \in files
    BY <1>1, <1>3, <2>1 DEF Tidy
  <2> QED
    BY <1>1, <1>3, <2>2 DEF Agree
<1> QED
  BY <1>2, <1>3 DEF Agree

\* A look adds an archive that differs from those seen before.
LEMMA LookAdds ==
  ASSUME Inv, NEW r \in Runs, NEW id \in unread[r]
  PROVE  LET now == seen[r] \cup {f \in files : IdOf(f) = id}
         IN  /\ Good(now, clock) /\ Agree(now, files)
             /\ \A s \in now : IdOf(s) \notin unread[r] \ {id}
<1> DEFINE some == {f \in files : IdOf(f) = id}
           now  == seen[r] \cup some
<1>1. /\ Good(seen[r], clock) /\ Agree(seen[r], files) /\ Good(files, clock)
      /\ \A s \in seen[r] : IdOf(s) \notin unread[r]
  BY DEF Inv, Seeing, Sees
<1>2. IsFiniteSet(now)
  <2>1. IsFiniteSet(some) /\ IsFiniteSet(seen[r])
    BY <1>1, FS_Subset DEF Good
  <2> HIDE DEF some
  <2> QED
    BY <2>1, FS_Union
<1>3. \A f, g \in now : IdOf(f) = IdOf(g) \/ f.mod = g.mod => f = g
  <2> SUFFICES ASSUME NEW f \in now, NEW g \in now, IdOf(f) = IdOf(g) \/ f.mod = g.mod PROVE f = g
    OBVIOUS
  <2>1. CASE f \in seen[r] /\ g \in seen[r]
    BY <1>1, <2>1 DEF Good
  <2>2. CASE f \in some /\ g \in some
    BY <1>1, <2>2 DEF Good
  <2>3. CASE f \in seen[r] /\ g \in some
    BY <1>1, <2>3 DEF Agree
  <2>4. CASE f \in some /\ g \in seen[r]
    BY <1>1, <2>4 DEF Agree
  <2> QED
    BY <2>1, <2>2, <2>3, <2>4
<1>4. now \subseteq File /\ \A f \in now : f.mod < clock
  BY <1>1 DEF Good
<1>5. Agree(now, files)
  BY <1>1 DEF Agree, Good
<1>6. \A s \in now : IdOf(s) \notin unread[r] \ {id}
  BY <1>1
<1> HIDE DEF now
<1>7. Good(now, clock)
  BY <1>2, <1>3, <1>4 DEF Good
<1> QED
  BY <1>5, <1>6, <1>7 DEF now

\* What the prunings have seen stays sortable.
LEMMA SeeingStep ==
  ASSUME Inv, [Next]_vars
  PROVE  Seeing'
<1> SUFFICES ASSUME NEW q \in Runs PROVE Sees(q)'
  BY DEF Seeing
<1>1. Tidy /\ Good(seen[q], clock') /\ Agree(seen[q], files') /\ Sees(q) /\ Typed /\ Typed'
  BY TidyStep, TypedStep, SeenStays DEF Inv, Seeing
<1>2. CASE seen'[q] = {}
  <2>1. Good({}, clock')
    BY FS_EmptySet DEF Good
  <2> QED
    BY <1>2, <2>1 DEF Sees, Agree
<1>3. CASE seen'[q] = seen[q] /\ unread'[q] \subseteq unread[q] /\ (pc[q] \in {"idle", "write", "list"} \/ pc'[q] \notin {"idle", "write", "list"})
  BY <1>1, <1>3 DEF Sees
<1>4. ASSUME NEW r \in Runs, Ends(r) PROVE Sees(q)'
  BY <1>1, <1>2, <1>3, <1>4 DEF Ends, Goto, Typed
<1>5. ASSUME NEW r \in Runs, NEW name \in Names, CreateArchive(r, name) PROVE Sees(q)'
  BY <1>1, <1>3, <1>5 DEF CreateArchive, Begins, Goto, Typed, pruning
<1>6. ASSUME NEW r \in Runs, WriteMore(r) PROVE Sees(q)'
  BY <1>1, <1>3, <1>6 DEF WriteMore, pruning
<1>7. ASSUME NEW r \in Runs, EndArchive(r), ~Ends(r) PROVE Sees(q)'
  BY <1>1, <1>2, <1>3, <1>7 DEF EndArchive, Goto, pruning, Typed, Writes
<1>8. ASSUME NEW r \in Runs, List(r), ~Ends(r) PROVE Sees(q)'
  <2>1. pc[r] = "list" /\ Goto(r, "look") /\ seen' = seen /\ \E ids : unread' = [unread EXCEPT ![r] = ids]
    BY <1>8 DEF List
  <2>2. CASE q = r
    BY <1>1, <1>2, <2>1, <2>2 DEF Sees
  <2>3. CASE q # r
    BY <1>1, <1>3, <2>1, <2>3 DEF Goto, Typed
  <2> QED
    BY <2>2, <2>3
<1>9. ASSUME NEW r \in Runs, Look(r) PROVE Sees(q)'
  <2>1. PICK id \in unread[r] :
          /\ unread' = [unread EXCEPT ![r] = @ \ {id}]
          /\ seen' = [seen EXCEPT ![r] = @ \cup {f \in files : IdOf(f) = id}]
    BY <1>9 DEF Look
  <2>2. pc' = pc /\ files' = files /\ clock' = clock /\ pc[r] = "look"
    BY <1>9 DEF Look
  <2>3. CASE q = r
    <3>1. unread'[q] = unread[r] \ {id} /\ seen'[q] = seen[r] \cup {f \in files : IdOf(f) = id}
      BY <1>1, <2>1, <2>3 DEF Typed
    <3> DEFINE now == seen[r] \cup {f \in files : IdOf(f) = id}
    <3>2. Good(now, clock) /\ Agree(now, files) /\ \A s \in now : IdOf(s) \notin unread[r] \ {id}
      BY LookAdds
    <3> HIDE DEF now
    <3>3. Good(now, clock') /\ Agree(now, files')
      BY <2>2, <3>2
    <3>4. seen'[q] = now /\ pc'[q] \notin {"idle", "write", "list"}
      BY <2>2, <2>3, <3>1 DEF now
    <3> QED
      BY <3>1, <3>2, <3>3, <3>4 DEF Sees
  <2>4. CASE q # r
    BY <1>1, <1>3, <2>1, <2>2, <2>4 DEF Typed
  <2> QED
    BY <2>3, <2>4
<1>10. ASSUME NEW r \in Runs, Select(r) PROVE Sees(q)'
  BY <1>1, <1>3, <1>10 DEF Select, Goto, Typed
<1>11. ASSUME NEW r \in Runs, Delete(r) PROVE Sees(q)'
  BY <1>1, <1>3, <1>11 DEF Delete
<1>12. CASE Tick \/ UNCHANGED vars
  BY <1>1, <1>3, <1>12 DEF Tick, pruning, vars
<1>13. CASE Crash
  BY <1>2, <1>13 DEF Crash
<1> QED
  BY <1>4, <1>5, <1>6, <1>7, <1>8, <1>9, <1>10, <1>11, <1>12, <1>13 DEF Next, BackupFails, FinishBackup

-----------------------------------------------------------------------------
(* What they do to a backup that has met no other.                          *)

\* Its selection spares its own archive, and leaves no more than the cap.
LEMMA Selected ==
  ASSUME Inv, NEW r \in alone, Select(r)
  PROVE  /\ target[r] \notin doomed'[r]
         /\ CapHolds(target[r].name, {f \in Matching(target[r].name, files) : IdOf(f) \notin doomed'[r]})
<1> DEFINE name == target[r].name
           some == seen[r]
<1>1. /\ r \in Runs /\ name \in Names /\ clock \in Nat
      /\ doomed'[r] = {IdOf(f) : f \in ToDelete(name, some)}
  BY Times DEF Inv, Typed, InFlight, Select, Id
<1>2. Good(some, clock) /\ Good(files, clock)
  BY <1>1 DEF Inv, Seeing, Sees
<1>3. Sortable(some)
  <2> HIDE DEF some
  <2> QED
    BY <1>1, <1>2, GoodIsSortable
<1>4. /\ some \subseteq files /\ unread[r] = {} /\ Newest(r)
      /\ \A f \in Matching(name, files) : f \in some
  BY DEF Inv, Undisturbed, Select
<1>5. PICK own \in files : IdOf(own) = target[r] /\ \A g \in files : g.mod <= own.mod
  BY <1>4 DEF Newest
<1>6. own \in some
  <2>1. own.name = name
    BY <1>5 DEF IdOf
  <2> QED
    BY <1>4, <2>1 DEF Matching
<1>7. Newer(own, some) = {}
  <2>1. \A g \in files : g.mod \in Nat
    BY <1>2 DEF Good, File
  <2> QED
    BY <1>4, <1>5, <2>1 DEF Newer
<1>8. own \in Kept(name, some)
  <2> HIDE DEF name, some
  <2>1. Rank(own, some) = 0
    BY <1>7, FS_EmptySet DEF Rank
  <2>2. MaxBackups[name] \in Nat /\ 1 <= Larger(MinBackups[name], 1)
    BY <1>1, Numbers DEF Larger
  <2>3. MaxBackups[name] > 0 => 1 <= MaxBackups[name]
    BY <2>2
  <2>4. {f \in some : Rank(f, some) < 1} \subseteq Kept(name, some)
    BY <1>1, <1>3, <2>2, <2>3, NewestAreLeft
  <2> QED
    BY <1>6, <2>1, <2>4
<1>9. target[r] \notin doomed'[r]
  <2> SUFFICES ASSUME NEW g \in ToDelete(name, some), IdOf(g) = target[r] PROVE FALSE
    BY <1>1
  <2>1. g \in some
    BY DEF ToDelete, OverCap, Expired
  <2>2. g = own
    BY <1>2, <1>5, <1>6, <2>1 DEF Good
  <2> QED
    BY <1>8, <2>2 DEF Kept
<1>10. ASSUME MaxBackups[name] > 0
       PROVE  Cardinality({f \in Matching(name, files) : IdOf(f) \notin doomed'[r]}) <= MaxBackups[name]
  <2> DEFINE spared == {f \in Matching(name, files) : IdOf(f) \notin doomed'[r]}
  <2>1. spared \in SUBSET Kept(name, some)
    BY <1>1, <1>4 DEF Kept
  <2> HIDE DEF name, some, spared
  <2>2. IsFiniteSet(Kept(name, some)) /\ Cardinality(Kept(name, some)) <= MaxBackups[name]
    BY <1>1, <1>3, <1>10, CapIsHard
  <2>3. IsFiniteSet(spared) /\ Cardinality(spared) <= Cardinality(Kept(name, some))
    BY <2>1, <2>2, FS_Subset
  <2>4. Cardinality(spared) \in Nat /\ Cardinality(Kept(name, some)) \in Nat /\ MaxBackups[name] \in Nat
    BY <1>1, <2>2, <2>3, FS_CardinalityType, Numbers
  <2>5. Cardinality(spared) <= MaxBackups[name]
    BY <2>2, <2>3, <2>4
  <2> QED
    BY <2>5 DEF spared
<1> QED
  BY <1>9, <1>10 DEF CapHolds

\* A deletion leaves its own archive and those it is not to delete.
LEMMA Deleted ==
  ASSUME Inv, NEW r \in alone, Delete(r)
  PROVE  Newest(r)' /\ target[r] \notin doomed'[r]
         /\ (faults' = 0 => CapHolds(target[r].name, Spared(r)'))
<1>1. /\ r \in Runs /\ target' = target /\ target[r] \notin doomed[r] /\ Newest(r)
      /\ (faults = 0 => CapHolds(target[r].name, Spared(r)))
  BY DEF Inv, Typed, InFlight, Undisturbed, Delete
<1>2. PICK id \in doomed[r] : /\ doomed' = [doomed EXCEPT ![r] = @ \ {id}]
                              /\ \/ Unlink(id) /\ UNCHANGED faults
                                 \/ Fault /\ UNCHANGED <<files, linked>>
  BY DEF Delete
<1>3. doomed'[r] = doomed[r] \ {id}
  BY <1>1, <1>2 DEF Inv, Typed
<1>4. CASE Unlink(id) /\ UNCHANGED faults
  <2>1. files' = {f \in files : IdOf(f) # id}
    BY <1>4 DEF Unlink
  <2>2. Newest(r)'
    BY <1>1, <2>1 DEF Newest
  <2>3. Spared(r)' = Spared(r)
    BY <1>1, <1>3, <2>1 DEF Spared, Matching
  <2> QED
    BY <1>1, <1>3, <1>4, <2>2, <2>3
<1>5. CASE Fault /\ UNCHANGED <<files, linked>>
  <2>1. faults' # 0
    BY <1>5, Times DEF Inv
  <2> QED
    BY <1>1, <1>3, <1>5, <2>1 DEF Newest
<1> QED
  BY <1>2, <1>4, <1>5

LEMMA AloneStep ==
  ASSUME Inv, [Next]_vars, NEW r \in alone'
  PROVE  Undisturbed(r)'
<1>1. Typed /\ Typed' /\ Good(files, clock) /\ (r \in alone => r \in Runs /\ Undisturbed(r))
  BY TypedStep DEF Inv, Typed, InFlight
<1>2. ASSUME NEW q \in Runs, NEW name \in Names, CreateArchive(q, name) PROVE Undisturbed(r)'
  <2> DEFINE id == [name |-> name, second |-> clock \div Second]
  <2>1. id \in Id
    <3>1. clock \div Second \in Nat
      BY Times, Numbers DEF Inv
    <3> QED
      BY <3>1 DEF Id
  <2>2. Begins(q, id) /\ Passes /\ files' = {f \in files : IdOf(f) # id} \cup {Created(id)}
    BY <1>2 DEF CreateArchive, Begins
  <2> HIDE DEF id
  <2>3. InFlight = {} /\ r = q /\ pc'[r] = "write" /\ target'[r] = id /\ r \in linked'
    BY <1>1, <2>2 DEF Begins, Goto, Typed
  <2>4. linked = {}
    BY <1>1, <2>3 DEF Typed, InFlight
  <2>5. Created(id) \in files' /\ IdOf(Created(id)) = id /\ Created(id).content = "part"
    BY <2>1, <2>2, <2>4, CreatingIsTidy
  <2>6. \A p \in Runs : p # r => pc'[p] = "idle"
    BY <1>1, <2>2, <2>3 DEF Begins, Goto, Typed, InFlight
  <2> QED
    BY <2>3, <2>5, <2>6 DEF Undisturbed
<1>3. ASSUME NEW q \in Runs, pc[q] # "idle", r \in alone PROVE q = r
  BY <1>1, <1>3 DEF Undisturbed
<1>4. ASSUME NEW q \in Runs, Ends(q) PROVE r # q
  BY <1>4 DEF Ends
<1>5. ASSUME NEW q \in Runs, WriteMore(q) PROVE Undisturbed(r)'
  <2>1. q = r /\ r \in alone /\ Writes(r, FALSE) /\ UNCHANGED <<pc, target, linked, doomed, unread, seen, faults>>
    BY <1>3, <1>5 DEF WriteMore, Writes, pruning
  <2>2. PICK own \in files : IdOf(own) = target[r] /\ own.content = "part" /\ r \in linked /\ pc[r] = "write"
    BY <1>1, <2>1 DEF Undisturbed, Writes
  <2>3. own \in File /\ clock \in Nat
    BY <1>1, Times DEF Good
  <2>4. IdOf(Written(own, FALSE)) = target[r] /\ Written(own, FALSE).content = "part"
    BY <2>2, <2>3, WrittenIs
  <2>5. Written(own, FALSE) \in files'
    BY <1>1, <2>1, <2>2, WritingIsTidy
  <2> QED
    BY <1>1, <2>1, <2>2, <2>4, <2>5 DEF Undisturbed
<1>6. ASSUME NEW q \in Runs, EndArchive(q) PROVE Undisturbed(r)'
  <2>1. r \in alone /\ pc[q] = "write"
    BY <1>6 DEF EndArchive, Ends, Writes
  <2>2. q = r /\ Writes(r, TRUE) /\ Goto(r, "list") /\ target' = target
    BY <1>3, <1>4, <1>6, <2>1 DEF EndArchive
  <2>3. PICK own \in files : IdOf(own) = target[r] /\ own.content = "part" /\ r \in linked
    BY <1>1, <2>1, <2>2 DEF Undisturbed
  <2>4. own \in File /\ clock \in Nat
    BY <1>1, Times DEF Good
  <2>5. IdOf(Written(own, TRUE)) = target[r] /\ Written(own, TRUE).content = "whole"
        /\ Written(own, TRUE).mod = clock
    BY <2>3, <2>4, WrittenIs
  <2>6. Written(own, TRUE) \in files' /\ \A f \in files' : f.mod <= clock
    BY <1>1, <2>1, <2>2, <2>3, WritingIsTidy
  <2>7. Newest(r)'
    BY <2>2, <2>5, <2>6 DEF Newest
  <2>8. pc'[r] = "list" /\ \A p \in Runs : p # r => pc'[p] = "idle"
    BY <1>1, <2>1, <2>2 DEF Goto, Typed, Undisturbed
  <2> QED
    BY <2>7, <2>8 DEF Undisturbed
<1>7. ASSUME NEW q \in Runs, BackupFails(q) \/ FinishBackup(q) PROVE Undisturbed(r)'
  <2>1. pc[q] # "idle" /\ r \in alone /\ Ends(q)
    BY <1>7 DEF BackupFails, FinishBackup, Ends
  <2> QED
    BY <1>3, <1>4, <2>1
<1>8. ASSUME NEW q \in Runs, List(q) PROVE Undisturbed(r)'
  <2>1. pc[q] = "list" /\ r \in alone
    BY <1>8 DEF List, Ends
  <2> DEFINE ids == {IdOf(f) : f \in Matching(target[r].name, files)}
  <2>2. /\ q = r /\ unread' = [unread EXCEPT ![r] = ids] /\ Goto(r, "look")
        /\ UNCHANGED <<files, target, seen, doomed, faults>>
    BY <1>3, <1>4, <1>8, <2>1 DEF List
  <2>3. Newest(r)'
    BY <1>1, <2>1, <2>2 DEF Undisturbed, Newest
  <2>4. pc'[r] = "look" /\ \A p \in Runs : p # r => pc'[p] = "idle"
    BY <1>1, <2>1, <2>2 DEF Goto, Typed, Undisturbed
  <2>5. seen'[r] = {} /\ unread'[r] = ids
    BY <1>1, <2>1, <2>2 DEF Inv, Seeing, Sees, Typed
  <2>6. \A f \in Matching(target'[r].name, files') : IdOf(f) \in unread'[r]
    BY <2>2, <2>5
  <2> QED
    BY <2>3, <2>4, <2>5, <2>6 DEF Undisturbed
<1>9. ASSUME NEW q \in Runs, Look(q) PROVE Undisturbed(r)'
  <2>1. q = r /\ r \in alone /\ pc[r] = "look" /\ UNCHANGED <<files, pc, target, doomed, faults>>
    BY <1>3, <1>9 DEF Look
  <2>2. PICK id \in unread[r] :
          /\ unread' = [unread EXCEPT ![r] = @ \ {id}]
          /\ seen' = [seen EXCEPT ![r] = @ \cup {f \in files : IdOf(f) = id}]
    BY <1>9, <2>1 DEF Look
  <2>3. unread'[r] = unread[r] \ {id} /\ seen'[r] = seen[r] \cup {f \in files : IdOf(f) = id}
    BY <1>1, <2>1, <2>2 DEF Typed
  <2>4. seen[r] \subseteq files
        /\ \A f \in Matching(target[r].name, files) : IdOf(f) \in unread[r] \/ f \in seen[r]
    BY <1>1, <2>1 DEF Undisturbed
  <2>5. seen'[r] \subseteq files'
    BY <2>1, <2>3, <2>4
  <2>6. \A f \in Matching(target'[r].name, files') : IdOf(f) \in unread'[r] \/ f \in seen'[r]
    BY <2>1, <2>3, <2>4 DEF Matching
  <2>7. Newest(r)' /\ pc'[r] = "look" /\ \A p \in Runs : p # r => pc'[p] = "idle"
    BY <1>1, <2>1 DEF Undisturbed, Newest
  <2> QED
    BY <2>5, <2>6, <2>7 DEF Undisturbed
<1>10. ASSUME NEW q \in Runs, Select(q) PROVE Undisturbed(r)'
  <2>1. q = r /\ r \in alone /\ Select(r) /\ pc[r] = "look" /\ Goto(r, "delete") /\ UNCHANGED <<files, target, faults>>
    BY <1>3, <1>10 DEF Select
  <2>2. Newest(r)' /\ pc'[r] = "delete" /\ \A p \in Runs : p # r => pc'[p] = "idle"
    BY <1>1, <2>1 DEF Undisturbed, Newest, Goto, Typed
  <2>3. /\ target[r] \notin doomed'[r]
        /\ CapHolds(target[r].name, {f \in Matching(target[r].name, files) : IdOf(f) \notin doomed'[r]})
    BY <2>1, Selected
  <2>4. CapHolds(target[r].name, Spared(r))'
    BY <2>1, <2>3 DEF Spared, CapHolds
  <2> QED
    BY <2>1, <2>2, <2>3, <2>4 DEF Undisturbed
<1>11. ASSUME NEW q \in Runs, Delete(q) PROVE Undisturbed(r)'
  <2>1. q = r /\ r \in alone /\ Delete(r) /\ pc[r] = "delete" /\ UNCHANGED <<pc, target>>
    BY <1>3, <1>11 DEF Delete
  <2>2. \A p \in Runs : p # r => pc'[p] = "idle"
    BY <1>1, <2>1 DEF Undisturbed
  <2>3. Newest(r)' /\ target'[r] \notin doomed'[r]
        /\ (faults' = 0 => CapHolds(target[r].name, Spared(r)'))
    BY <2>1, Deleted
  <2>4. (faults = 0 => CapHolds(target[r].name, Spared(r)))'
    BY <2>1, <2>3 DEF CapHolds
  <2> QED
    BY <2>1, <2>2, <2>3, <2>4 DEF Undisturbed
<1>12. CASE Tick \/ UNCHANGED vars
  <2>1. UNCHANGED <<files, pc, target, linked, unread, seen, doomed, alone, faults>>
    BY <1>12 DEF Tick, pruning, vars
  <2> QED
    BY <1>1, <2>1 DEF Undisturbed, Newest, Spared
<1>13. CASE Crash
  BY <1>13 DEF Crash
<1> QED
  BY <1>2, <1>5, <1>6, <1>7, <1>8, <1>9, <1>10, <1>11, <1>12, <1>13 DEF Next

LEMMA InvStep == Inv /\ [Next]_vars => Inv'
<1> SUFFICES ASSUME Inv, [Next]_vars PROVE Inv'
  OBVIOUS
<1>1. Good(files, clock)'
  BY TidyStep DEF Tidy, Good
<1>2. Typed' /\ Seeing' /\ \A r \in alone' : Undisturbed(r)'
  BY TypedStep, SeeingStep, AloneStep
<1> QED
  BY <1>1, <1>2 DEF Inv

LEMMA Invariance == Spec => []Inv
  BY InitInv, InvStep, PTL DEF Spec

-----------------------------------------------------------------------------
(* The theorems.                                                            *)

\* Archives, backups in flight and the clock keep their form; a file name is
\* one file, and what is listed while others write has an order (CreateZipArchive, pruneBackups).
THEOREM TypeCorrect == Spec => []TypeOK
<1>1. Inv => TypeOK
  <2> SUFFICES ASSUME Inv PROVE TypeOK
    OBVIOUS
  <2>1. files \subseteq File /\ \A f, g \in files : IdOf(f) = IdOf(g) \/ f.mod = g.mod => f = g
    BY DEF Inv, Good
  <2>2. \A r \in Runs : \A f, g \in seen[r] : IdOf(f) = IdOf(g) \/ f.mod = g.mod => f = g
    BY DEF Inv, Seeing, Sees, Good
  <2> QED
    BY <2>1, <2>2 DEF Inv, Typed, TypeOK, Steps
<1> QED
  BY <1>1, Invariance, PTL

\* A backup that meets no other keeps its own archive through its pruning, whatever
\* the options are and whatever was in the directory (pruneBackups).
THEOREM NewestIsKept == Spec => []NewestKept
<1>1. Inv => NewestKept
  <2> SUFFICES ASSUME Inv, NEW r \in alone, pc[r] # "write"
               PROVE  \E f \in files : IdOf(f) = target[r] /\ f.content = "whole"
    BY DEF NewestKept
  <2>1. pc[r] \in {"list", "look", "delete"} /\ Undisturbed(r)
    BY DEF Inv, Typed, Steps, InFlight
  <2> QED
    BY <2>1 DEF Undisturbed, Newest
<1> QED
  BY <1>1, Invariance, PTL

\* Whatever the three options are, they keep together what they promise of what a
\* pruning has seen, also while others write: the cap holds, age leaves the minimum,
\* and nothing else is deleted; one that met no other leaves the directory within its
\* cap (pruneBackups).
THEOREM OptionsKeepTheirPromises == Spec => OptionsCombine
<1>1. ASSUME Inv, NEW r \in Runs, Select(r)
      PROVE  /\ CapHolds(target[r].name, Left(r))
             /\ MinimumHolds(target[r].name, seen[r], Left(r))
             /\ YoungKept(target[r].name, seen[r], Left(r))
  <2> DEFINE name == target[r].name
             all  == seen[r]
             left == Left(r)
  <2>1. /\ name \in Names /\ clock \in Nat /\ Good(all, clock)
        /\ doomed'[r] = {IdOf(f) : f \in ToDelete(name, all)}
    BY <1>1, Times DEF Inv, Typed, Seeing, Sees, Select, Id
  <2>2. left = Kept(name, all)
    <3>1. \A f \in all : IdOf(f) \in doomed'[r] <=> f \in ToDelete(name, all)
      <4>1. ToDelete(name, all) \subseteq all
        BY DEF ToDelete, OverCap, Expired
      <4> QED
        BY <2>1, <4>1 DEF Good
    <3> QED
      BY <3>1 DEF Left, Kept
  <2> HIDE DEF all, left, name
  <2>3. Sortable(all) /\ left \in SUBSET all /\ Kept(name, all) \subseteq left
    BY <2>1, <2>2, GoodIsSortable DEF Kept
  <2>4. CapHolds(name, left)
    BY <2>1, <2>2, <2>3, CapIsHard DEF CapHolds
  <2>5. MinimumHolds(name, all, left)
    <3> SUFFICES ASSUME Cardinality(left) < Cardinality(all)
                 PROVE  \/ Cardinality(left) >= Larger(MinBackups[name], 1)
                        \/ MaxBackups[name] > 0 /\ Cardinality(left) >= MaxBackups[name]
      BY DEF MinimumHolds
    <3> QED
      BY <2>1, <2>3, MinimumIsKept
  <2>6. YoungKept(name, all, left)
    <3> SUFFICES ASSUME NEW f \in all \ left
                 PROVE  \/ Retain[name] > 0 /\ f.mod + Retain[name] < clock
                        \/ MaxBackups[name] > 0 /\ Cardinality(left) >= MaxBackups[name]
      BY DEF YoungKept
    <3> QED
      BY <2>1, <2>3, DeletedForAReason
  <2> QED
    BY <2>4, <2>5, <2>6 DEF all, left, name
<1>2. ASSUME Inv, NEW r \in alone, FinishBackup(r), faults = 0
      PROVE  CapHolds(target[r].name, Matching(target[r].name, files))
  <2>1. pc[r] = "delete" /\ doomed[r] = {} /\ CapHolds(target[r].name, Spared(r))
    BY <1>2 DEF FinishBackup, Inv, Undisturbed
  <2>2. Spared(r) = Matching(target[r].name, files)
    BY <2>1 DEF Spared
  <2> QED
    BY <2>1, <2>2
<1>3. Inv /\ [Next]_vars =>
        [\A r \in Runs :
           /\ Select(r) => /\ CapHolds(target[r].name, Left(r))
                           /\ MinimumHolds(target[r].name, seen[r], Left(r))
                           /\ YoungKept(target[r].name, seen[r], Left(r))
           /\ FinishBackup(r) /\ r \in alone /\ faults = 0 =>
                CapHolds(target[r].name, Matching(target[r].name, files))]_vars
  BY <1>1, <1>2
<1> QED
  BY <1>3, Invariance, PTL DEF Spec, OptionsCombine
=============================================================================
