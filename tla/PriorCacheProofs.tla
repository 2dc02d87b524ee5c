--------------------------- MODULE PriorCacheProofs ---------------------------
(***************************************************************************)
(* The cached prior, for every corpus and every interleaving of a load     *)
(* with a rewrite: what is counted is a beginning of the corpus, so that   *)
(* every prior is a share of its class.                                    *)
(***************************************************************************)
EXTENDS PriorCache, FiniteSetTheorems, TLAPS

(* The lines of a class, and of a cause in it, among the first n. *)
OfClass(c, n) == {i \in 1..n : Records[i].classification = c}
OfCause(c, k, n) == {i \in 1..n : Records[i].classification = c /\ Records[i].cause = k}

CountsTo(loaded, n) ==
  /\ loaded.totals = [c \in Class |-> Cardinality(OfClass(c, n))]
  /\ loaded.counts = [c \in Class |-> [k \in Cause |-> Cardinality(OfCause(c, k, n))]]

Loaded == [counts |-> counts, totals |-> totals]

(* The strengthening: the loop has counted the lines up to its position,   *)
(* and what was cached is such a count.                                    *)
Counted ==
  /\ PriorCacheTypeOK
  /\ CountsTo(Loaded, position)
  /\ cache # Empty => \E n \in 0..AllLines : CountsTo(cache, n)

(* The lines up to n are finitely many, those of a cause among those of    *)
(* its class.                                                              *)
LEMMA LinesFinite ==
  ASSUME NEW c, NEW k, NEW n \in Nat
  PROVE  /\ IsFiniteSet(OfClass(c, n))
         /\ IsFiniteSet(OfCause(c, k, n))
         /\ OfCause(c, k, n) \subseteq OfClass(c, n)
         /\ Cardinality(OfClass(c, n)) \in Nat
         /\ Cardinality(OfCause(c, k, n)) \in Nat
         /\ Cardinality(OfCause(c, k, n)) <= Cardinality(OfClass(c, n))
<1>1. IsFiniteSet(1..n)
  BY FS_Interval
<1>2. OfClass(c, n) \subseteq 1..n /\ OfCause(c, k, n) \subseteq OfClass(c, n)
  BY DEF OfClass, OfCause
<1>3. IsFiniteSet(OfClass(c, n))
  BY <1>1, <1>2, FS_Subset
<1>4. IsFiniteSet(OfCause(c, k, n)) /\ Cardinality(OfCause(c, k, n)) <= Cardinality(OfClass(c, n))
  BY <1>2, <1>3, FS_Subset
<1> QED
  BY <1>2, <1>3, <1>4, FS_CardinalityType

(* One more line adds one to the count of its class and of its cause, and  *)
(* leaves the others.                                                      *)
LEMMA OneMoreOfClass ==
  ASSUME NEW c, NEW n \in Nat
  PROVE  Cardinality(OfClass(c, n + 1)) =
           Cardinality(OfClass(c, n))
             + (IF Records[n + 1].classification = c THEN 1 ELSE 0)
<1>1. IsFiniteSet(OfClass(c, n)) /\ Cardinality(OfClass(c, n)) \in Nat
  BY LinesFinite
<1>2. n + 1 \notin OfClass(c, n)
  BY DEF OfClass
<1>3. CASE Records[n + 1].classification = c
  <2>1. OfClass(c, n + 1) = OfClass(c, n) \cup {n + 1}
    BY <1>3 DEF OfClass
  <2> QED
    BY <1>1, <1>2, <1>3, <2>1, FS_AddElement
<1>4. CASE Records[n + 1].classification # c
  <2>1. OfClass(c, n + 1) = OfClass(c, n)
    BY <1>4 DEF OfClass
  <2> QED
    BY <1>1, <1>4, <2>1
<1> QED
  BY <1>3, <1>4

LEMMA OneMoreOfCause ==
  ASSUME NEW c, NEW k, NEW n \in Nat
  PROVE  Cardinality(OfCause(c, k, n + 1)) =
           Cardinality(OfCause(c, k, n))
             + (IF Records[n + 1].classification = c /\ Records[n + 1].cause = k
                THEN 1 ELSE 0)
<1>1. IsFiniteSet(OfCause(c, k, n)) /\ Cardinality(OfCause(c, k, n)) \in Nat
  BY LinesFinite
<1>2. n + 1 \notin OfCause(c, k, n)
  BY DEF OfCause
<1>3. CASE Records[n + 1].classification = c /\ Records[n + 1].cause = k
  <2>1. OfCause(c, k, n + 1) = OfCause(c, k, n) \cup {n + 1}
    BY <1>3 DEF OfCause
  <2> QED
    BY <1>1, <1>2, <1>3, <2>1, FS_AddElement
<1>4. CASE ~(Records[n + 1].classification = c /\ Records[n + 1].cause = k)
  <2>1. OfCause(c, k, n + 1) = OfCause(c, k, n)
    BY <1>4 DEF OfCause
  <2> QED
    BY <1>1, <1>4, <2>1
<1> QED
  BY <1>3, <1>4

(* Before the first line nothing is counted. *)
LEMMA NothingCounted == CountsTo([counts |-> NoCounts, totals |-> NoTotals], 0)
<1>1. \A c, k : OfClass(c, 0) = {} /\ OfCause(c, k, 0) = {}
  BY DEF OfClass, OfCause
<1> QED
  BY <1>1, FS_EmptySet DEF CountsTo, NoCounts, NoTotals

(* The length of the corpus. *)
LEMMA LengthNat == AllLines \in Nat
  BY LinesAssumption DEF AllLines

(* The line after the position is a line of the corpus, of one of its      *)
(* classes and causes.                                                     *)
LEMMA LineKnown ==
  ASSUME NEW n \in 0..AllLines, n < AllLines
  PROVE  Records[n + 1].classification \in Class /\ Records[n + 1].cause \in Cause
<1>1. n + 1 \in DOMAIN Records
  BY LinesAssumption, LengthNat DEF AllLines
<1> QED
  BY <1>1 DEF Class, Cause

(* Reading one line keeps the count. *)
LEMMA ReadCounts == Counted /\ ReadLine => Counted'
<1> SUFFICES ASSUME Counted, ReadLine PROVE Counted'
  OBVIOUS
<1> DEFINE line == Records[position + 1]
<1>1. /\ position \in 0..AllLines /\ position < AllLines
      /\ position' = position + 1
      /\ position' \in 0..fetched
  BY LengthNat DEF Counted, PriorCacheTypeOK, ReadLine
<1>2. line.classification \in Class /\ line.cause \in Cause
  BY <1>1, LineKnown
<1>3. /\ counts \in [Class -> [Cause -> Nat]] /\ totals \in [Class -> Nat]
      /\ totals = [c \in Class |-> Cardinality(OfClass(c, position))]
      /\ counts = [c \in Class |-> [k \in Cause |-> Cardinality(OfCause(c, k, position))]]
  BY DEF Counted, PriorCacheTypeOK, CountsTo, Loaded
<1>4. /\ counts' = [counts EXCEPT ![line.classification][line.cause] = @ + 1]
      /\ totals' = [totals EXCEPT ![line.classification] = @ + 1]
      /\ UNCHANGED <<written, torn, generator, loader, fetched, cut, cache>>
  BY DEF ReadLine, Count, disk, buffer
<1> HIDE DEF line
<1>5. counts \in [Class -> [Cause -> Nat]] /\ totals \in [Class -> Nat]
  BY DEF Counted, PriorCacheTypeOK
<1>6. counts' \in [Class -> [Cause -> Nat]] /\ totals' \in [Class -> Nat]
  <2>1. totals' \in [Class -> Nat]
    <3>1. totals \in [Class -> Nat]
      BY DEF Counted, PriorCacheTypeOK
    <3>2. totals' = [totals EXCEPT ![line.classification] = @ + 1]
      BY <1>4
    <3>3. totals[line.classification] + 1 \in Nat
      BY <1>2, <3>1
    <3> QED
      BY <1>2, <3>1, <3>2, <3>3
  <2>2. [counts[line.classification] EXCEPT ![line.cause] = @ + 1] \in [Cause -> Nat]
    BY <1>2, <1>5
  <2>3. counts' \in [Class -> [Cause -> Nat]]
    BY <1>4, <1>5, <2>2
  <2> QED
    BY <2>1, <2>3
<1>7. totals' = [c \in Class |-> Cardinality(OfClass(c, position + 1))]
  <2>1. \A c \in Class : totals'[c] = totals[c] + (IF line.classification = c THEN 1 ELSE 0)
    BY <1>3, <1>4
  <2>2. \A c \in Class : totals'[c] = Cardinality(OfClass(c, position + 1))
    BY <1>1, <1>3, <2>1, OneMoreOfClass DEF line
  <2> QED
    BY <1>3, <1>4, <2>2
<1>8. counts' = [c \in Class |->
                   [k \in Cause |-> Cardinality(OfCause(c, k, position + 1))]]
  <2>1. \A c \in Class, k \in Cause :
          counts'[c][k] = counts[c][k]
            + (IF line.classification = c /\ line.cause = k THEN 1 ELSE 0)
    BY <1>3, <1>4
  <2>2. \A c \in Class, k \in Cause :
          counts'[c][k] = Cardinality(OfCause(c, k, position + 1))
    BY <1>1, <1>3, <2>1, OneMoreOfCause DEF line
  <2> QED
    BY <1>6, <2>2
<1>9. PriorCacheTypeOK'
  BY <1>1, <1>4, <1>6 DEF Counted, PriorCacheTypeOK
<1>10. CountsTo(Loaded, position)'
  BY <1>1, <1>7, <1>8 DEF CountsTo, Loaded
<1> QED
  BY <1>4, <1>9, <1>10 DEF Counted, CountsTo

(* A step that does not touch the loader keeps the count. *)
LEMMA UntouchedCounts ==
  ASSUME Counted, PriorCacheTypeOK', UNCHANGED <<position, counts, totals, cache>>
  PROVE  Counted'
<1>1. CountsTo(Loaded, position)'
  BY DEF Counted, CountsTo, Loaded
<1>2. (cache # Empty => \E n \in 0..AllLines : CountsTo(cache, n))'
  BY DEF Counted, CountsTo
<1> QED
  BY <1>1, <1>2 DEF Counted

(* A step that starts the counts over keeps the count. *)
LEMMA ClearedCounts ==
  ASSUME Counted, PriorCacheTypeOK', position' = 0, counts' = NoCounts, totals' = NoTotals,
         cache' \in {cache, Empty}
  PROVE  Counted'
<1>1. CountsTo(Loaded, position)'
  BY NothingCounted DEF CountsTo, Loaded
<1>2. (cache # Empty => \E n \in 0..AllLines : CountsTo(cache, n))'
  BY DEF Counted, CountsTo
<1> QED
  BY <1>1, <1>2 DEF Counted

(* No count yet has the type of counts. *)
LEMMA NoCountTypes ==
  NoCounts \in [Class -> [Cause -> Nat]] /\ NoTotals \in [Class -> Nat]
  BY DEF NoCounts, NoTotals

(* Every other step leaves the counts, or starts them over, or stores them. *)
LEMMA StepCounts == Counted /\ [Next]_vars => Counted'
<1> SUFFICES ASSUME Counted, [Next]_vars PROVE Counted'
  OBVIOUS
<1>1. PriorCacheTypeOK
  BY DEF Counted
<1>2. CASE Truncate
  <2>2. torn' \in BOOLEAN
    BY <1>2, Zenon DEF Truncate
  <2>3. written' \in 0..AllLines /\ generator' \in {"idle", "writing"}
    BY <1>2, LengthNat DEF Truncate
  <2>1. PriorCacheTypeOK'
    BY <1>1, <1>2, <2>2, <2>3, Zenon DEF Truncate, PriorCacheTypeOK, process, buffer
  <2> QED
    BY <1>2, <2>1, UntouchedCounts DEF Truncate, process
<1>3. CASE Flush
  <2>1. PriorCacheTypeOK'
    BY <1>1, <1>3, LengthNat DEF Flush, PriorCacheTypeOK, process, buffer
  <2> QED
    BY <1>3, <2>1, UntouchedCounts DEF Flush, process
<1>4. CASE Close
  <2>2. torn' \in BOOLEAN
    BY <1>4, Zenon DEF Close
  <2>3. written' \in 0..AllLines /\ generator' \in {"idle", "writing"}
    BY <1>4, LengthNat DEF Close
  <2>1. PriorCacheTypeOK'
    BY <1>1, <1>4, <2>2, <2>3, Zenon DEF Close, PriorCacheTypeOK, process, buffer
  <2> QED
    BY <1>4, <2>1, UntouchedCounts DEF Close, process
<1>5. CASE GeneratorDies
  <2>1. PriorCacheTypeOK'
    BY <1>1, <1>5 DEF GeneratorDies, PriorCacheTypeOK, process, buffer
  <2> QED
    BY <1>5, <2>1, UntouchedCounts DEF GeneratorDies, process
<1>6. CASE StartLoad
  <2>1. /\ fetched' = 0 /\ cut' = FALSE /\ position' = 0 /\ loader' = "reading"
        /\ UNCHANGED <<written, torn, generator, cache>>
        /\ counts' = NoCounts /\ totals' = NoTotals
    BY <1>6 DEF StartLoad, disk
  <2>2. fetched' \in 0..AllLines /\ position' \in 0..fetched'
    BY <2>1, LengthNat
  <2>3. cut' \in BOOLEAN
    BY <2>1, Zenon
  <2>4. PriorCacheTypeOK'
    BY <1>1, <2>1, <2>2, <2>3, NoCountTypes DEF PriorCacheTypeOK
  <2> QED
    BY <1>6, <2>4, ClearedCounts DEF StartLoad
<1>7. CASE ReadLine
  BY <1>7, ReadCounts
<1>8. CASE ReadTornLine
  <2>1. PriorCacheTypeOK'
    BY <1>1, <1>8 DEF ReadTornLine, PriorCacheTypeOK, disk, buffer
  <2> QED
    BY <1>8, <2>1, UntouchedCounts DEF ReadTornLine
<1>9. CASE EndOfFile
  <2>1. /\ cache' = Loaded
        /\ UNCHANGED <<written, torn, generator, fetched, cut, position, counts, totals>>
    BY <1>9 DEF EndOfFile, Loaded, disk, buffer
  <2>2. PriorCacheTypeOK'
    BY <1>1, <1>9, <2>1 DEF EndOfFile, PriorCacheTypeOK, Loaded
  <2>3. CountsTo(Loaded, position) /\ position \in 0..AllLines
    BY <1>1, LengthNat DEF Counted, PriorCacheTypeOK
  <2>4. CountsTo(Loaded, position)'
    BY <2>1, <2>3 DEF CountsTo, Loaded
  <2>5. CountsTo(cache, position)'
    BY <2>1, <2>3 DEF CountsTo
  <2> QED
    BY <2>1, <2>2, <2>3, <2>4, <2>5 DEF Counted
<1>10. CASE Restart
  <2>1. /\ fetched' = 0 /\ cut' = FALSE /\ position' = 0 /\ loader' = "idle"
        /\ UNCHANGED <<written, torn, generator>>
        /\ counts' = NoCounts /\ totals' = NoTotals /\ cache' = Empty
    BY <1>10 DEF Restart, disk
  <2>2. fetched' \in 0..AllLines /\ position' \in 0..fetched'
    BY <2>1, LengthNat
  <2>3. cut' \in BOOLEAN
    BY <2>1, Zenon
  <2>4. PriorCacheTypeOK'
    BY <1>1, <2>1, <2>2, <2>3, NoCountTypes DEF PriorCacheTypeOK
  <2> QED
    BY <1>10, <2>4, ClearedCounts DEF Restart
<1>11. CASE UNCHANGED vars
  <2>1. PriorCacheTypeOK'
    BY <1>1, <1>11 DEF vars, buffer, PriorCacheTypeOK
  <2> QED
    BY <1>11, <2>1, UntouchedCounts DEF vars
<1>12. CASE Fill
  <2>1. /\ fetched' \in fetched..written /\ cut' \in BOOLEAN /\ loader = "reading"
        /\ UNCHANGED <<written, torn, generator, loader, position, counts, totals, cache>>
    BY <1>12 DEF Fill, Drained, disk
  <2>2. fetched' \in 0..AllLines /\ position' \in 0..fetched'
    BY <1>1, <2>1, LengthNat DEF PriorCacheTypeOK
  <2>3. PriorCacheTypeOK'
    BY <1>1, <2>1, <2>2 DEF PriorCacheTypeOK
  <2> QED
    BY <2>1, <2>3, UntouchedCounts
<1> QED
  BY <1>2, <1>3, <1>4, <1>5, <1>6, <1>7, <1>8, <1>9, <1>10, <1>11, <1>12 DEF Next, Loading

(* At the start nothing is loaded. *)
LEMMA InitCounts == Init => Counted
<1> SUFFICES ASSUME Init PROVE Counted
  OBVIOUS
<1>1. PriorCacheTypeOK
  <2>1. torn \in BOOLEAN /\ cut \in BOOLEAN
    BY Zenon DEF Init
  <2>2. written \in 0..AllLines /\ fetched \in 0..AllLines /\ position \in 0..fetched
    BY LengthNat DEF Init
  <2> QED
    BY NoCountTypes, <2>1, <2>2, Zenon DEF Init, PriorCacheTypeOK
<1>2. CountsTo(Loaded, position)
  BY NothingCounted DEF Init, Loaded
<1> QED
  BY <1>1, <1>2 DEF Init, Counted

(* The count is an invariant of every behaviour. *)
LEMMA AlwaysCounted == Spec => []Counted
  BY InitCounts, StepCounts, PTL DEF Spec

(* Type correctness of the generator, the file and the loader. *)
THEOREM CacheTypes == Spec => []PriorCacheTypeOK
<1>1. Counted => PriorCacheTypeOK
  BY DEF Counted
<1> QED
  BY <1>1, AlwaysCounted, PTL

(* Every cached prior is a share of its class, whatever was on disk while  *)
(* it was loaded (corpus/causal_prior.py _load_frequency_table).           *)
THEOREM SharesOfClasses == Spec => []PriorsAreShares
<1>1. Counted => PriorsAreShares
  <2> SUFFICES ASSUME Counted, cache # Empty, NEW c \in Class, NEW k \in Cause
               PROVE  /\ cache.counts[c][k] <= cache.totals[c]
                      /\ cache.counts[c][k] > 0 => cache.totals[c] > 0
    BY DEF PriorsAreShares
  <2>1. PICK n \in 0..AllLines : CountsTo(cache, n)
    BY DEF Counted
  <2>2. n \in Nat
    BY LengthNat
  <2>3. /\ cache.totals[c] = Cardinality(OfClass(c, n))
        /\ cache.counts[c][k] = Cardinality(OfCause(c, k, n))
    BY <2>1 DEF CountsTo
  <2> QED
    BY <2>2, <2>3, LinesFinite
<1> QED
  BY <1>1, AlwaysCounted, PTL

(* The first n lines, as a file: its lines are those of the corpus.        *)
LEMMA PrefixLines ==
  ASSUME NEW n \in 0..AllLines
  PROVE  /\ DOMAIN Prefix(n) = 1..n
         /\ \A i \in 1..n : Prefix(n)[i] = Records[i]
         /\ 1..n \subseteq DOMAIN Records
  BY LinesAssumption, LengthNat DEF Prefix, AllLines

(* A class, or a cause in it, has a line exactly when its count is not 0.  *)
LEMMA CountedIsThere ==
  ASSUME NEW c, NEW k, NEW n \in Nat
  PROVE  /\ Cardinality(OfClass(c, n)) > 0 <=> OfClass(c, n) # {}
         /\ Cardinality(OfCause(c, k, n)) > 0 <=> OfCause(c, k, n) # {}
  BY LinesFinite, FS_EmptySet

(* A table of counts of the first n lines is the reference table of them.  *)
LEMMA TableOfCounts ==
  ASSUME NEW loaded, NEW n \in 0..AllLines, CountsTo(loaded, n)
  PROVE  TableOf(loaded) = load_frequency_table(Prefix(n))
<1> DEFINE file == Prefix(n)
<1>1. n \in Nat
  BY LengthNat
<1>2. \A c \in Class : loaded.totals[c] = Cardinality(OfClass(c, n))
  BY DEF CountsTo
<1>3. \A c \in Class, k \in Cause : loaded.counts[c][k] = Cardinality(OfCause(c, k, n))
  BY DEF CountsTo
<1>4. \A c : Lines(file, c) = OfClass(c, n)
  BY PrefixLines DEF Lines, OfClass
<1>5. \A c, k : {i \in Lines(file, c) : file[i].cause = k} = OfCause(c, k, n)
  BY <1>4, PrefixLines DEF OfClass, OfCause
<1>6. {d \in Class : loaded.totals[d] > 0} = Classes(file)
  <2>1. \A d \in Class : loaded.totals[d] > 0 <=> OfClass(d, n) # {}
    BY <1>1, <1>2, CountedIsThere
  <2>2. \A d : OfClass(d, n) # {} <=> d \in Classes(file)
    BY PrefixLines DEF OfClass, Classes
  <2>3. Classes(file) \subseteq Class
    BY PrefixLines DEF Classes, Class
  <2> QED
    BY <2>1, <2>2, <2>3
<1>7. \A c \in Class : {d \in Cause : loaded.counts[c][d] > 0} = CausesIn(file, Lines(file, c))
  <2> TAKE c \in Class
  <2>1. \A d \in Cause : loaded.counts[c][d] > 0 <=> OfCause(c, d, n) # {}
    BY <1>1, <1>3, CountedIsThere
  <2>2. \A d : OfCause(c, d, n) # {} <=> d \in CausesIn(file, OfClass(c, n))
    BY PrefixLines DEF OfClass, OfCause, CausesIn
  <2>3. CausesIn(file, OfClass(c, n)) \subseteq Cause
    BY PrefixLines DEF CausesIn, OfClass, Cause
  <2> QED
    BY <1>4, <2>1, <2>2, <2>3
<1>8. \A c \in Class, k \in Cause :
        (1000 * loaded.counts[c][k]) \div loaded.totals[c] = Frequency(file, Lines(file, c), k)
  <2> TAKE c \in Class, k \in Cause
  <2>1. Frequency(file, Lines(file, c), k)
          = (1000 * Cardinality(OfCause(c, k, n))) \div Cardinality(OfClass(c, n))
    <3> DEFINE all == Lines(file, c)
               those == {i \in all : file[i].cause = k}
    <3>1. all = OfClass(c, n) /\ those = OfCause(c, k, n)
      BY <1>4, <1>5
    <3>2. Frequency(file, all, k) = (1000 * Cardinality(those)) \div Cardinality(all)
      BY DEF Frequency
    <3> HIDE DEF all, those
    <3>3. Frequency(file, all, k)
            = (1000 * Cardinality(OfCause(c, k, n))) \div Cardinality(OfClass(c, n))
      BY <3>1, <3>2
    <3> QED
      BY <3>3 DEF all
  <2> QED
    BY <1>2, <1>3, <2>1
<1> QED
  <2> HIDE DEF file
  <2>1. Classes(file) \subseteq Class
    BY <1>6
  <2>2. \A c \in Classes(file) : CausesIn(file, Lines(file, c)) \subseteq Cause
    BY <1>7, <2>1
  <2>3. \A c \in Classes(file) :
          [k \in {d \in Cause : loaded.counts[c][d] > 0} |->
             (1000 * loaded.counts[c][k]) \div loaded.totals[c]]
            = [k \in CausesIn(file, Lines(file, c)) |-> Frequency(file, Lines(file, c), k)]
    BY <1>7, <1>8, <2>1, <2>2
  <2> QED
    <3>1. TableOf(loaded) =
            [c \in Classes(file) |->
               [k \in {d \in Cause : loaded.counts[c][d] > 0} |->
                  (1000 * loaded.counts[c][k]) \div loaded.totals[c]]]
      BY <1>6, Zenon DEF TableOf
    <3>2. TableOf(loaded) = load_frequency_table(file)
      BY <2>3, <3>1 DEF load_frequency_table
    <3> QED
      BY <3>2 DEF file

(* A cached table is the reference table of a beginning of the corpus, for *)
(* every corpus and every interleaving of the load with rewrites: never a  *)
(* mixture of the file before and after a truncation.                      *)
THEOREM CachedTables == Spec => []CacheIsOfAPrefix
<1>1. Counted => CacheIsOfAPrefix
  BY TableOfCounts DEF Counted, CacheIsOfAPrefix
<1> QED
  BY <1>1, AlwaysCounted, PTL
=============================================================================
