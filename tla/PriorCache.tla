------------------------------ MODULE PriorCache ------------------------------
(***************************************************************************)
(* The learned prior while its corpus is being rewritten.  The generator   *)
(* (corpus/generate.py main) truncates incidents.jsonl and writes it again *)
(* in flushes that may cut a line, and may die half-way.  A process that   *)
(* investigates loads the table on its first call of prior_for, line by    *)
(* line, and keeps it until it restarts (corpus/causal_prior.py, lru_cache).*)
(* It reads ahead, a buffer at a time, and so lines the file has lost.     *)
(* The generator is seeded, so what is on disk is always a beginning of    *)
(* the same corpus: the file is the number of its complete lines.  A cut   *)
(* between a line and its newline counts as one after the line.            *)
(***************************************************************************)
EXTENDS Corpus

CONSTANTS
  Records,    \* generate(): a sequence of [classification, cause]
  Empty              \* lru_cache before the first load

AllLines == Len(Records)
Class == {Records[i].classification : i \in DOMAIN Records}
Cause == {Records[i].cause : i \in DOMAIN Records}

ASSUME LinesAssumption ==
  /\ Records \in Seq([classification : STRING, cause : CAUSE_PATTERNS])
  /\ Empty \notin [counts : [Class -> [Cause -> Nat]], totals : [Class -> Nat]]

VARIABLES
  written,     \* complete lines on disk
  torn,        \* whether a cut line follows them
  generator,   \* "idle" or "writing"
  loader,      \* "idle", "reading" or "raised"
  fetched,     \* complete lines the loader has read into its buffer so far
  cut,         \* whether a cut line follows them there
  position,    \* lines of them it has counted
  counts,      \* counts[class][cause] of the loader
  totals,      \* totals[class] of the loader
  cache        \* what lru_cache holds

vars == <<written, torn, generator, loader, fetched, cut, position, counts, totals, cache>>
disk == <<written, torn, generator>>
buffer == <<fetched, cut>>
process == <<loader, buffer, position, counts, totals, cache>>

NoCounts == [c \in Class |-> [k \in Cause |-> 0]]
NoTotals == [c \in Class |-> 0]

Init ==
  /\ written = AllLines
  /\ torn = FALSE
  /\ generator = "idle"
  /\ loader = "idle"
  /\ fetched = 0
  /\ cut = FALSE
  /\ position = 0
  /\ counts = NoCounts
  /\ totals = NoTotals
  /\ cache = Empty

(***************************************************************************)
(* The generator.                                                          *)
(***************************************************************************)
Truncate ==
  /\ generator = "idle"
  /\ generator' = "writing"
  /\ written' = 0
  /\ torn' = FALSE
  /\ UNCHANGED process

(* Mutated form: one line more than there is. *)
FlushTooMuch ==
  /\ generator = "writing"
  /\ written' \in written..(AllLines + 1)
  /\ torn' \in BOOLEAN
  /\ torn' => written' < AllLines
  /\ UNCHANGED <<generator, process>>

Flush ==
  /\ generator = "writing"
  /\ written' \in written..AllLines
  /\ torn' \in BOOLEAN
  /\ torn' => written' < AllLines
  /\ UNCHANGED <<generator, process>>

Close ==
  /\ generator = "writing"
  /\ generator' = "idle"
  /\ written' = AllLines
  /\ torn' = FALSE
  /\ UNCHANGED process

GeneratorDies ==
  /\ generator = "writing"
  /\ generator' = "idle"
  /\ UNCHANGED <<written, torn, process>>

(***************************************************************************)
(* The process that asks for priors.                                       *)
(***************************************************************************)
(* Mutated form: the counts of a load that raised counted on. *)
LoadOn ==
  /\ loader # "reading"
  /\ cache = Empty
  /\ loader' = "reading"
  /\ fetched' = 0
  /\ cut' = FALSE
  /\ position' = 0
  /\ UNCHANGED <<disk, counts, totals, cache>>

StartLoad ==
  /\ loader # "reading"
  /\ cache = Empty
  /\ loader' = "reading"
  /\ fetched' = 0
  /\ cut' = FALSE
  /\ position' = 0
  /\ counts' = NoCounts
  /\ totals' = NoTotals
  /\ UNCHANGED <<disk, cache>>

(* Mutated form: a total counted once per cause, not once per incident. *)
CountNewCauses(line) ==
  /\ counts' = [counts EXCEPT ![line.classification][line.cause] = @ + 1]
  /\ totals' = [totals EXCEPT ![line.classification] =
                  IF counts[line.classification][line.cause] = 0 THEN @ + 1 ELSE @]

Count(line) ==
  /\ counts' = [counts EXCEPT ![line.classification][line.cause] = @ + 1]
  /\ totals' = [totals EXCEPT ![line.classification] = @ + 1]

(* The buffer holds no further line: more of the file is read, what is     *)
(* there now beyond what was read before.                                  *)
Drained == loader = "reading" /\ position = fetched

Fill ==
  /\ Drained
  /\ fetched' \in fetched..written
  /\ cut' \in BOOLEAN
  /\ cut' => fetched' < written \/ torn
  /\ fetched' > fetched \/ (cut' /\ ~cut)
  /\ UNCHANGED <<disk, loader, position, counts, totals, cache>>

ReadLine ==
  /\ loader = "reading"
  /\ position < fetched
  /\ position' = position + 1
  /\ Count(Records[position + 1])
  /\ UNCHANGED <<disk, loader, buffer, cache>>

(* Mutated form: a file that has become shorter not taken for ended. *)
EndsExactly == written = fetched /\ (torn => cut)

(* Nothing of the file, as it is now, lies beyond what was read. *)
AtEnd == written < fetched \/ (written = fetched /\ (torn => cut))

(* json.loads raises on the cut line; an exception is not cached. *)
ReadTornLine ==
  /\ Drained /\ AtEnd
  /\ cut
  /\ loader' = "raised"
  /\ UNCHANGED <<disk, buffer, position, counts, totals, cache>>

EndOfFile ==
  /\ Drained /\ AtEnd
  /\ ~cut
  /\ loader' = "idle"
  /\ cache' = [counts |-> counts, totals |-> totals]
  /\ UNCHANGED <<disk, buffer, position, counts, totals>>

Restart ==
  /\ loader' = "idle"
  /\ fetched' = 0
  /\ cut' = FALSE
  /\ position' = 0
  /\ counts' = NoCounts
  /\ totals' = NoTotals
  /\ cache' = Empty
  /\ UNCHANGED disk

Loading == Fill \/ ReadLine \/ ReadTornLine \/ EndOfFile
Next ==
  \/ Truncate \/ Flush \/ Close \/ GeneratorDies
  \/ StartLoad \/ Loading \/ Restart

(* A call of prior_for goes on reading; nobody is bound to call or write.  *)
Spec == Init /\ [][Next]_vars /\ WF_vars(Loading)

(***************************************************************************)
(* The table as prior_for reads it.                                        *)
(***************************************************************************)
TableOf(loaded) ==
  [c \in {d \in Class : loaded.totals[d] > 0} |->
     [k \in {d \in Cause : loaded.counts[c][d] > 0} |->
        (1000 * loaded.counts[c][k]) \div loaded.totals[c]]]

Prefix(n) == SubSeq(Records, 1, n)

(***************************************************************************)
(* Properties.                                                             *)
(***************************************************************************)
PriorCacheTypeOK ==
  /\ written \in 0..AllLines
  /\ torn \in BOOLEAN
  /\ generator \in {"idle", "writing"}
  /\ loader \in {"idle", "reading", "raised"}
  /\ fetched \in 0..AllLines
  /\ cut \in BOOLEAN
  /\ position \in 0..fetched
  /\ counts \in [Class -> [Cause -> Nat]]
  /\ totals \in [Class -> Nat]
  /\ cache \in {Empty} \cup [counts : [Class -> [Cause -> Nat]], totals : [Class -> Nat]]

(* Every prior is a probability, whatever was on disk and however the load *)
(* was interleaved with a rewrite: no cause of a class is counted more     *)
(* often than the class, and a class with a cause has a total to divide by *)
(* (what the model of the agents assumes of its FrequencyTable).           *)
PriorsAreShares ==
  cache # Empty =>
    \A c \in Class, k \in Cause :
      /\ cache.counts[c][k] <= cache.totals[c]
      /\ cache.counts[c][k] > 0 => cache.totals[c] > 0

(* The loop computes the frequencies of what it read: the cached table is  *)
(* the reference one of some beginning of the corpus, never a mixture of   *)
(* the file before and after a truncation.                                 *)
CacheIsOfAPrefix ==
  cache # Empty =>
    \E n \in 0..AllLines : TableOf(cache) = load_frequency_table(Prefix(n))

(* A load ends, by giving a table or by raising, also while the file it    *)
(* reads is rewritten again and again.                                     *)
LoadEnds == loader = "reading" ~> loader # "reading"
=============================================================================
