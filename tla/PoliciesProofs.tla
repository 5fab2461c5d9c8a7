--------------------------- MODULE PoliciesProofs ---------------------------
(* What the policy engine of Policies.tla promises of every file, whatever other
   rules match it and whatever rule file is loaded.                           *)
EXTENDS Policies, TLAPS

ClassOf(i) == DefaultRules[i].classification
RankOf(i) == Rank(DefaultPriority, ClassOf(i))

\* The first built-in rule says ERROR, the second PROTECTED, which come first in the
\* priority; every other one says what comes last in it.
LEMMA BuiltInRanks ==
    /\ DOMAIN DefaultRules = 1..8
    /\ RankOf(1) = 1 /\ RankOf(2) = 2
    /\ \A i \in 3..8 : RankOf(i) \in {9, 10}
    /\ ClassOf(1) = "ERROR" /\ ClassOf(2) = "PROTECTED"
  <1>1. DOMAIN DefaultRules = 1..8
    BY DEF DefaultRules
  <1>2. /\ ClassOf(1) = "ERROR" /\ ClassOf(2) = "PROTECTED"
        /\ \A i \in 3..5 : ClassOf(i) = "REVIEW_SAFE"
        /\ \A i \in 6..8 : ClassOf(i) = "REVIEW_PROBABLE"
    BY DEF ClassOf, DefaultRules, Rule
  <1>3. DOMAIN DefaultPriority = 1..10
    BY DEF DefaultPriority
  <1>4. /\ DefaultPriority[1] = "ERROR" /\ DefaultPriority[2] = "PROTECTED"
        /\ DefaultPriority[9] = "REVIEW_PROBABLE" /\ DefaultPriority[10] = "REVIEW_SAFE"
    BY DEF DefaultPriority
  <1>5. \A c : \A k \in 1..10 :
          DefaultPriority[k] = c /\ (\A j \in 1..10 : DefaultPriority[j] = c => j = k)
            => Rank(DefaultPriority, c) = k
    <2> SUFFICES ASSUME NEW c, NEW k \in 1..10, DefaultPriority[k] = c,
                        \A j \in 1..10 : DefaultPriority[j] = c => j = k
                 PROVE  Rank(DefaultPriority, c) = k
      OBVIOUS
    <2> QED
      BY <1>3 DEF Rank
  <1>6. /\ Rank(DefaultPriority, "ERROR") = 1 /\ Rank(DefaultPriority, "PROTECTED") = 2
        /\ Rank(DefaultPriority, "REVIEW_PROBABLE") = 9
        /\ Rank(DefaultPriority, "REVIEW_SAFE") = 10
    <2>1. Rank(DefaultPriority, "ERROR") = 1
      <3>1. 1 \in 1..10 /\ \A j \in 1..10 : DefaultPriority[j] = "ERROR" => j = 1
        BY DEF DefaultPriority
      <3> QED
        BY ONLY <3>1, <1>4, <1>5
    <2>2. Rank(DefaultPriority, "PROTECTED") = 2
      <3>1. 2 \in 1..10 /\ \A j \in 1..10 : DefaultPriority[j] = "PROTECTED" => j = 2
        BY DEF DefaultPriority
      <3> QED
        BY ONLY <3>1, <1>4, <1>5
    <2>3. Rank(DefaultPriority, "REVIEW_PROBABLE") = 9
      <3>1. 9 \in 1..10 /\ \A j \in 1..10 : DefaultPriority[j] = "REVIEW_PROBABLE" => j = 9
        BY DEF DefaultPriority
      <3> QED
        BY ONLY <3>1, <1>4, <1>5
    <2>4. Rank(DefaultPriority, "REVIEW_SAFE") = 10
      <3>1. 10 \in 1..10 /\ \A j \in 1..10 : DefaultPriority[j] = "REVIEW_SAFE" => j = 10
        BY DEF DefaultPriority
      <3> QED
        BY ONLY <3>1, <1>4, <1>5
    <2> QED
      BY <2>1, <2>2, <2>3, <2>4
  <1>7. \A i \in 3..8 : RankOf(i) \in {9, 10}
    BY <1>2, <1>6 DEF RankOf
  <1> QED
    BY <1>1, <1>2, <1>6, <1>7 DEF RankOf

\* A matching rule that is more protective than every other one wins.
LEMMA Outranks ==
    ASSUME NEW matching, matching \subseteq 1..8, NEW i \in matching,
           \A j \in matching \ {i} : RankOf(i) < RankOf(j)
    PROVE  Winner(DefaultRules, DefaultPriority, matching) = i
  <1> DEFINE Before(x, y) == Precedes(DefaultRules, DefaultPriority, x, y)
  <1>1. \A j \in matching : RankOf(j) \in Int
    BY BuiltInRanks
  <1>2. \A j \in matching : Before(i, j)
    BY <1>1 DEF Precedes, RankOf, ClassOf
  <1>3. \A k \in matching : (\A j \in matching : Before(k, j)) => k = i
    <2> SUFFICES ASSUME NEW k \in matching, Before(k, i), k # i
                 PROVE  FALSE
      OBVIOUS
    <2>1. RankOf(i) < RankOf(k)
      OBVIOUS
    <2> QED
      BY <1>1, <2>1 DEF Precedes, RankOf, ClassOf
  <1>4. Winner(DefaultRules, DefaultPriority, matching) =
          CHOOSE k \in matching : \A j \in matching : Before(k, j)
    BY DEF Winner
  <1> QED
    BY <1>2, <1>3, <1>4

BuiltIn == Loaded(NoFile)

LEMMA BuiltInParts ==
    BuiltIn.rules = DefaultRules /\ BuiltIn.priority = DefaultPriority
  BY DEF BuiltIn, Loaded, NoFile

\* evaluate_all_rules fails closed: a file whose scan or analysis failed is an ERROR,
\* whatever else is known of it.
THEOREM FailedIsError ==
    ASSUME NEW facts \in Facts, Holds(facts).analysis_or_scan_failed
    PROVE  Verdict(BuiltIn, facts) = "ERROR"
  <1> DEFINE matching == Matching(DefaultRules, facts)
  <1>1. 1 \in matching /\ matching \subseteq 1..8
    BY BuiltInRanks DEF Matching, DefaultRules, Rule, Holds
  <1>2. \A j \in matching \ {1} : RankOf(1) < RankOf(j)
    BY <1>1, BuiltInRanks
  <1>3. Winner(DefaultRules, DefaultPriority, matching) = 1
    <2> HIDE DEF matching
    <2> QED
      BY <1>1, <1>2, Outranks
  <1> QED
    BY <1>1, <1>3, BuiltInParts, BuiltInRanks DEF Verdict, ClassOf

\* A file with a protected suffix, name or folder is never offered for review, however
\* many rules would: its verdict is one that forbids an approval.
THEOREM ProtectedIsNeverReviewed ==
    ASSUME NEW facts \in Facts, Holds(facts).protected_signal
    PROVE  Verdict(BuiltIn, facts) \in {"ERROR", "PROTECTED"}
  <1> DEFINE matching == Matching(DefaultRules, facts)
  <1>1. CASE Holds(facts).analysis_or_scan_failed
    BY <1>1, FailedIsError
  <1>2. CASE ~ Holds(facts).analysis_or_scan_failed
    <2>1. 2 \in matching /\ 1 \notin matching /\ matching \subseteq 1..8
      BY <1>2, BuiltInRanks DEF Matching, DefaultRules, Rule, Holds
    <2>2. \A j \in matching \ {2} : RankOf(2) < RankOf(j)
      BY <2>1, BuiltInRanks
    <2>3. Winner(DefaultRules, DefaultPriority, matching) = 2
      <3> HIDE DEF matching
      <3> QED
        BY <2>1, <2>2, Outranks
    <2> QED
      BY <2>1, <2>3, BuiltInParts, BuiltInRanks DEF Verdict, ClassOf
  <1> QED
    BY <1>1, <1>2
=============================================================================
