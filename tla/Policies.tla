------------------------------ MODULE Policies ------------------------------
(* The policy engine of src/src/housekeeper/policies.py: what a rule file says,
   which rules match the facts of a file, and which of them gives the verdict.

   The facts of a file are what the conditions tell apart: its scan and analysis
   failed, its suffix, name or a folder above it are in the protected patterns,
   it is a duplicate and not the canonical one, and so on.  Confidences are in
   percent.  Reason codes, explanations and the audit trail are left out.     *)
EXTENDS Integers, Sequences

\* Most protective first.
DefaultPriority ==
    <<"ERROR", "PROTECTED", "UNKNOWN", "KEEP", "KEEP_CANONICAL", "REVIEW_VERSION_FAMILY",
      "REVIEW_BACKUP", "REVIEW_LARGE", "REVIEW_PROBABLE", "REVIEW_SAFE">>

Rule(condition, classification, confidence) ==
    [condition |-> condition, classification |-> classification, confidence |-> confidence]

DefaultRules ==
    <<Rule("analysis_or_scan_failed", "ERROR", 100),
      Rule("protected_signal", "PROTECTED", 95),
      Rule("exact_duplicate_noncanonical", "REVIEW_SAFE", 100),
      Rule("office_temporary_lock", "REVIEW_SAFE", 90),
      Rule("python_bytecode_cache", "REVIEW_SAFE", 90),
      Rule("virtualenv_with_reproducibility", "REVIEW_PROBABLE", 75),
      Rule("node_modules_with_lockfile", "REVIEW_PROBABLE", 75),
      Rule("old_duplicate_installer", "REVIEW_PROBABLE", 60)>>

DefaultVerdict == "KEEP"

\* load_policy_files: a part the rule file lacks, or leaves empty, is the built-in one.
\* A rule that names no condition is not loaded, which is to say that it never matches.
Absent == "absent"
Loaded(file) ==
    [rules |-> IF file.rules = <<>> THEN DefaultRules ELSE file.rules,
     priority |-> IF file.priority = <<>> THEN DefaultPriority ELSE file.priority,
     default |-> IF file.default = Absent THEN DefaultVerdict ELSE file.default]
NoFile == [rules |-> <<>>, priority |-> <<>>, default |-> Absent]

---------------------------------------------------------------------------
(* Conditions, over the facts of one file.                                  *)

Flags == {"scan_error", "analysis_failed", "protected_suffix", "protected_name",
          "protected_folder", "noncanonical", "office_lock_name", "small", "office_suffix",
          "office_sibling", "in_pycache", "pyc", "in_project", "in_virtualenv",
          "project_has_spec", "in_node_modules", "project_has_lockfile", "installer_suffix", "old"}
Facts == [flags : SUBSET Flags, group_size : Nat]

\* Whether each condition of CONDITIONS holds.
Holds(facts) ==
    LET All(flags) == flags \subseteq facts.flags
        Any(flags) == flags \cap facts.flags # {}
    IN  [analysis_or_scan_failed |-> Any({"scan_error", "analysis_failed"}),
         protected_signal |-> Any({"protected_suffix", "protected_name", "protected_folder"}),
         exact_duplicate_noncanonical |-> All({"noncanonical"}) /\ facts.group_size >= 2,
         office_temporary_lock |->
            All({"office_lock_name", "small", "office_suffix", "office_sibling"}),
         python_bytecode_cache |-> All({"in_pycache", "pyc", "in_project"}),
         virtualenv_with_reproducibility |-> All({"in_virtualenv", "project_has_spec"}),
         node_modules_with_lockfile |-> All({"in_node_modules", "project_has_lockfile"}),
         old_duplicate_installer |-> All({"installer_suffix", "old"}) /\ facts.group_size >= 2]

\* evaluate_rule: a condition nobody knows never holds.
Matching(rules, facts) ==
    {i \in DOMAIN rules : rules[i].condition \in DOMAIN Holds(facts)
                            /\ Holds(facts)[rules[i].condition]}

---------------------------------------------------------------------------
(* The verdict.                                                             *)

\* The last place of a classification in the priority; what has none comes last.
Rank(priority, c) ==
    IF \E i \in DOMAIN priority : priority[i] = c
    THEN CHOOSE i \in DOMAIN priority :
            priority[i] = c /\ \A j \in DOMAIN priority : priority[j] = c => j <= i
    ELSE Len(priority) + 1

\* resolve_rule_conflicts: the most protective, then the most confident, then the
\* first of the matching rules.
Precedes(rules, priority, i, j) ==
    LET x == Rank(priority, rules[i].classification)
        y == Rank(priority, rules[j].classification)
    IN  \/ x < y
        \/ x = y /\ rules[i].confidence > rules[j].confidence
        \/ x = y /\ rules[i].confidence = rules[j].confidence /\ i <= j
Winner(rules, priority, matching) ==
    CHOOSE i \in matching : \A j \in matching : Precedes(rules, priority, i, j)

\* evaluate_all_rules.
Verdict(policy, facts) ==
    LET matching == Matching(policy.rules, facts)
    IN  IF matching = {} THEN policy.default
        ELSE policy.rules[Winner(policy.rules, policy.priority, matching)].classification
=============================================================================
