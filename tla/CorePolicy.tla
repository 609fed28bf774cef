----------------------------- MODULE CorePolicy -----------------------------
(***************************************************************************)
(* The tool policy of the Core (src/policy.rs): what is decided for a      *)
(* tool call, from ordered rules and from what the run has read so far.    *)
(* Patterns of tool names are the sets of the tools they match.            *)
(***************************************************************************)
EXTENDS Naturals, Sequences

CONSTANTS
  Tools,
  Rules,           \* a sequence of Rule: the first that matches wins
  DefaultEffect,   \* where no rule matches
  Sources,         \* tools whose output is external content
  Effects,         \* tools with side effects
  PrivateSources,  \* tools whose output is the operator's own data
  Egress,          \* tools that can carry data out
  OnEffect,        \* the effect of the taint rules
  Available        \* the tools of the profile; {} is all of them

Decisions == {"allow", "deny", "require_approval"}

Rule == [tools : SUBSET Tools, tainted : {"any", "yes", "no"}, effect : Decisions]

ASSUME CorePolicyAssumption ==
  /\ Rules \in Seq(Rule)
  /\ {DefaultEffect, OnEffect} \subseteq Decisions
  /\ {Sources, Effects, PrivateSources, Egress, Available} \subseteq SUBSET Tools

Matches(rule, tool, tainted) ==
  /\ tool \in rule.tools
  /\ rule.tainted = "any" \/ (rule.tainted = "yes") = tainted

\* The effect of the first rule that matches.
RuleEffect(tool, tainted) ==
  LET matching == {i \in 1..Len(Rules) : Matches(Rules[i], tool, tainted)}
  IN IF matching = {} THEN DefaultEffect
     ELSE Rules[CHOOSE i \in matching : \A k \in matching : i <= k].effect

\* The taint rules: side effects in a run that read external content, a way
\* out in one that also read private data.
Steered(tool, tainted, private) ==
  /\ tainted
  /\ tool \in Effects \/ (private /\ tool \in Egress)

\* A slip: the taint rules only where no rule of the file speaks of the tool.
EvaluateRulesFirst(tool, tainted, private) ==
  IF \E i \in 1..Len(Rules) : Matches(Rules[i], tool, tainted)
  THEN RuleEffect(tool, tainted)
  ELSE IF Steered(tool, tainted, private) THEN OnEffect ELSE DefaultEffect

\* evaluate, after the check that the tool is of the profile.
Evaluate(tool, tainted, private) ==
  IF Available # {} /\ tool \notin Available THEN "deny"
  ELSE IF RuleEffect(tool, tainted) # "allow" THEN RuleEffect(tool, tainted)
  ELSE IF Steered(tool, tainted, private) THEN OnEffect
  ELSE "allow"
=============================================================================
