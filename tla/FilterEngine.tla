---------------------------- MODULE FilterEngine ----------------------------
(* The nine levels of internal/filter/engine.go, as operators: what excludes *)
(* an event, given the input, the policies in force and the time.  The       *)
(* engine's lock and its interleaving with the CRD watcher are in            *)
(* CRDWatcher.                                                               *)
(*                                                                           *)
(* A name is a sequence of tokens.  A pointer that may be nil (a selector, a *)
(* schedule) is a set of at most one element.                                *)
EXTENDS Integers, Sequences

S == INSTANCE SequencesExt

CONSTANTS
    ExcludeNamespaces,          \* the patterns of the Helm values
    ExcludeNamespaceSelector    \* the selector of the Helm values

-----------------------------------------------------------------------------
(* Labels *)

(* A nil map, which is not the same as an empty one to matchLabels.          *)
NilLabels == [nil |-> "nil"]

(* labels[key] of a missing key is the empty string.                         *)
Value(labels, key) == IF key \in DOMAIN labels THEN labels[key] ELSE ""

matchesLabelRequirement(labels, req) ==
    LET exists == req.key \in DOMAIN labels
    IN \/ req.operator = "In" /\ exists /\ labels[req.key] \in req.values
       \/ /\ req.operator = "NotIn"
          /\ exists => labels[req.key] \notin req.values
       \/ req.operator = "Exists" /\ exists
       \/ req.operator = "DoesNotExist" /\ ~exists

matchesLabelSelector(labels, selector) ==
    /\ \A key \in DOMAIN selector.matchLabels :
         /\ labels # NilLabels
         /\ Value(labels, key) = selector.matchLabels[key]
    /\ \A req \in selector.matchExpressions : matchesLabelRequirement(labels, req)

-----------------------------------------------------------------------------
(* Levels 1 and 2: the Helm values *)

(* A pattern is a sequence of alternatives, each a text that may begin or    *)
(* end with ".*"; one alternative without either has no metacharacter.       *)
hasRegexMeta(pattern) ==
    Len(pattern) > 1 \/ pattern[1].openStart \/ pattern[1].openEnd

(* What the text of an alternative must reach to: "^" is put before the      *)
(* whole pattern and "$" after it, and "|" binds less than either, so only   *)
(* the first alternative is anchored at the start and the last at the end.   *)
compileNamespacePatterns(patterns) ==
    {[k \in 1..Len(p) |->
        [text |-> p[k].text,
         start |-> ~p[k].openStart /\ (k = 1 \/ ~hasRegexMeta(p)),
         end |-> ~p[k].openEnd /\ (k = Len(p) \/ ~hasRegexMeta(p))]] :
     p \in patterns}

MatchesAlternative(alt, name) ==
    \E i \in 1..(Len(name) - Len(alt.text) + 1) :
      /\ SubSeq(name, i, i + Len(alt.text) - 1) = alt.text
      /\ alt.start => i = 1
      /\ alt.end => i + Len(alt.text) - 1 = Len(name)

matchesGlobalNamespaceExclusion(name) ==
    \E p \in compileNamespacePatterns(ExcludeNamespaces) :
      \E k \in 1..Len(p) : MatchesAlternative(p[k], name)

(* An empty selector would exclude every namespace and is ignored.           *)
matchesNamespaceLabelSelector(labels) ==
    \E s \in ExcludeNamespaceSelector :
      /\ DOMAIN s.matchLabels # {} \/ s.matchExpressions # {}
      /\ matchesLabelSelector(labels, s)

-----------------------------------------------------------------------------
(* Levels 4 to 8: annotations *)

(* strings.EqualFold(annotations[key], "true")                               *)
isAnnotationTrue(annotations, key) ==
    Value(annotations, key) \in {"true", "True", "TRUE"}

ownerHasAnnotationTrue(owners, key) ==
    \E o \in owners : isAnnotationTrue(o.annotations, key)

(* The parts of the comma-separated annotation that are not blank.           *)
getExcludedDetectors(annotations) ==
    IF "exclude-detectors" \in DOMAIN annotations
    THEN annotations["exclude-detectors"] \ {""} ELSE {}

getOwnerExcludedDetectors(owners) ==
    UNION {getExcludedDetectors(o.annotations) : o \in owners}

-----------------------------------------------------------------------------
(* Levels 3 and 9: policies *)

(* A policy with a selector goes by it, wherever the policy lives.           *)
policyAppliesToNamespace(p, ns) ==
    IF p.namespaceSelector # {}
    THEN \A s \in p.namespaceSelector : matchesLabelSelector(ns.labels, s)
    ELSE p.namespace = ns.name

AppliesToDetector(p, detector) == p.detectors = {} \/ detector \in p.detectors

(* filepath.Match of a pattern with at most a trailing star.                 *)
GlobMatch(pattern, name) ==
    /\ ~pattern.malformed
    /\ IF pattern.star THEN S!IsPrefix(pattern.text, name) ELSE pattern.text = name

matchesOwnerNames(owners, patterns) ==
    \E o \in owners : \E pattern \in patterns : GlobMatch(pattern, o.name)

(* Does the Suppress policy p match?  The window includes both its ends.     *)
Suppresses(p, input, now) ==
    /\ p.action = "Suppress"
    /\ \A w \in p.schedule : w.start <= now /\ now <= w.end
    /\ policyAppliesToNamespace(p, input.namespace)
    /\ AppliesToDetector(p, input.detector)

matchesSuppressPolicy(policies, input, now) ==
    \E p \in policies : Suppresses(p, input, now)

(* Does the Exclude policy p match?                                          *)
Excludes(p, input) ==
    /\ p.action = "Exclude"
    /\ policyAppliesToNamespace(p, input.namespace)
    /\ AppliesToDetector(p, input.detector)
    /\ \A s \in p.resourceSelector : matchesLabelSelector(input.labels, s)
    /\ p.ownerNames # {} => matchesOwnerNames(input.owners, p.ownerNames)

(* Mutant of matchesExcludePolicy: the first policy that does not match ends *)
(* the loop.                                                                 *)
matchesExcludePolicyFirst(policies, input) ==
    policies # {} /\ Excludes(CHOOSE p \in policies : TRUE, input)

matchesExcludePolicy(policies, input) == \E p \in policies : Excludes(p, input)

-----------------------------------------------------------------------------
(* Evaluate, in the two parts between which the policies may change *)

Passed == "passed"

(* The reason of the first level that matches.                               *)
FirstMatch(levels) ==
    LET k == S!SelectInSeq(levels, LAMBDA level : level.matches)
    IN IF k = 0 THEN Passed ELSE levels[k].reason

Level(reason, matches) == [reason |-> reason, matches |-> matches]

(* Levels 1 to 3.                                                            *)
EvaluateUpper(policies, input, now) ==
    FirstMatch(<<
      Level("namespace_global", matchesGlobalNamespaceExclusion(input.namespace.name)),
      Level("namespace_label", matchesNamespaceLabelSelector(input.namespace.labels)),
      Level("suppress_policy", matchesSuppressPolicy(policies, input, now))>>)

(* Levels 4 to 9.                                                            *)
EvaluateLower(policies, input) ==
    FirstMatch(<<
      Level("namespace_annotation", isAnnotationTrue(input.namespace.annotations, "suppress")),
      Level("resource_annotation", isAnnotationTrue(input.annotations, "exclude")),
      Level("owner_annotation", ownerHasAnnotationTrue(input.owners, "exclude")),
      Level("resource_annotation",
            input.detector \in getExcludedDetectors(input.annotations)),
      Level("owner_annotation",
            input.detector \in getOwnerExcludedDetectors(input.owners)),
      Level("policy_exclude", matchesExcludePolicy(policies, input))>>)
=============================================================================
