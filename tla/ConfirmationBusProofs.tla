----------------------- MODULE ConfirmationBusProofs -----------------------
(***************************************************************************)
(* Theorems about the review level of any action, and about what the policy *)
(* engine allows to run unasked: for any commands, compound ones included,  *)
(* any rules, checkers and invocations.                                     *)
(***************************************************************************)
EXTENDS ConfirmationBus, SequenceTheorems, WellFoundedInduction, TLAPS

LEMMA AxesOf ==
    ASSUME NEW p \in ActionProfile
    PROVE  /\ classifyOutcome(p) \in Outcomes
           /\ Intention(p) \in Intentions
           /\ classifyDomain(p) \in Domains
<1>1. classifyOutcome(p) \in Outcomes
  BY DEF classifyOutcome, Outcomes
<1>2. Intention(p) \in Intentions
  BY DEF Intention, Intentions
<1>3. classifyDomain(p) \in Domains
  BY DEF classifyDomain, Domains, ActionProfile
<1>4. QED
  BY <1>1, <1>2, <1>3

\* What a profile's table answers is also answered, or exceeded, by the table of
\* the next stricter one; the safety invariants answer the same for all.
LEMMA RiskOrder ==
    ASSUME NEW o \in Outcomes, NEW i \in Intentions, NEW d \in Domains, NEW u
    PROVE  LET risk(s) == computeRisk(o, i, d, s, u)
           IN /\ risk("balanced") = "pin" => risk("strict") = "pin"
              /\ risk("minimal") = "pin" => risk("balanced") = "pin"
              /\ risk("balanced") = "confirm" => risk("strict") \in {"pin", "confirm"}
              /\ risk("minimal") = "confirm" => risk("balanced") \in {"pin", "confirm"}
<1> DEFINE fixed == checkSafetyInvariants(o, i, d, u)
           strict == computeStrictRisk(o, i, d)
           balanced == computeBalancedRisk(o, i, d)
           minimal == computeMinimalRisk(o, i, d)
<1>1. /\ computeRisk(o, i, d, "strict", u) = IF fixed # None THEN fixed ELSE strict
      /\ computeRisk(o, i, d, "balanced", u) = IF fixed # None THEN fixed ELSE balanced
      /\ computeRisk(o, i, d, "minimal", u) = IF fixed # None THEN fixed ELSE minimal
  BY DEF computeRisk
<1>2. /\ balanced = "pin" => strict = "pin"
      /\ balanced = "confirm" /\ d # "system" => strict \in {"pin", "confirm"}
  BY DEF computeStrictRisk, computeBalancedRisk, Outcomes, Intentions, Domains
<1>3. /\ minimal = "pin" => balanced = "pin"
      /\ minimal = "confirm" => balanced \in {"pin", "confirm"}
  BY DEF computeMinimalRisk, computeBalancedRisk, Outcomes, Intentions, Domains
<1>4. d = "system" => fixed # None
  BY LadderAssumption DEF checkSafetyInvariants
<1> HIDE DEF fixed, strict, balanced, minimal
<1>5. QED
  BY <1>1, <1>2, <1>3, <1>4

\* A stricter security profile never asks for less, whatever the action
\* (computeRisk and the three tables it chooses between).
LEMMA StricterAlways ==
    ASSUME NEW p \in ActionProfile
    PROVE  Stricter(p)
<1> DEFINE risk(s) == computeRisk(classifyOutcome(p), Intention(p),
                                  classifyDomain(p), s, p.unbounded)
           always == \/ ~p.clear
                     \/ p.outside
                     \/ /\ "web_remote_user" \in p.provenance
                        /\ ~(p.operations \subseteq {"read"})
           level(s) == computeMinimumReviewLevel(p, s)
<1>1. ASSUME NEW s
      PROVE  level(s) = IF always \/ risk(s) = "pin" THEN "C"
                        ELSE IF risk(s) = "confirm" THEN "B" ELSE "A"
  BY DEF computeMinimumReviewLevel
<1>2. /\ risk("balanced") = "pin" => risk("strict") = "pin"
      /\ risk("minimal") = "pin" => risk("balanced") = "pin"
      /\ risk("balanced") = "confirm" => risk("strict") \in {"pin", "confirm"}
      /\ risk("minimal") = "confirm" => risk("balanced") \in {"pin", "confirm"}
  BY AxesOf, RiskOrder
<1>3. Stricter(p) <=> /\ Rank[level("strict")] >= Rank[level("balanced")]
                      /\ Rank[level("balanced")] >= Rank[level("minimal")]
  BY DEF Stricter
<1>4. Rank["A"] = 0 /\ Rank["B"] = 1 /\ Rank["C"] = 2
  BY DEF Rank
<1> HIDE DEF risk, always, level
<1>5. QED
  BY <1>1, <1>2, <1>3, <1>4

\* The minimum level keeps the floors, before the brain is heard
\* (computeMinimumReviewLevel).
LEMMA FloorsMinimum ==
    ASSUME NEW p \in ActionProfile, NEW security \in Securities
    PROVE  /\ computeMinimumReviewLevel(p, security) \in Levels
           /\ Floors(p, security, computeMinimumReviewLevel(p, security))
<1> DEFINE o == classifyOutcome(p)
           i == Intention(p)
           d == classifyDomain(p)
           risk == computeRisk(o, i, d, security, p.unbounded)
           level == computeMinimumReviewLevel(p, security)
           always == \/ ~p.clear
                     \/ p.outside
                     \/ /\ "web_remote_user" \in p.provenance
                        /\ ~(p.operations \subseteq {"read"})
           deletes == /\ "delete" \in p.operations /\ "write" \notin p.operations
                      /\ ~p.commits
<1>1. level = IF always \/ risk = "pin" THEN "C" ELSE IF risk = "confirm" THEN "B" ELSE "A"
  BY DEF computeMinimumReviewLevel
<1>2. o = "irreversible" /\ i = "autonomous" => risk = "pin"
  BY LadderAssumption DEF computeRisk, checkSafetyInvariants
<1>3. d = "system" => risk \in {"pin", "confirm"}
  BY LadderAssumption DEF computeRisk, checkSafetyInvariants
<1>4. deletes => o \in {"irreversible", "soft-irreversible"}
  BY DEF classifyOutcome
<1>5. ASSUME o \in {"irreversible", "soft-irreversible"}, security # "minimal"
      PROVE  risk \in {"pin", "confirm"}
  <2> HIDE DEF o, i, d
  <2>1. computeStrictRisk(o, i, d) \in {"pin", "confirm"}
    BY <1>5 DEF computeStrictRisk
  <2>2. computeBalancedRisk(o, i, d) \in {"pin", "confirm"}
    BY <1>5 DEF computeBalancedRisk
  <2>3. checkSafetyInvariants(o, i, d, p.unbounded) \in {"pin", "confirm", None}
    BY DEF checkSafetyInvariants
  <2>4. security \in {"strict", "balanced"}
    BY <1>5 DEF Securities
  <2>5. QED
    BY <2>1, <2>2, <2>3, <2>4 DEF computeRisk
<1>9. p.unbounded /\ d = "system" => risk = "pin"
  <2>1. p.unbounded => o = "irreversible"
    BY DEF classifyOutcome
  <2> QED BY <2>1, LadderAssumption DEF computeRisk, checkSafetyInvariants
<1>6. Floors(p, security, level) <=>
        /\ \/ always \/ (o = "irreversible" /\ i = "autonomous")
           \/ p.unbounded /\ d = "system"
           => level = "C"
        /\ d = "system" \/ (deletes /\ security # "minimal") => level # "A"
  BY DEF Floors
<1> HIDE DEF o, i, d, risk, level, always, deletes
<1>7. level \in Levels /\ Floors(p, security, level)
  BY <1>1, <1>2, <1>3, <1>4, <1>5, <1>6, <1>9 DEF Levels
<1>8. QED
  BY <1>7 DEF level

\* The brain's authority never lowers a level (applyBrainAuthority).
LEMMA NeverLowers ==
    ASSUME NEW level \in Levels, NEW authority, NEW brain
    PROVE  LET applied == applyBrainAuthority(level, authority, brain)
           IN /\ applied \in Levels
              /\ level = "C" => applied = "C"
              /\ level # "A" => applied # "A"
<1> DEFINE required == IF brain = None THEN None
                       ELSE getBrainReviewLevel(authority, brain)
<1>1. required \in {None, "B", "C"}
  BY DEF getBrainReviewLevel
<1>2. Rank["A"] = 0 /\ Rank["B"] = 1 /\ Rank["C"] = 2
  BY DEF Rank
<1>3. applyBrainAuthority(level, authority, brain) =
        IF required = None THEN level
        ELSE IF Rank[level] >= Rank[required] THEN level ELSE required
  BY DEF applyBrainAuthority
<1> HIDE DEF required
<1>4. QED
  BY <1>1, <1>2, <1>3 DEF Levels

\* The floors hold for every action profile, security profile, authority and
\* assessment of the brain (computeMinimumReviewLevel, applyBrainAuthority).
LEMMA FloorsAlways ==
    ASSUME NEW p \in ActionProfile, NEW security \in Securities,
           NEW authority, NEW brain
    PROVE  Floors(p, security,
                  applyBrainAuthority(computeMinimumReviewLevel(p, security),
                                      authority, brain))
<1> DEFINE level == computeMinimumReviewLevel(p, security)
           applied == applyBrainAuthority(level, authority, brain)
<1>1. level \in Levels /\ Floors(p, security, level)
  BY FloorsMinimum
<1> HIDE DEF level
<1>2. /\ level = "C" => applied = "C"
      /\ level # "A" => applied # "A"
  BY <1>1, NeverLowers
<1> HIDE DEF applied
<1>3. Floors(p, security, applied)
  BY <1>1, <1>2 DEF Floors
<1>4. QED
  BY <1>3 DEF applied, level

------------------------------------------------------------------------------
(* Rules: the first lower one, insertion, and what the rules allow.           *)

LEMMA MinFacts ==
    ASSUME NEW S \in SUBSET Nat, S # {}
    PROVE  Min(S) \in S /\ \A x \in S : Min(S) <= x
<1>1. PICK x \in S : \A y \in S : ~(<<y, x>> \in OpToRel(<, Nat))
  BY WFMin, NatLessThanWellFounded, Zenon
<1>2. \A y \in S : x <= y
  <2> SUFFICES ASSUME NEW y \in S, y < x PROVE FALSE
    OBVIOUS
  <2>1. <<y, x>> \in OpToRel(<, Nat)
    BY Zenon DEF OpToRel
  <2>2. QED
    BY <1>1, <2>1
<1>3. QED
  BY <1>2 DEF Min

\* Adding a rule keeps all others, in an order by falling priority.
LEMMA AddRuleFacts ==
    ASSUME NEW rules \in Seq(Rules), Sorted(rules), NEW rule \in Rules
    PROVE  LET added == addRule(rules, rule)
           IN /\ added \in Seq(Rules) /\ Sorted(added)
              /\ \A j \in DOMAIN rules : \E k \in DOMAIN added : added[k] = rules[j]
              /\ \A k \in DOMAIN added :
                    added[k] = rule \/ \E j \in DOMAIN rules : added[k] = rules[j]
<1> DEFINE lower == {j \in DOMAIN rules : rules[j].priority < rule.priority}
           added == addRule(rules, rule)
<1>1. /\ Len(rules) \in Nat /\ DOMAIN rules = 1..Len(rules)
      /\ \A j \in 1..Len(rules) : rules[j] \in Rules /\ rules[j].priority \in Nat
      /\ \A j, k \in 1..Len(rules) : j <= k => rules[j].priority >= rules[k].priority
  <2>1. Len(rules) \in Nat /\ DOMAIN rules = 1..Len(rules) /\ rules \in [1..Len(rules) -> Rules]
    BY LenProperties
  <2>2. \A r \in Rules : r.priority \in Nat
    BY DEF Rules
  <2>3. QED
    BY <2>1, <2>2 DEF Sorted
<1>2. rule.priority \in Nat
  BY DEF Rules
<1>3. CASE lower = {}
  <2>1. added = Append(rules, rule)
    BY <1>3 DEF addRule
  <2>2. /\ added \in Seq(Rules) /\ DOMAIN added = 1..Len(rules) + 1
        /\ \A j \in 1..Len(rules) : added[j] = rules[j]
        /\ added[Len(rules) + 1] = rule
    BY <2>1, <1>1
  <2>3. \A j \in 1..Len(rules) : rules[j].priority >= rule.priority
    BY <1>3, <1>1, <1>2
  <2> HIDE DEF added
  <2>4. Sorted(added)
    BY <2>2, <2>3, <1>1, <1>2 DEF Sorted
  <2>5. QED
    BY <2>2, <2>4, <1>1 DEF added
<1>4. CASE lower # {}
  <2> DEFINE at == Min(lower)
             before == SubSeq(rules, 1, at - 1)
             after == SubSeq(rules, at, Len(rules))
  <2>1. /\ at \in 1..Len(rules) /\ rules[at].priority < rule.priority
        /\ \A j \in 1..at - 1 : rules[j].priority >= rule.priority
    <3>1. lower \in SUBSET Nat
      BY <1>1
    <3>2. at \in lower /\ \A j \in lower : at <= j
      BY <3>1, <1>4, MinFacts
    <3> HIDE DEF at
    <3>3. QED
      BY <3>2, <1>1, <1>2
  <2>2. added = before \o <<rule>> \o after
    BY <1>4 DEF addRule, InsertAt
  <2> HIDE DEF at, added, lower
  <2>3. /\ before \in Seq(Rules) /\ Len(before) = at - 1
        /\ \A j \in 1..at - 1 : before[j] = rules[j]
    BY <1>1, <2>1
  <2>4. /\ after \in Seq(Rules) /\ Len(after) = Len(rules) - at + 1
        /\ \A j \in 1..Len(rules) - at + 1 : after[j] = rules[at + j - 1]
    BY <1>1, <2>1
  <2> HIDE DEF before, after
  <2>5. /\ <<rule>> \in Seq(Rules) /\ Len(<<rule>>) = 1 /\ <<rule>>[1] = rule
    OBVIOUS
  <2>6. /\ before \o <<rule>> \in Seq(Rules) /\ Len(before \o <<rule>>) = at
        /\ \A j \in 1..at - 1 : (before \o <<rule>>)[j] = rules[j]
        /\ (before \o <<rule>>)[at] = rule
    BY <2>1, <2>3, <2>5
  <2> DEFINE start == before \o <<rule>>
  <2>7. added = start \o after
    BY <2>2
  <2> HIDE DEF start
  <2>8. /\ added \in Seq(Rules) /\ DOMAIN added = 1..Len(rules) + 1
        /\ \A j \in 1..at - 1 : added[j] = rules[j]
        /\ added[at] = rule
        /\ \A j \in at + 1..Len(rules) + 1 : added[j] = rules[j - 1]
    <3>1. /\ start \in Seq(Rules) /\ Len(start) = at
          /\ \A j \in 1..at - 1 : start[j] = rules[j]
          /\ start[at] = rule
      BY <2>6 DEF start
    <3>2. /\ added \in Seq(Rules) /\ Len(added) = at + Len(after)
          /\ \A j \in 1..Len(added) :
                added[j] = IF j <= at THEN start[j] ELSE after[j - at]
      <4>1. /\ start \o after \in Seq(Rules)
            /\ Len(start \o after) = Len(start) + Len(after)
            /\ \A j \in 1..Len(start) + Len(after) :
                  (start \o after)[j] = IF j <= Len(start) THEN start[j]
                                        ELSE after[j - Len(start)]
        BY <3>1, <2>4, ConcatProperties
      <4>2. QED
        BY <4>1, <2>7, <3>1
    <3>3. Len(added) = Len(rules) + 1
      BY <3>2, <2>4, <1>1, <2>1
    <3>4. \A j \in at + 1..Len(rules) + 1 : added[j] = rules[j - 1]
      <4> TAKE j \in at + 1..Len(rules) + 1
      <4>1. j - at \in 1..Len(rules) - at + 1 /\ at + (j - at) - 1 = j - 1
        BY <2>1, <1>1
      <4>2. added[j] = after[j - at]
        BY <3>2, <3>3, <2>1, <1>1
      <4>3. QED
        BY <4>1, <4>2, <2>4
    <3>5. \A j \in 1..at : added[j] = start[j]
      BY <3>2, <3>3, <2>1, <1>1
    <3>6. DOMAIN added = 1..Len(rules) + 1
      BY <3>2, <3>3, LenProperties
    <3>7. QED
      BY <3>1, <3>2, <3>4, <3>5, <3>6, <2>1
  <2>9. \A j \in at..Len(rules) : rules[j].priority < rule.priority
    BY <2>1, <1>1, <1>2
  <2>10. Sorted(added)
    <3> SUFFICES ASSUME NEW j \in 1..Len(rules) + 1, NEW k \in 1..Len(rules) + 1, j <= k
                 PROVE  added[j].priority >= added[k].priority
      BY <2>8 DEF Sorted
    <3>1. CASE k < at
      BY <3>1, <2>8, <2>1, <1>1
    <3>2. CASE k = at /\ j < at
      BY <3>2, <2>8, <2>1, <1>1, <1>2
    <3>3. CASE k = at /\ j = at
      BY <3>3, <2>8, <1>2
    <3>4. CASE k > at
      <4>1. k - 1 \in at..Len(rules) /\ added[k] = rules[k - 1]
        BY <3>4, <2>8, <2>1, <1>1
      <4>2. CASE j < at
        BY <4>1, <4>2, <2>8, <2>1, <1>1
      <4>3. CASE j = at
        BY <4>1, <4>3, <2>8, <2>9, <1>1, <1>2
      <4>4. CASE j > at
        <5>1. j - 1 \in at..Len(rules) /\ added[j] = rules[j - 1] /\ j - 1 <= k - 1
          BY <4>4, <2>8, <2>1, <1>1, <3>4
        <5>2. QED
          BY <4>1, <5>1, <2>1, <1>1
      <4>5. QED
        BY <4>2, <4>3, <4>4, <2>1
    <3>5. QED
      BY <3>1, <3>2, <3>3, <3>4, <2>1
  <2>11. ASSUME NEW j \in DOMAIN rules
         PROVE  \E k \in DOMAIN added : added[k] = rules[j]
    <3>1. CASE j < at
      BY <3>1, <2>8, <2>1, <1>1
    <3>2. CASE j >= at
      <4>1. j + 1 \in at + 1..Len(rules) + 1 /\ j + 1 - 1 = j
        BY <3>2, <2>1, <1>1
      <4>2. added[j + 1] = rules[j + 1 - 1]
        BY <4>1, <2>8
      <4>3. QED
        BY <4>1, <4>2, <2>8, <2>1, <1>1
    <3>3. QED
      BY <3>1, <3>2, <2>1, <1>1
  <2>12. ASSUME NEW k \in DOMAIN added
         PROVE  added[k] = rule \/ \E j \in DOMAIN rules : added[k] = rules[j]
    <3>1. CASE k < at
      BY <3>1, <2>8, <2>1, <1>1
    <3>2. CASE k > at
      <4>1. k - 1 \in 1..Len(rules) /\ added[k] = rules[k - 1]
        BY <3>2, <2>8, <2>1, <1>1
      <4>2. QED
        BY <4>1, <1>1
    <3>3. QED
      BY <3>1, <3>2, <2>8, <2>1
  <2>13. QED
    BY <2>8, <2>10, <2>11, <2>12 DEF added
<1>5. QED
  BY <1>3, <1>4

------------------------------------------------------------------------------
(* The invariant.                                                             *)

AllowedSet == {c \in Commands : RuleAllows(c)}
SoundSet   == UNION {commands \in SUBSET Commands : Justified(commands)}

\* A check on its way: whatever it has decided to allow so far is justified.
FrameOK(f, allowed, sound) ==
    /\ f \in Frame
    /\ f.pc \in {"match", "parse"} => f.decision = "ALLOW" /\ f.next = 1
    /\ f.pc = "parse" => f.command \in allowed
    /\ f.pc = "parts" =>
          /\ f.command \in allowed
          /\ Len(Parts[f.command]) > 1
          /\ f.next \in 1..Len(Parts[f.command]) + 1
          /\ f.decision = "ALLOW" => \A j \in 1..f.next - 1 : Parts[f.command][j] \in sound
    /\ f.pc \in {"check", "checker"} /\ f.decision = "ALLOW" => f.command \in sound

\* The nested checks of a request: each checks the next part of the one around it.
StackOK(s, allowed, sound) ==
    /\ s \in Seq(Frame)
    /\ \A k \in 1..Len(s) : FrameOK(s[k], allowed, sound)
    /\ \A k \in 1..Len(s) - 1 :
          /\ s[k].pc = "parts"
          /\ s[k].next <= Len(Parts[s[k].command])
          /\ s[k + 1].command = Parts[s[k].command][s[k].next]

\* One invocation: its checks s, its command c, whether a checker objected, its phase.
\* An objection is remembered by a decision of some check until the request is decided.
EntryOK(s, c, v, ph, allowed, sound) ==
    /\ StackOK(s, allowed, sound)
    /\ s # <<>> => s[1].command = c
    /\ v /\ s # <<>> => \E k \in 1..Len(s) : s[k].decision # "ALLOW"
    /\ ph = "new" => s = <<>> /\ ~v
    /\ ph = "allowed" => s = <<>> /\ ~v /\ c \in sound

BusInv ==
    /\ BusTypeOK
    /\ \A i \in Invocations :
          EntryOK(stack[i], command[i], vetoed[i], phase[i], AllowedSet, SoundSet)

------------------------------------------------------------------------------
(* What is justified.                                                         *)

LEMMA SoundOne ==
    ASSUME NEW c \in AllowedSet, IsShell(c) => Len(Parts[c]) = 1
    PROVE  c \in SoundSet
<1>1. Len(Parts[c]) = 1 => Parts[c] # <<>> /\ ~(Len(Parts[c]) > 1)
  OBVIOUS
<1>2. Justified({c})
  BY <1>1 DEF Justified, AllowedSet
<1>3. QED
  BY <1>2 DEF SoundSet, AllowedSet

LEMMA SoundAll ==
    ASSUME NEW c \in AllowedSet, Len(Parts[c]) > 1,
           \A j \in 1..Len(Parts[c]) : Parts[c][j] \in SoundSet
    PROVE  c \in SoundSet
<1> DEFINE commands == SoundSet \cup {c}
<1>1. commands \in SUBSET Commands
  BY DEF SoundSet, AllowedSet
<1>2. Parts[c] \in Seq(Commands) /\ Parts[c] # <<>> /\ Range(Parts[c]) \subseteq commands
  <2>1. Parts[c] \in Seq(Commands)
    BY BusAssumption DEF AllowedSet
  <2>2. DOMAIN Parts[c] = 1..Len(Parts[c]) /\ Parts[c] # <<>>
    BY <2>1, LenProperties, EmptySeq
  <2>3. QED
    BY <2>1, <2>2 DEF Range
<1>3. ASSUME NEW d \in SoundSet
      PROVE  /\ RuleAllows(d)
             /\ IsShell(d) => /\ Parts[d] # <<>>
                              /\ Len(Parts[d]) > 1 => Range(Parts[d]) \subseteq commands
  <2>1. PICK some \in SUBSET Commands : d \in some /\ Justified(some)
    BY DEF SoundSet
  <2>2. some \subseteq SoundSet
    BY <2>1 DEF SoundSet
  <2>3. QED
    BY <2>1, <2>2 DEF Justified
<1>4. Justified(commands)
  BY <1>2, <1>3 DEF Justified, AllowedSet
<1>5. QED
  BY <1>1, <1>4 DEF SoundSet

\* The first matching rule decides: what it allows, no rule before it forbids.
LEMMA FirstRuleAllows ==
    ASSUME policy \in PolicySettings, NEW c \in Commands,
           RuleFor(policy.rules, c) # None, RuleFor(policy.rules, c).decision = "ALLOW"
    PROVE  c \in AllowedSet
<1> DEFINE rules == policy.rules
           covering == {j \in DOMAIN rules : c \in rules[j].covers}
<1>1. rules \in Seq(Rules) /\ Sorted(rules)
  BY DEF PolicySettings
<1>2. DOMAIN rules = 1..Len(rules) /\ Len(rules) \in Nat
  BY <1>1, LenProperties
<1>3. covering # {} /\ rules[Min(covering)].decision = "ALLOW"
  BY DEF RuleFor
<1>4. Min(covering) \in covering /\ \A k \in covering : Min(covering) <= k
  <2>1. covering \in SUBSET Nat
    BY <1>2
  <2> HIDE DEF covering
  <2>2. QED
    BY <2>1, <1>3, MinFacts
<1>5. \A k \in covering : rules[k].priority <= rules[Min(covering)].priority
  <2> TAKE k \in covering
  <2>1. rules[Min(covering)].priority >= rules[k].priority
    BY <1>1, <1>4 DEF Sorted
  <2>2. rules[k].priority \in Nat /\ rules[Min(covering)].priority \in Nat
    <3>1. rules[k] \in Rules /\ rules[Min(covering)] \in Rules
      BY <1>1, <1>2, <1>4, ElementOfSeq
    <3>2. QED
      BY <3>1 DEF Rules
  <2>3. QED
    BY <2>1, <2>2
<1>6. QED
  BY <1>3, <1>4, <1>5 DEF AllowedSet, RuleAllows

\* Rules that are kept, or added to by a rule that allows, allow what they allowed.
LEMMA StillAllowed ==
    ASSUME policy \in PolicySettings, policy' \in PolicySettings,
           \/ policy' = policy
           \/ \E rule \in Rules : /\ rule.decision = "ALLOW"
                                  /\ policy'.rules = addRule(policy.rules, rule)
    PROVE  AllowedSet \subseteq AllowedSet' /\ SoundSet \subseteq SoundSet'
<1>1. ASSUME NEW c \in Commands, RuleAllows(c)
      PROVE  RuleAllows(c)'
  <2>1. CASE policy' = policy
    BY <1>1, <2>1 DEF RuleAllows
  <2>2. CASE policy' # policy
    <3>1. PICK rule \in Rules : /\ rule.decision = "ALLOW"
                                /\ policy'.rules = addRule(policy.rules, rule)
      BY <2>2
    <3>2. policy.rules \in Seq(Rules) /\ Sorted(policy.rules)
      BY DEF PolicySettings
    <3>3. /\ \A j \in DOMAIN policy.rules :
                \E k \in DOMAIN policy'.rules : policy'.rules[k] = policy.rules[j]
          /\ \A k \in DOMAIN policy'.rules :
                \/ policy'.rules[k] = rule
                \/ \E j \in DOMAIN policy.rules : policy'.rules[k] = policy.rules[j]
      <4> DEFINE rules == policy.rules
      <4>1. /\ \A j \in DOMAIN rules :
                  \E k \in DOMAIN addRule(rules, rule) : addRule(rules, rule)[k] = rules[j]
            /\ \A k \in DOMAIN addRule(rules, rule) :
                  \/ addRule(rules, rule)[k] = rule
                  \/ \E j \in DOMAIN rules : addRule(rules, rule)[k] = rules[j]
        <5>1. rules \in Seq(Rules) /\ Sorted(rules)
          BY <3>2
        <5> HIDE DEF rules
        <5>2. QED
          BY <5>1, AddRuleFacts
      <4>2. QED
        BY <4>1, <3>1
    <3>4. PICK j \in DOMAIN policy.rules :
             /\ c \in policy.rules[j].covers /\ policy.rules[j].decision = "ALLOW"
             /\ \A k \in DOMAIN policy.rules :
                   c \in policy.rules[k].covers /\ policy.rules[k].decision # "ALLOW"
                   => policy.rules[k].priority <= policy.rules[j].priority
      BY <1>1 DEF RuleAllows
    <3>5. PICK n \in DOMAIN policy'.rules : policy'.rules[n] = policy.rules[j]
      BY <3>3
    <3>6. \A k \in DOMAIN policy'.rules :
             c \in policy'.rules[k].covers /\ policy'.rules[k].decision # "ALLOW"
             => policy'.rules[k].priority <= policy'.rules[n].priority
      BY <3>1, <3>3, <3>4, <3>5
    <3>7. QED
      BY <3>4, <3>5, <3>6 DEF RuleAllows
  <2>3. QED
    BY <2>1, <2>2
<1>2. AllowedSet \subseteq AllowedSet'
  BY <1>1 DEF AllowedSet
<1>3. ASSUME NEW commands \in SUBSET Commands, Justified(commands)
      PROVE  Justified(commands)'
  BY <1>1, <1>3 DEF Justified, IsShell
<1>4. QED
  BY <1>2, <1>3 DEF SoundSet

------------------------------------------------------------------------------
(* Checks that push, pop or change the innermost one.                         *)

LEMMA Grown ==
    ASSUME NEW allowed, NEW sound, NEW more, NEW most, allowed \subseteq more,
           sound \subseteq most, NEW s, NEW c, NEW v, NEW ph,
           EntryOK(s, c, v, ph, allowed, sound)
    PROVE  EntryOK(s, c, v, ph, more, most)
<1>1. \A f : FrameOK(f, allowed, sound) => FrameOK(f, more, most)
  BY DEF FrameOK
<1>2. StackOK(s, more, most)
  BY <1>1 DEF EntryOK, StackOK
<1>3. QED
  BY <1>2 DEF EntryOK

LEMMA TopReplaced ==
    ASSUME NEW allowed, NEW sound, NEW s, s # <<>>, StackOK(s, allowed, sound),
           NEW f, FrameOK(f, allowed, sound), f.command = s[Len(s)].command
    PROVE  LET t == [s EXCEPT ![Len(s)] = f]
           IN /\ StackOK(t, allowed, sound)
              /\ Len(t) = Len(s) /\ t # <<>> /\ t[1].command = s[1].command
              /\ t[Len(s)] = f /\ \A k \in 1..Len(s) - 1 : t[k] = s[k]
<1> DEFINE t == [s EXCEPT ![Len(s)] = f]
<1>1. s \in Seq(Frame) /\ f \in Frame
  BY DEF StackOK, FrameOK
<1>2. Len(s) \in Nat /\ Len(s) >= 1
  BY <1>1, EmptySeq, LenProperties
<1>3. /\ t \in Seq(Frame) /\ Len(t) = Len(s)
      /\ \A k \in 1..Len(s) : t[k] = IF k = Len(s) THEN f ELSE s[k]
  BY <1>1, <1>2, ExceptSeq
<1> HIDE DEF t
<1>4. t[Len(s)] = f /\ \A k \in 1..Len(s) - 1 : t[k] = s[k]
  BY <1>2, <1>3
<1>5. t # <<>>
  BY <1>2, <1>3, EmptySeq
<1>6. \A k \in 1..Len(s) : FrameOK(t[k], allowed, sound) /\ t[k].command = s[k].command
  BY <1>2, <1>3 DEF StackOK
<1>7. ASSUME NEW k \in 1..Len(s) - 1
      PROVE  /\ t[k].pc = "parts"
             /\ t[k].next <= Len(Parts[t[k].command])
             /\ t[k + 1].command = Parts[t[k].command][t[k].next]
  <2>1. t[k] = s[k] /\ t[k + 1].command = s[k + 1].command
    BY <1>2, <1>4, <1>6
  <2>2. QED
    BY <2>1 DEF StackOK
<1>8. StackOK(t, allowed, sound)
  BY <1>3, <1>6, <1>7 DEF StackOK
<1>9. t[1].command = s[1].command
  BY <1>2, <1>6
<1>10. QED
  BY <1>3, <1>4, <1>5, <1>8, <1>9 DEF t

LEMMA Pushed ==
    ASSUME NEW allowed, NEW sound, NEW s, s # <<>>, StackOK(s, allowed, sound),
           s[Len(s)].pc = "parts", s[Len(s)].next <= Len(Parts[s[Len(s)].command]),
           NEW f, FrameOK(f, allowed, sound),
           f.command = Parts[s[Len(s)].command][s[Len(s)].next]
    PROVE  LET t == Append(s, f)
           IN /\ StackOK(t, allowed, sound)
              /\ Len(t) = Len(s) + 1 /\ t # <<>> /\ t[1].command = s[1].command
              /\ \A k \in 1..Len(s) : t[k] = s[k]
<1> DEFINE t == Append(s, f)
<1>1. s \in Seq(Frame) /\ f \in Frame
  BY DEF StackOK, FrameOK
<1>2. Len(s) \in Nat /\ Len(s) >= 1
  BY <1>1, EmptySeq, LenProperties
<1>3. /\ t \in Seq(Frame) /\ Len(t) = Len(s) + 1
      /\ \A k \in 1..Len(s) : t[k] = s[k]
      /\ t[Len(s) + 1] = f
  BY <1>1, <1>2, AppendProperties
<1> HIDE DEF t
<1>4. t # <<>>
  BY <1>2, <1>3, EmptySeq
<1>5. \A k \in 1..Len(t) : FrameOK(t[k], allowed, sound)
  <2> TAKE k \in 1..Len(t)
  <2>1. CASE k \in 1..Len(s)
    BY <2>1, <1>3 DEF StackOK
  <2>2. CASE k = Len(s) + 1
    BY <2>2, <1>3
  <2>3. QED
    BY <2>1, <2>2, <1>2, <1>3
<1>6. ASSUME NEW k \in 1..Len(t) - 1
      PROVE  /\ t[k].pc = "parts"
             /\ t[k].next <= Len(Parts[t[k].command])
             /\ t[k + 1].command = Parts[t[k].command][t[k].next]
  <2>1. k \in 1..Len(s) /\ t[k] = s[k]
    BY <1>2, <1>3
  <2>2. CASE k = Len(s)
    BY <2>1, <2>2, <1>3
  <2>3. CASE k # Len(s)
    <3>1. k \in 1..Len(s) - 1 /\ k + 1 \in 1..Len(s) /\ t[k + 1] = s[k + 1]
      BY <2>1, <2>3, <1>2, <1>3
    <3>2. QED
      BY <2>1, <3>1 DEF StackOK
  <2>4. QED
    BY <2>2, <2>3
<1>7. StackOK(t, allowed, sound)
  BY <1>3, <1>5, <1>6 DEF StackOK
<1>8. QED
  BY <1>2, <1>3, <1>4, <1>7 DEF t

\* What Popped leaves of the checks s when the inner one returns d.
After(s, d) == Append(Front(Front(s)), [Last(Front(s)) EXCEPT !.decision = Combine(@, d),
                                                              !.next = @ + 1])

LEMMA PoppedOK ==
    ASSUME NEW allowed, NEW sound, NEW s, StackOK(s, allowed, sound), Len(s) > 1,
           NEW d \in Decisions, d = "ALLOW" => s[Len(s)].command \in sound
    PROVE  /\ StackOK(After(s, d), allowed, sound)
           /\ Len(After(s, d)) = Len(s) - 1 /\ After(s, d) # <<>>
           /\ After(s, d)[1].command = s[1].command
           /\ After(s, d)[Len(s) - 1].decision = Combine(s[Len(s) - 1].decision, d)
           /\ \A k \in 1..Len(s) - 2 : After(s, d)[k] = s[k]
<1> DEFINE n == Len(s)
           outer == s[n - 1]
           new == [outer EXCEPT !.decision = Combine(@, d), !.next = @ + 1]
           base == Front(Front(s))
           t == Append(base, new)
<1>1. s \in Seq(Frame) /\ n \in Nat /\ n > 1
  BY DEF StackOK
<1>2. /\ Front(s) \in Seq(Frame) /\ Len(Front(s)) = n - 1
      /\ \A k \in 1..n - 1 : Front(s)[k] = s[k]
  BY <1>1 DEF Front
<1>3. Last(Front(s)) = outer
  BY <1>1, <1>2 DEF Last
<1>4. /\ base \in Seq(Frame) /\ Len(base) = n - 2
      /\ \A k \in 1..n - 2 : base[k] = s[k]
  <2>1. /\ SubSeq(Front(s), 1, n - 2) \in Seq(Frame)
        /\ Len(SubSeq(Front(s), 1, n - 2)) = n - 2
        /\ \A k \in 1..n - 2 : SubSeq(Front(s), 1, n - 2)[k] = Front(s)[k]
    BY <1>1, <1>2
  <2>2. base = SubSeq(Front(s), 1, n - 2)
    BY <1>1, <1>2 DEF Front
  <2>3. QED
    BY <1>1, <1>2, <2>1, <2>2
<1>5. /\ outer \in Frame /\ FrameOK(outer, allowed, sound) /\ outer.pc = "parts"
      /\ outer.next <= Len(Parts[outer.command])
      /\ s[n].command = Parts[outer.command][outer.next]
  BY <1>1 DEF StackOK, FrameOK
<1>6. /\ new \in Frame /\ new.pc = "parts" /\ new.command = outer.command
      /\ new.next = outer.next + 1 /\ new.decision = Combine(outer.decision, d)
  <2>1. Combine(outer.decision, d) \in Decisions /\ outer.next + 1 \in Nat
    BY <1>5 DEF Frame, Combine
  <2>2. QED
    BY <1>5, <2>1 DEF Frame
<1>7. FrameOK(new, allowed, sound)
  <2>1. /\ outer.command \in allowed /\ Len(Parts[outer.command]) > 1
        /\ outer.next \in 1..Len(Parts[outer.command]) + 1
        /\ outer.decision = "ALLOW" =>
              \A j \in 1..outer.next - 1 : Parts[outer.command][j] \in sound
    BY <1>5 DEF FrameOK
  <2>2. Len(Parts[outer.command]) \in Nat
    BY <1>5, BusAssumption DEF Frame
  <2>3. new.next \in 1..Len(Parts[outer.command]) + 1
    BY <1>5, <1>6, <2>1, <2>2
  <2>4. ASSUME new.decision = "ALLOW", NEW j \in 1..new.next - 1
        PROVE  Parts[outer.command][j] \in sound
    <3>1. d = "ALLOW" /\ outer.decision = "ALLOW"
      BY <1>6, <2>4 DEF Combine
    <3>2. j \in 1..outer.next - 1 \/ j = outer.next
      BY <1>6, <2>1, <2>2
    <3>3. QED
      BY <1>5, <2>1, <3>1, <3>2
  <2>5. QED
    BY <1>6, <2>1, <2>3, <2>4 DEF FrameOK
<1> HIDE DEF new, base
<1>8. /\ t \in Seq(Frame) /\ Len(t) = n - 1
      /\ \A k \in 1..n - 2 : t[k] = s[k]
      /\ t[n - 1] = new
  BY <1>1, <1>4, <1>6, AppendProperties
<1> HIDE DEF t
<1>9. t # <<>>
  BY <1>1, <1>8, EmptySeq
<1>10. \A k \in 1..n - 1 : FrameOK(t[k], allowed, sound) /\ t[k].command = s[k].command
  <2> TAKE k \in 1..n - 1
  <2>1. CASE k = n - 1
    BY <2>1, <1>6, <1>7, <1>8
  <2>2. CASE k # n - 1
    <3>1. k \in 1..n - 2 /\ k \in 1..n
      BY <2>2, <1>1
    <3>2. QED
      BY <3>1, <1>8 DEF StackOK
  <2>3. QED
    BY <2>1, <2>2
<1>11. ASSUME NEW k \in 1..Len(t) - 1
       PROVE  /\ t[k].pc = "parts"
              /\ t[k].next <= Len(Parts[t[k].command])
              /\ t[k + 1].command = Parts[t[k].command][t[k].next]
  <2>1. k \in 1..n - 1 /\ k + 1 \in 1..n - 1 /\ t[k] = s[k] /\ t[k + 1].command = s[k + 1].command
    BY <1>1, <1>8, <1>10
  <2>2. QED
    BY <2>1 DEF StackOK
<1>12. StackOK(t, allowed, sound)
  BY <1>8, <1>10, <1>11 DEF StackOK
<1>13. QED
  <2>1. After(s, d) = t
    BY <1>3 DEF After, t, new, base
  <2>2. t[1].command = s[1].command
    BY <1>1, <1>10
  <2>3. QED
    BY <2>1, <2>2, <1>6, <1>8, <1>9, <1>12

------------------------------------------------------------------------------
(* Each step keeps the invariant.                                             *)

LEMMA TopFacts ==
    ASSUME BusInv, NEW i \in Invocations, stack[i] # <<>>
    PROVE  /\ StackOK(stack[i], AllowedSet, SoundSet)
           /\ Len(stack[i]) \in Nat /\ Len(stack[i]) >= 1
           /\ Top(i) \in Frame /\ FrameOK(Top(i), AllowedSet, SoundSet)
           /\ phase[i] \notin {"new", "allowed"}
           /\ Top(i).command \in Commands
<1>1. EntryOK(stack[i], command[i], vetoed[i], phase[i], AllowedSet, SoundSet)
  BY DEF BusInv
<1>2. stack[i] \in Seq(Frame)
  BY <1>1 DEF EntryOK, StackOK
<1>3. Len(stack[i]) \in Nat /\ Len(stack[i]) >= 1
  BY <1>2, EmptySeq, LenProperties
<1>4. FrameOK(Top(i), AllowedSet, SoundSet)
  BY <1>1, <1>3 DEF EntryOK, StackOK, Top
<1>5. QED
  BY <1>1, <1>3, <1>4 DEF EntryOK, FrameOK, Frame

LEMMA SamePolicy ==
    ASSUME policy' = policy
    PROVE  AllowedSet' = AllowedSet /\ SoundSet' = SoundSet
<1>1. \A c \in Commands : RuleAllows(c)' <=> RuleAllows(c)
  BY DEF RuleAllows
<1>2. \A commands \in SUBSET Commands : Justified(commands)' <=> Justified(commands)
  BY <1>1 DEF Justified, IsShell
<1>3. QED
  BY <1>1, <1>2 DEF AllowedSet, SoundSet

\* One invocation changes, the policy does not.
OnlyChanges(i) ==
    /\ stack' \in [Invocations -> Seq(Frame)]
    /\ vetoed' \in [Invocations -> BOOLEAN]
    /\ phase' \in [Invocations -> Phases]
    /\ \A j \in Invocations \ {i} :
          stack'[j] = stack[j] /\ vetoed'[j] = vetoed[j] /\ phase'[j] = phase[j]
    /\ command' = command /\ policy' = policy
    /\ verdict' \in [Invocations -> Decisions \cup {None}] /\ parsers' \in BOOLEAN
    /\ review' # None => review'.action \in ActionProfile /\ review'.level \in Levels

LEMMA OneInv ==
    ASSUME BusInv, NEW i \in Invocations, OnlyChanges(i),
           EntryOK(stack'[i], command[i], vetoed'[i], phase'[i], AllowedSet, SoundSet)
    PROVE  BusInv'
<1>1. BusTypeOK'
  BY DEF BusInv, BusTypeOK, OnlyChanges
<1>2. \A j \in Invocations :
         EntryOK(stack'[j], command'[j], vetoed'[j], phase'[j], AllowedSet, SoundSet)
  BY DEF BusInv, OnlyChanges
<1>3. AllowedSet' = AllowedSet /\ SoundSet' = SoundSet
  BY SamePolicy DEF OnlyChanges
<1>4. QED
  BY <1>1, <1>2, <1>3 DEF BusInv

\* The innermost check changes to f; v: whether a checker has objected.
TopStep(i, f, v) ==
    /\ stack[i] # <<>> /\ v \in BOOLEAN
    /\ FrameOK(f, AllowedSet, SoundSet) /\ f.command = Top(i).command
    /\ v => f.decision # "ALLOW" \/ (vetoed[i] /\ Top(i).decision = "ALLOW")
    /\ stack' = SetTop(i, f) /\ vetoed' = [vetoed EXCEPT ![i] = v]
    /\ UNCHANGED <<policy, phase, command, verdict, parsers>> /\ review' = None

LEMMA TopInv ==
    ASSUME BusInv, NEW i \in Invocations, NEW f, NEW v, TopStep(i, f, v)
    PROVE  BusInv'
<1> USE DEF TopStep
<1> DEFINE s == stack[i]
           t == [s EXCEPT ![Len(s)] = f]
<1>1. /\ StackOK(s, AllowedSet, SoundSet)
      /\ Len(s) \in Nat /\ Len(s) >= 1
      /\ phase[i] \notin {"new", "allowed"}
  BY TopFacts
<1>2. EntryOK(s, command[i], vetoed[i], phase[i], AllowedSet, SoundSet)
  BY DEF BusInv
<1>3. /\ StackOK(t, AllowedSet, SoundSet)
      /\ Len(t) = Len(s) /\ t # <<>> /\ t[1].command = s[1].command
      /\ t[Len(s)] = f /\ \A k \in 1..Len(s) - 1 : t[k] = s[k]
  BY <1>1, TopReplaced DEF Top
<1>4. stack' = [stack EXCEPT ![i] = t]
  BY DEF SetTop
<1>5. v => \E k \in 1..Len(t) : t[k].decision # "ALLOW"
  <2>1. CASE f.decision # "ALLOW"
    BY <2>1, <1>1, <1>3
  <2>2. CASE vetoed[i] /\ Top(i).decision = "ALLOW"
    <3>1. PICK k \in 1..Len(s) : s[k].decision # "ALLOW"
      BY <2>2, <1>2 DEF EntryOK
    <3>2. k # Len(s)
      BY <2>2, <3>1 DEF Top
    <3>3. QED
      BY <3>1, <3>2, <1>1, <1>3
  <2>3. QED
    BY <2>1, <2>2
<1> HIDE DEF t
<1>6. EntryOK(t, command[i], v, phase[i], AllowedSet, SoundSet)
  BY <1>1, <1>2, <1>3, <1>5 DEF EntryOK
<1>7. t \in Seq(Frame)
  BY <1>3 DEF StackOK
<1>8. OnlyChanges(i) /\ stack'[i] = t /\ vetoed'[i] = v /\ phase'[i] = phase[i]
  BY <1>4, <1>7 DEF BusInv, BusTypeOK, OnlyChanges
<1>9. QED
  BY <1>6, <1>8, OneInv

\* The innermost check returns d; v: whether a checker has objected.
ReturnStep(i, d, v) ==
    /\ stack[i] # <<>> /\ d \in Decisions /\ v \in BOOLEAN
    /\ Top(i).pc \in {"check", "checker"}
    /\ d = "ALLOW" => Top(i).decision = "ALLOW"
    /\ v => vetoed[i] \/ d # "ALLOW"
    /\ Return(i, d) /\ vetoed' = [vetoed EXCEPT ![i] = v] /\ review' = None

LEMMA ReturnInv ==
    ASSUME BusInv, NEW i \in Invocations, NEW d, NEW v, ReturnStep(i, d, v)
    PROVE  BusInv'
<1> USE DEF ReturnStep
<1> DEFINE s == stack[i]
           n == Len(s)
<1>1. /\ StackOK(s, AllowedSet, SoundSet) /\ n \in Nat /\ n >= 1
      /\ FrameOK(Top(i), AllowedSet, SoundSet) /\ phase[i] \notin {"new", "allowed"}
      /\ s[n] = Top(i)
  BY TopFacts DEF Top
<1>2. EntryOK(s, command[i], vetoed[i], phase[i], AllowedSet, SoundSet)
  BY DEF BusInv
<1>3. d = "ALLOW" => s[n].command \in SoundSet
  BY <1>1 DEF FrameOK
<1>4. UNCHANGED <<policy, command, parsers>>
  BY DEF Return
<1>5. CASE n > 1
  <2> DEFINE outer == s[n - 1]
             t == After(s, d)
  <2>1. /\ StackOK(t, AllowedSet, SoundSet)
        /\ Len(t) = n - 1 /\ t # <<>> /\ t[1].command = s[1].command
        /\ t[n - 1].decision = Combine(outer.decision, d)
        /\ \A k \in 1..n - 2 : t[k] = s[k]
    BY <1>1, <1>3, <1>5, PoppedOK
  <2>2. stack' = [stack EXCEPT ![i] = t] /\ UNCHANGED <<phase, verdict>>
    BY <1>5 DEF Return, Popped, After
  <2> HIDE DEF t
  <2>3. v => \E k \in 1..Len(t) : t[k].decision # "ALLOW"
    <3>1. CASE d # "ALLOW"
      BY <3>1, <1>1, <1>5, <2>1 DEF Combine
    <3>2. CASE d = "ALLOW" /\ v
      <4>1. PICK k \in 1..n : s[k].decision # "ALLOW"
        BY <3>2, <1>1, <1>2 DEF EntryOK
      <4>2. k # n
        BY <3>2, <4>1, <1>1
      <4>3. CASE k = n - 1
        BY <4>1, <4>3, <3>2, <1>1, <1>5, <2>1 DEF Combine
      <4>4. CASE k \in 1..n - 2
        BY <4>1, <4>4, <1>1, <1>5, <2>1
      <4>5. QED
        BY <4>2, <4>3, <4>4, <1>1
    <3>3. QED
      BY <3>1, <3>2
  <2>4. EntryOK(t, command[i], v, phase[i], AllowedSet, SoundSet)
    BY <1>1, <1>2, <2>1, <2>3 DEF EntryOK
  <2>5. t \in Seq(Frame)
    BY <2>1 DEF StackOK
  <2>6. OnlyChanges(i) /\ stack'[i] = t /\ vetoed'[i] = v /\ phase'[i] = phase[i]
    BY <1>4, <2>2, <2>5 DEF BusInv, BusTypeOK, OnlyChanges
  <2>7. QED
    BY <2>4, <2>6, OneInv
<1>6. CASE n = 1
  <2> DEFINE ph == IF phase[i] # "waiting" THEN phase[i]
                   ELSE CASE d = "ALLOW" -> "allowed" [] d = "DENY" -> "denied"
                          [] d = "ASK_USER" -> "asked"
  <2>1. /\ stack' = [stack EXCEPT ![i] = <<>>]
        /\ verdict' = [verdict EXCEPT ![i] = d]
        /\ phase' = [phase EXCEPT ![i] = ph]
    <3>1. ~(n > 1)
      BY <1>6
    <3>2. /\ stack' = [stack EXCEPT ![i] = <<>>]
          /\ verdict' = [verdict EXCEPT ![i] = d]
          /\ Respond(i, d)
      BY <3>1, Zenon DEF Return
    <3>3. phase' = [phase EXCEPT ![i] = ph]
      BY <3>2, Zenon DEF Respond
    <3>4. QED
      BY <3>2, <3>3
  <2>2. phase[i] \in Phases
    BY DEF BusInv, BusTypeOK
  <2>3. ph \in Phases /\ ph # "new" /\ (ph = "allowed" => d = "ALLOW")
    BY <2>2, <1>1 DEF Phases, Decisions
  <2> HIDE DEF ph
  <2>4. d = "ALLOW" => ~v /\ command[i] \in SoundSet
    <3> SUFFICES ASSUME d = "ALLOW" PROVE ~v /\ command[i] \in SoundSet
      OBVIOUS
    <3>1. command[i] \in SoundSet
      BY <1>2, <1>3, <1>6 DEF EntryOK
    <3>2. ~v
      <4> SUFFICES ASSUME v PROVE FALSE
        OBVIOUS
      <4>1. PICK k \in 1..n : s[k].decision # "ALLOW"
        BY <1>2 DEF EntryOK
      <4>2. QED
        BY <4>1, <1>1, <1>6
    <3>3. QED
      BY <3>1, <3>2
  <2>5. StackOK(<<>>, AllowedSet, SoundSet)
    BY DEF StackOK
  <2>6. EntryOK(<<>>, command[i], v, ph, AllowedSet, SoundSet)
    BY <2>3, <2>4, <2>5 DEF EntryOK
  <2>7. OnlyChanges(i) /\ stack'[i] = <<>> /\ vetoed'[i] = v /\ phase'[i] = ph
    BY <1>4, <2>1, <2>3 DEF BusInv, BusTypeOK, OnlyChanges
  <2>8. QED
    BY <2>6, <2>7, OneInv
<1>7. n = 1 \/ n > 1
  <2>1. n \in Nat /\ n >= 1
    BY <1>1
  <2> HIDE DEF n
  <2>2. QED
    BY <2>1
<1>8. QED
  BY <1>5, <1>6, <1>7

LEMMA RuleForType ==
    ASSUME policy \in PolicySettings, NEW c \in Commands
    PROVE  RuleFor(policy.rules, c) \in Rules \cup {None}
<1> DEFINE rules == policy.rules
           covering == {j \in DOMAIN rules : c \in rules[j].covers}
<1>1. rules \in Seq(Rules) /\ DOMAIN rules = 1..Len(rules) /\ Len(rules) \in Nat
  BY LenProperties DEF PolicySettings
<1>2. covering # {} => Min(covering) \in DOMAIN rules
  <2>1. covering \in SUBSET Nat /\ covering \subseteq DOMAIN rules
    BY <1>1
  <2> HIDE DEF covering
  <2>2. QED
    BY <2>1, MinFacts
<1>3. covering # {} => rules[Min(covering)] \in Rules
  BY <1>1, <1>2, ElementOfSeq
<1>4. QED
  BY <1>3 DEF RuleFor

LEMMA NonInteractive ==
    ASSUME NEW d \in Decisions
    PROVE  /\ applyNonInteractiveMode(d) \in Decisions
           /\ applyNonInteractiveMode(d) = "ALLOW" => d = "ALLOW"
           /\ d = "ALLOW" => applyNonInteractiveMode(d) = "ALLOW"
  BY DEF applyNonInteractiveMode, Decisions

LEMMA MatchInv ==
    ASSUME BusInv, NEW i \in Invocations, Match(i), review' = None
    PROVE  BusInv'
<1> DEFINE c == Top(i).command
           rule == RuleFor(policy.rules, c)
           d == IF rule = None THEN "ASK_USER" ELSE rule.decision
           f == IF d = "ALLOW" /\ IsShell(c)
                THEN [Top(i) EXCEPT !.pc = "parse"]
                ELSE [Top(i) EXCEPT !.pc = "check", !.decision = applyNonInteractiveMode(d)]
<1>1. stack[i] # <<>> /\ Top(i).pc = "match"
  BY DEF Match, At
<1>2. Top(i) \in Frame /\ c \in Commands /\ Top(i).decision = "ALLOW" /\ Top(i).next = 1
  BY <1>1, TopFacts DEF FrameOK
<1>3. d \in Decisions
  <2>1. rule \in Rules \cup {None}
    BY <1>2, RuleForType DEF BusInv, BusTypeOK
  <2>2. QED
    BY <2>1 DEF Rules, Decisions
<1>4. d = "ALLOW" => c \in AllowedSet
  <2>1. d = "ALLOW" => rule # None /\ rule.decision = "ALLOW"
    OBVIOUS
  <2> HIDE DEF d
  <2>2. QED
    BY <1>2, <2>1, FirstRuleAllows DEF BusInv, BusTypeOK
<1>5. stack' = SetTop(i, f) /\ UNCHANGED <<policy, phase, command, verdict, vetoed, parsers>>
  BY DEF Match, Stay
<1> HIDE DEF d
<1>6. FrameOK(f, AllowedSet, SoundSet) /\ f.command = c
  <2>1. CASE d = "ALLOW" /\ IsShell(c)
    BY <2>1, <1>2, <1>4 DEF Frame, Pcs, FrameOK
  <2>2. CASE ~(d = "ALLOW" /\ IsShell(c))
    <3>1. applyNonInteractiveMode(d) \in Decisions
          /\ (applyNonInteractiveMode(d) = "ALLOW" => c \in SoundSet)
      BY <2>2, <1>3, <1>4, NonInteractive, SoundOne
    <3>2. f = [Top(i) EXCEPT !.pc = "check", !.decision = applyNonInteractiveMode(d)]
      BY <2>2
    <3> HIDE DEF f, c
    <3>3. f \in Frame /\ f.pc = "check" /\ f.decision = applyNonInteractiveMode(d)
          /\ f.command = c
      BY <1>2, <3>1, <3>2 DEF Frame, Pcs, c
    <3>4. QED
      BY <3>1, <3>3 DEF FrameOK
  <2>3. QED
    BY <2>1, <2>2
<1> HIDE DEF f
<1>7. TopStep(i, f, vetoed[i])
  BY <1>1, <1>2, <1>5, <1>6 DEF TopStep, BusInv, BusTypeOK
<1>8. QED
  BY <1>7, TopInv

LEMMA ParseInv ==
    ASSUME BusInv, NEW i \in Invocations, Parse(i), review' = None
    PROVE  BusInv'
<1> DEFINE parts == Parts[Top(i).command]
           d == applyNonInteractiveMode("ASK_USER")
           f == CASE Len(parts) = 0 -> [Top(i) EXCEPT !.pc = "check", !.decision = d]
                  [] Len(parts) = 1 -> [Top(i) EXCEPT !.pc = "check"]
                  [] Len(parts) > 1 -> [Top(i) EXCEPT !.pc = "parts"]
<1>1. stack[i] # <<>> /\ Top(i).pc = "parse"
  BY DEF Parse, At
<1>2. /\ Top(i) \in Frame /\ Top(i).command \in Commands /\ Top(i).decision = "ALLOW"
      /\ Top(i).next = 1 /\ Top(i).command \in AllowedSet
  BY <1>1, TopFacts DEF FrameOK
<1>3. stack' = SetTop(i, f) /\ UNCHANGED <<policy, phase, command, verdict, vetoed, parsers>>
  BY DEF Parse, Stay
<1>4. d \in Decisions /\ d # "ALLOW"
  BY DEF applyNonInteractiveMode, Decisions
<1>5. Len(parts) \in Nat
  BY <1>2, BusAssumption, LenProperties
<1> HIDE DEF d
<1>6. FrameOK(f, AllowedSet, SoundSet) /\ f.command = Top(i).command
  <2>1. CASE Len(parts) = 0
    <3>1. f = [Top(i) EXCEPT !.pc = "check", !.decision = d]
      BY <2>1
    <3> HIDE DEF f
    <3>2. QED
      BY <3>1, <1>2, <1>4 DEF FrameOK, Frame, Pcs
  <2>2. CASE Len(parts) = 1
    <3>1. f = [Top(i) EXCEPT !.pc = "check"]
      BY <2>2
    <3>2. Top(i).command \in SoundSet
      BY <2>2, <1>2, SoundOne
    <3> HIDE DEF f
    <3>3. QED
      BY <3>1, <3>2, <1>2 DEF FrameOK, Frame, Pcs
  <2>3. CASE Len(parts) > 1
    <3>1. f = [Top(i) EXCEPT !.pc = "parts"]
      BY <2>3
    <3> HIDE DEF f
    <3>2. f \in Frame /\ f.pc = "parts" /\ f.command = Top(i).command /\ f.next = 1
      BY <3>1, <1>2 DEF Frame, Pcs
    <3>3. 1 \in 1..Len(parts) + 1 /\ 1..1 - 1 = {}
      BY <1>5
    <3>4. QED
      BY <3>2, <3>3, <2>3, <1>2 DEF FrameOK
  <2> HIDE DEF f
  <2>4. Len(parts) = 0 \/ Len(parts) = 1 \/ Len(parts) > 1
    <3>1. \A m \in Nat : m = 0 \/ m = 1 \/ m > 1
      OBVIOUS
    <3>2. QED
      BY <1>5, <3>1, Zenon
  <2>5. QED
    BY <2>1, <2>2, <2>3, <2>4, Zenon
<1> HIDE DEF f
<1>7. TopStep(i, f, vetoed[i])
  BY <1>1, <1>2, <1>3, <1>6 DEF TopStep, BusInv, BusTypeOK
<1>8. QED
  BY <1>7, TopInv

LEMMA NextPartInv ==
    ASSUME BusInv, NEW i \in Invocations, NextPart(i), review' = None
    PROVE  BusInv'
<1> DEFINE s == stack[i]
           c == Top(i).command
           parts == Parts[c]
           part == parts[Top(i).next]
<1>1. s # <<>> /\ Top(i).pc = "parts"
  BY DEF NextPart, At
<1>2. /\ StackOK(s, AllowedSet, SoundSet) /\ Len(s) \in Nat /\ Len(s) >= 1
      /\ Top(i) \in Frame /\ c \in Commands
      /\ phase[i] \notin {"new", "allowed"}
  BY <1>1, TopFacts
<1>3. /\ c \in AllowedSet /\ Len(parts) > 1 /\ Top(i).next \in 1..Len(parts) + 1
      /\ Top(i).decision = "ALLOW" => \A j \in 1..Top(i).next - 1 : parts[j] \in SoundSet
  BY <1>1, TopFacts DEF FrameOK
<1>4. parts \in Seq(Commands) /\ Len(parts) \in Nat
  BY <1>2, BusAssumption, LenProperties
<1>5. UNCHANGED <<policy, phase, command, verdict, vetoed, parsers>>
  BY DEF NextPart, Stay
<1>6. CASE Top(i).decision = "DENY" \/ Top(i).next > Len(parts)
  <2> DEFINE f == [Top(i) EXCEPT !.pc = "check", !.next = 1]
  <2>1. stack' = SetTop(i, f)
    BY <1>6 DEF NextPart
  <2>2. f \in Frame /\ f.pc = "check" /\ f.command = c /\ f.decision = Top(i).decision
    BY <1>2 DEF Frame, Pcs
  <2>3. ASSUME Top(i).decision = "ALLOW"
        PROVE  c \in SoundSet
    <3>1. Top(i).next = Len(parts) + 1
      BY <2>3, <1>3, <1>4, <1>6
    <3>2. \A j \in 1..Len(parts) : parts[j] \in SoundSet
      BY <2>3, <3>1, <1>3, <1>4
    <3>3. QED
      BY <3>2, <1>3, SoundAll
  <2> HIDE DEF f
  <2>4. TopStep(i, f, vetoed[i])
    BY <1>1, <1>5, <2>1, <2>2, <2>3 DEF TopStep, FrameOK, BusInv, BusTypeOK
  <2>5. QED
    BY <2>4, TopInv
<1>7. CASE /\ ~(Top(i).decision = "DENY" \/ Top(i).next > Len(parts))
           /\ \E k \in DOMAIN s : s[k].command = part
  <2> DEFINE f == [Top(i) EXCEPT !.pc = "spin"]
  <2>1. stack' = SetTop(i, f)
    BY <1>7 DEF NextPart
  <2>2. f \in Frame /\ f.pc = "spin" /\ f.command = c /\ f.decision = Top(i).decision
    BY <1>2 DEF Frame, Pcs
  <2> HIDE DEF f
  <2>3. TopStep(i, f, vetoed[i])
    BY <1>1, <1>5, <2>1, <2>2 DEF TopStep, FrameOK, BusInv, BusTypeOK
  <2>4. QED
    BY <2>3, TopInv
<1>8. CASE /\ ~(Top(i).decision = "DENY" \/ Top(i).next > Len(parts))
           /\ ~(\E k \in DOMAIN s : s[k].command = part)
  <2> DEFINE f == CallOf(part)
             t == Append(s, f)
  <2>1. stack' = [stack EXCEPT ![i] = t]
    BY <1>8 DEF NextPart
  <2>2. part \in Commands /\ Top(i).next <= Len(parts)
    BY <1>3, <1>4, <1>8, ElementOfSeq
  <2>3. FrameOK(f, AllowedSet, SoundSet) /\ f.command = part
    BY <2>2 DEF CallOf, FrameOK, Frame, Pcs, Decisions
  <2> HIDE DEF f
  <2>4. /\ StackOK(t, AllowedSet, SoundSet)
        /\ Len(t) = Len(s) + 1 /\ t # <<>> /\ t[1].command = s[1].command
        /\ \A k \in 1..Len(s) : t[k] = s[k]
    BY <1>1, <1>2, <2>2, <2>3, Pushed DEF Top
  <2> HIDE DEF t
  <2>5. EntryOK(s, command[i], vetoed[i], phase[i], AllowedSet, SoundSet)
    BY DEF BusInv
  <2>6. EntryOK(t, command[i], vetoed[i], phase[i], AllowedSet, SoundSet)
    BY <1>1, <1>2, <2>4, <2>5 DEF EntryOK
  <2>7. t \in Seq(Frame)
    BY <2>4 DEF StackOK
  <2>8. OnlyChanges(i) /\ stack'[i] = t /\ vetoed'[i] = vetoed[i] /\ phase'[i] = phase[i]
    BY <1>5, <2>1, <2>7 DEF BusInv, BusTypeOK, OnlyChanges
  <2>9. QED
    BY <2>6, <2>8, OneInv
<1>9. QED
  BY <1>6, <1>7, <1>8

LEMMA DecideInv ==
    ASSUME BusInv, NEW i \in Invocations, Decide(i), review' = None
    PROVE  BusInv'
<1> DEFINE left == {k \in Top(i).next..Len(Checkers) : Top(i).command \in Checkers[k]}
           d == applyNonInteractiveMode(Top(i).decision)
<1>1. stack[i] # <<>> /\ Top(i).pc = "check"
  BY DEF Decide, At
<1>2. Top(i) \in Frame /\ Top(i).decision \in Decisions /\ Top(i).next \in Nat
      /\ FrameOK(Top(i), AllowedSet, SoundSet)
  BY <1>1, TopFacts DEF Frame
<1>3. vetoed \in [Invocations -> BOOLEAN]
  BY DEF BusInv, BusTypeOK
<1>4. CASE Top(i).decision = "DENY" \/ left = {}
  <2>1. Return(i, d) /\ vetoed' = vetoed
    BY <1>4 DEF Decide
  <2>2. d \in Decisions /\ (d = "ALLOW" => Top(i).decision = "ALLOW")
    BY <1>2, NonInteractive
  <2> HIDE DEF d
  <2>3. ReturnStep(i, d, vetoed[i])
    BY <1>1, <1>3, <2>1, <2>2 DEF ReturnStep
  <2>4. QED
    BY <2>3, ReturnInv
<1>5. CASE ~(Top(i).decision = "DENY" \/ left = {})
  <2> DEFINE f == [Top(i) EXCEPT !.pc = "checker", !.next = Min(left)]
  <2>1. stack' = SetTop(i, f) /\ UNCHANGED <<policy, phase, command, verdict, vetoed, parsers>>
    BY <1>5 DEF Decide, Stay
  <2>2. Min(left) \in Nat
    <3>1. Len(Checkers) \in Nat
      BY BusAssumption, LenProperties
    <3>2. left \in SUBSET Nat /\ left # {}
      BY <3>1, <1>2, <1>5
    <3> HIDE DEF left
    <3>3. QED
      BY <3>2, MinFacts
  <2> HIDE DEF left
  <2>3. /\ f \in Frame /\ f.pc = "checker" /\ f.command = Top(i).command
        /\ f.decision = Top(i).decision
    BY <1>2, <2>2 DEF Frame, Pcs
  <2> HIDE DEF f
  <2>4. FrameOK(f, AllowedSet, SoundSet)
    BY <1>1, <1>2, <2>3 DEF FrameOK
  <2>5. TopStep(i, f, vetoed[i])
    BY <1>1, <1>3, <2>1, <2>3, <2>4 DEF TopStep
  <2>6. QED
    BY <2>5, TopInv
<1>6. QED
  BY <1>4, <1>5

LEMMA CheckerEndsInv ==
    ASSUME BusInv, NEW i \in Invocations, CheckerEnds(i), review' = None
    PROVE  BusInv'
<1>1. stack[i] # <<>> /\ Top(i).pc = "checker"
  BY DEF CheckerEnds, At
<1>2. Top(i) \in Frame /\ Top(i).decision \in Decisions /\ Top(i).next \in Nat
      /\ FrameOK(Top(i), AllowedSet, SoundSet)
  BY <1>1, TopFacts DEF Frame
<1>3. vetoed \in [Invocations -> BOOLEAN]
  BY DEF BusInv, BusTypeOK
<1>4. PICK d \in Decisions :
         /\ vetoed' = [vetoed EXCEPT ![i] = @ \/ d # "ALLOW"]
         /\ IF d = "DENY" THEN Return(i, "DENY")
            ELSE /\ stack' = SetTop(i, [Top(i) EXCEPT !.pc = "check",
                                          !.next = @ + 1,
                                          !.decision = IF d = "ASK_USER" THEN d ELSE @])
                 /\ UNCHANGED <<policy, phase, command, verdict, parsers>>
  BY DEF CheckerEnds
<1> DEFINE v == vetoed[i] \/ d # "ALLOW"
<1>5. v \in BOOLEAN /\ vetoed' = [vetoed EXCEPT ![i] = v]
  BY <1>3, <1>4
<1>6. CASE d = "DENY"
  <2>1. Return(i, d)
    BY <1>4, <1>6
  <2>2. ReturnStep(i, d, v)
    BY <1>1, <1>5, <1>6, <2>1 DEF ReturnStep
  <2> HIDE DEF v
  <2>3. QED
    BY <2>2, ReturnInv
<1>7. CASE d # "DENY"
  <2> DEFINE new == IF d = "ASK_USER" THEN d ELSE Top(i).decision
             next == Top(i).next + 1
             f == [Top(i) EXCEPT !.pc = "check", !.next = next, !.decision = new]
  <2>1. stack' = SetTop(i, f) /\ UNCHANGED <<policy, phase, command, verdict, parsers>>
    BY <1>4, <1>7
  <2>2. /\ f \in Frame /\ f.pc = "check" /\ f.command = Top(i).command
        /\ f.decision = IF d = "ASK_USER" THEN d ELSE Top(i).decision
    <3>1. new \in Decisions /\ next \in Nat
      BY <1>2
    <3> HIDE DEF new, next
    <3>2. f \in Frame /\ f.pc = "check" /\ f.command = Top(i).command /\ f.decision = new
      BY <3>1, <1>2 DEF Frame, Pcs
    <3>3. QED
      BY <3>2 DEF new
  <2> HIDE DEF f
  <2>3. FrameOK(f, AllowedSet, SoundSet)
    BY <1>1, <1>2, <2>2 DEF FrameOK
  <2>4. v => f.decision # "ALLOW" \/ (vetoed[i] /\ Top(i).decision = "ALLOW")
    BY <1>7, <2>2 DEF Decisions
  <2> HIDE DEF v
  <2>5. TopStep(i, f, v)
    BY <1>1, <1>5, <2>1, <2>2, <2>3, <2>4 DEF TopStep
  <2>6. QED
    BY <2>5, TopInv
<1>8. QED
  BY <1>6, <1>7

LEMMA RequestInv ==
    ASSUME BusInv, NEW i \in Invocations, Request(i), review' = None
    PROVE  BusInv'
<1>1. phase[i] = "new" /\ UNCHANGED <<policy, command, verdict, vetoed, parsers>>
  BY DEF Request
<1>2. /\ stack[i] = <<>> /\ vetoed[i] = FALSE /\ command[i] \in Commands
      /\ StackOK(stack[i], AllowedSet, SoundSet)
  BY <1>1 DEF BusInv, BusTypeOK, EntryOK
<1>3. CASE phase' = [phase EXCEPT ![i] = "denied"] /\ UNCHANGED stack
  <2>1. OnlyChanges(i) /\ stack'[i] = stack[i] /\ vetoed'[i] = FALSE /\ phase'[i] = "denied"
    BY <1>1, <1>2, <1>3 DEF BusInv, BusTypeOK, OnlyChanges, Phases
  <2>2. EntryOK(stack[i], command[i], FALSE, "denied", AllowedSet, SoundSet)
    BY <1>2 DEF EntryOK
  <2>3. QED
    BY <2>1, <2>2, OneInv
<1>4. CASE /\ phase' = [phase EXCEPT ![i] = "waiting"]
           /\ stack' = [stack EXCEPT ![i] = <<CallOf(command[i])>>]
  <2> DEFINE f == CallOf(command[i])
             t == <<f>>
  <2>1. FrameOK(f, AllowedSet, SoundSet) /\ f.command = command[i]
    BY <1>2 DEF CallOf, FrameOK, Frame, Pcs, Decisions
  <2> HIDE DEF f
  <2>2. t \in Seq(Frame) /\ Len(t) = 1 /\ t[1] = f /\ t # <<>>
    BY <2>1 DEF FrameOK
  <2>3. stack' = [stack EXCEPT ![i] = t]
    BY <1>4 DEF f
  <2> HIDE DEF t
  <2>4. OnlyChanges(i) /\ stack'[i] = t /\ vetoed'[i] = FALSE /\ phase'[i] = "waiting"
    BY <1>1, <1>2, <1>4, <2>2, <2>3 DEF BusInv, BusTypeOK, OnlyChanges, Phases
  <2>5. StackOK(t, AllowedSet, SoundSet)
    BY <2>1, <2>2 DEF StackOK
  <2>6. EntryOK(t, command[i], FALSE, "waiting", AllowedSet, SoundSet)
    BY <2>1, <2>2, <2>5 DEF EntryOK
  <2>7. QED
    BY <2>4, <2>6, OneInv
<1>5. QED
  BY <1>3, <1>4 DEF Request

\* The phase changes otherwise than to the engine's decision.
LEMMA PhaseInv ==
    ASSUME BusInv, NEW i \in Invocations,
           NEW ph \in Phases \ {"new", "allowed"}, phase' = [phase EXCEPT ![i] = ph],
           UNCHANGED <<policy, command, stack, verdict, vetoed, parsers>>,
           review' # None => review'.action \in ActionProfile /\ review'.level \in Levels
    PROVE  BusInv'
<1>1. OnlyChanges(i) /\ stack'[i] = stack[i] /\ vetoed'[i] = vetoed[i] /\ phase'[i] = ph
  BY DEF BusInv, BusTypeOK, OnlyChanges
<1>2. EntryOK(stack[i], command[i], vetoed[i], phase[i], AllowedSet, SoundSet)
  BY DEF BusInv
<1>3. EntryOK(stack[i], command[i], vetoed[i], ph, AllowedSet, SoundSet)
  BY <1>2 DEF EntryOK
<1>4. QED
  BY <1>1, <1>3, OneInv

\* What a review notes.
LEMMA ReviewFacts ==
    ASSUME BusInv, NEW i \in Invocations, Review(i), review' # None
    PROVE  /\ review'.action \in ActionProfile /\ review'.level \in Levels
           /\ Floors(review'.action, policy.security, review'.level)
<1>0. PICK p \in ActionsOf[command[i]] :
         \E level \in ReviewLevels(command[i], p) :
            review' = [action |-> p, level |-> level]
  BY DEF Review
<1>1. PICK level \in ReviewLevels(command[i], p) :
         review' = [action |-> p, level |-> level]
  BY <1>0
<1>2. command[i] \in Commands /\ policy.security \in Securities
  BY DEF BusInv, BusTypeOK, PolicySettings
<1>3. p \in ActionProfile
  BY <1>1, <1>2, BusAssumption
<1> DEFINE minimum == computeMinimumReviewLevel(p, policy.security)
<1>4. minimum \in Levels /\ Floors(p, policy.security, minimum)
  BY <1>2, <1>3, FloorsMinimum
<1>5. \/ level = minimum
      \/ \E brain : level = applyBrainAuthority(minimum, policy.authority, brain)
  BY <1>1 DEF ReviewLevels
<1>6. level \in Levels /\ Floors(p, policy.security, level)
  <2>1. CASE level = minimum
    BY <1>4, <2>1
  <2>2. CASE \E brain : level = applyBrainAuthority(minimum, policy.authority, brain)
    <3>1. PICK brain : level = applyBrainAuthority(minimum, policy.authority, brain)
      BY <2>2
    <3>2. Floors(p, policy.security, level)
      BY <3>1, <1>2, <1>3, FloorsAlways
    <3> HIDE DEF minimum
    <3>3. level \in Levels
      BY <3>1, <1>4, NeverLowers
    <3>4. QED
      BY <3>2, <3>3
  <2>3. QED
    BY <1>5, <2>1, <2>2
<1>7. review'.action = p /\ review'.level = level
  BY <1>1
<1>8. QED
  BY <1>3, <1>6, <1>7

LEMMA ReviewInv ==
    ASSUME BusInv, NEW i \in Invocations, Review(i)
    PROVE  BusInv'
<1>1. PICK ph \in {"free", "refused", "prompt"} : phase' = [phase EXCEPT ![i] = ph]
  BY DEF Review
<1>2. ph \in Phases \ {"new", "allowed"}
  BY <1>1 DEF Phases
<1>3. UNCHANGED <<policy, command, stack, verdict, vetoed, parsers>>
  BY DEF Review
<1>4. review' # None => review'.action \in ActionProfile /\ review'.level \in Levels
  BY ReviewFacts
<1>5. QED
  BY <1>1, <1>2, <1>3, <1>4, PhaseInv

LEMMA AnswerInv ==
    ASSUME BusInv, NEW i \in Invocations, Answer(i), review' = None
    PROVE  BusInv'
<1>1. PICK outcome \in {"once", "session", "save", "cancel"} :
         /\ phase' = [phase EXCEPT ![i] = IF outcome = "cancel" THEN "refused" ELSE "approved"]
         /\ IF outcome \in {"session", "save"}
            THEN policy' = [policy EXCEPT !.rules = addRule(@, AlwaysRule(command[i], outcome))]
            ELSE UNCHANGED policy
  BY DEF Answer
<1>2. UNCHANGED <<command, stack, verdict, vetoed, parsers>>
  BY DEF Answer
<1>3. policy \in PolicySettings /\ command[i] \in Commands
  BY DEF BusInv, BusTypeOK
<1> DEFINE rule == AlwaysRule(command[i], outcome)
<1>4. rule \in Rules /\ rule.decision = "ALLOW"
  <2>1. Extends[command[i]] \in SUBSET Commands
    BY <1>3, BusAssumption
  <2>2. QED
    BY <2>1 DEF AlwaysRule, Rules, Decisions
<1> HIDE DEF rule
<1>5. /\ policy' \in PolicySettings
      /\ \/ policy' = policy
         \/ policy'.rules = addRule(policy.rules, rule)
  <2>1. CASE outcome \notin {"session", "save"}
    BY <1>1, <1>3, <2>1
  <2>2. CASE outcome \in {"session", "save"}
    <3> DEFINE added == addRule(policy.rules, rule)
    <3>1. added \in Seq(Rules) /\ Sorted(added)
      BY <1>3, <1>4, AddRuleFacts DEF PolicySettings
    <3>2. policy' = [policy EXCEPT !.rules = added]
      BY <1>1, <2>2 DEF rule
    <3> HIDE DEF added
    <3>3. policy' \in PolicySettings /\ policy'.rules = added
      BY <1>3, <3>1, <3>2 DEF PolicySettings
    <3>4. QED
      BY <3>3 DEF added
  <2>3. QED
    BY <2>1, <2>2
<1>6. AllowedSet \subseteq AllowedSet' /\ SoundSet \subseteq SoundSet'
  BY <1>3, <1>4, <1>5, StillAllowed
<1>7. phase' \in [Invocations -> Phases]
      /\ \A j \in Invocations : phase'[j] # phase[j] => phase'[j] \notin {"new", "allowed"}
  BY <1>1 DEF BusInv, BusTypeOK, Phases
<1>8. BusTypeOK'
  BY <1>2, <1>5, <1>7 DEF BusInv, BusTypeOK
<1>9. ASSUME NEW j \in Invocations
      PROVE  EntryOK(stack[j], command[j], vetoed[j], phase'[j], AllowedSet', SoundSet')
  <2>1. EntryOK(stack[j], command[j], vetoed[j], phase[j], AllowedSet', SoundSet')
    BY <1>6, Grown DEF BusInv
  <2>2. QED
    BY <1>7, <2>1 DEF EntryOK
<1>10. QED
  BY <1>2, <1>8, <1>9 DEF BusInv

LEMMA InitInv == BusInit => BusInv
<1> SUFFICES ASSUME BusInit PROVE BusInv
  OBVIOUS
<1>1. BusTypeOK
  <2>1. policy \in PolicySettings
    BY BusAssumption DEF BusInit
  <2>2. \A i \in Invocations : phase[i] \in Phases /\ stack[i] \in Seq(Frame)
    BY DEF BusInit, Phases
  <2>3. /\ phase \in [Invocations -> Phases] /\ command \in [Invocations -> Commands]
        /\ stack \in [Invocations -> Seq(Frame)]
    BY <2>2 DEF BusInit
  <2>4. /\ verdict \in [Invocations -> Decisions \cup {None}]
        /\ vetoed \in [Invocations -> BOOLEAN]
        /\ parsers \in BOOLEAN /\ review = None
    BY DEF BusInit
  <2>5. QED
    BY <2>1, <2>3, <2>4 DEF BusTypeOK
<1>2. StackOK(<<>>, AllowedSet, SoundSet)
  BY DEF StackOK
<1>3. ASSUME NEW i \in Invocations
      PROVE  EntryOK(stack[i], command[i], vetoed[i], phase[i], AllowedSet, SoundSet)
  BY <1>2 DEF EntryOK, BusInit
<1>4. QED
  BY <1>1, <1>3 DEF BusInv

LEMMA NextInv == BusInv /\ [BusNext]_busVars => BusInv'
<1> SUFFICES ASSUME BusInv, [BusNext]_busVars PROVE BusInv'
  OBVIOUS
<1>1. ASSUME NEW i \in Invocations, Continuation(i), review' = None
      PROVE  BusInv'
  BY <1>1, MatchInv, ParseInv, NextPartInv, DecideInv DEF Continuation
<1>2. ASSUME NEW i \in Invocations, CheckerEnds(i), review' = None
      PROVE  BusInv'
  BY <1>2, CheckerEndsInv
<1>3. ASSUME NEW i \in Invocations, Timeout(i) \/ Abort(i), review' = None
      PROVE  BusInv'
  <2>1. PICK ph \in {"asked", "denied"} : phase' = [phase EXCEPT ![i] = ph]
    BY <1>3 DEF Timeout, Abort
  <2>2. UNCHANGED <<policy, command, stack, verdict, vetoed, parsers>>
    BY <1>3 DEF Timeout, Abort
  <2>3. ph \in Phases \ {"new", "allowed"}
    BY <2>1 DEF Phases
  <2>4. QED
    BY <1>3, <2>1, <2>2, <2>3, PhaseInv
<1>4. ASSUME NEW i \in Invocations, Request(i), review' = None
      PROVE  BusInv'
  BY <1>4, RequestInv
<1>5. ASSUME NEW i \in Invocations, Answer(i), review' = None
      PROVE  BusInv'
  BY <1>5, AnswerInv
<1>6. ASSUME NEW i \in Invocations, Review(i)
      PROVE  BusInv'
  BY <1>6, ReviewInv
<1>7. CASE ParsersReady /\ review' = None
  <2>1. BusTypeOK'
    BY <1>7 DEF BusInv, BusTypeOK, ParsersReady
  <2>2. AllowedSet' = AllowedSet /\ SoundSet' = SoundSet
    BY <1>7, SamePolicy DEF ParsersReady
  <2>3. QED
    BY <1>7, <2>1, <2>2 DEF BusInv, ParsersReady
<1>8. CASE UNCHANGED busVars
  <2>1. AllowedSet' = AllowedSet /\ SoundSet' = SoundSet
    BY <1>8, SamePolicy DEF busVars
  <2>2. BusTypeOK'
    BY <1>8 DEF BusInv, BusTypeOK, busVars
  <2>3. QED
    BY <1>8, <2>1, <2>2 DEF BusInv, busVars
<1>9. QED
  BY <1>1, <1>2, <1>3, <1>4, <1>5, <1>6, <1>7, <1>8 DEF BusNext, Event

\* Throughout, a check's stack holds what its decisions so far justify: what it may
\* allow the rules allow, and a denial or an objection is not forgotten
\* (policy-engine.ts 165-263).
THEOREM BusInvariant == BusSpec => []BusInv
  BY InitInv, NextInv, PTL DEF BusSpec

\* An invocation that runs unasked may do so by the rules, down to the last part of a
\* compound command, and no checker objected, whatever rules are added and whatever
\* times out while it is checked (policy-engine.ts 165-206, 233-263): for any rules,
\* commands, nesting of parts, checkers and number of invocations.
THEOREM AllowAlwaysJustified == BusSpec => []AllowJustified
<1>1. BusInv => AllowJustified
  <2> SUFFICES ASSUME BusInv, NEW i \in Invocations, phase[i] = "allowed"
               PROVE  /\ ~vetoed[i]
                      /\ \E commands \in SUBSET Commands :
                            command[i] \in commands /\ Justified(commands)
    BY DEF AllowJustified
  <2>1. ~vetoed[i] /\ command[i] \in SoundSet
    BY DEF BusInv, EntryOK
  <2>2. QED
    BY <2>1 DEF SoundSet
<1>2. QED
  BY <1>1, BusInvariant, PTL

\* A review notes a level that keeps the floors and that no stricter profile undercuts.
LEMMA NextReview ==
    BusInv /\ FloorsHold /\ StricterAsksMore /\ [BusNext]_busVars
    => FloorsHold' /\ StricterAsksMore'
<1> SUFFICES ASSUME BusInv, FloorsHold, StricterAsksMore, [BusNext]_busVars
             PROVE  FloorsHold' /\ StricterAsksMore'
  OBVIOUS
<1>1. CASE UNCHANGED busVars
  BY <1>1 DEF busVars, FloorsHold, StricterAsksMore
<1>2. CASE review' = None
  BY <1>2 DEF FloorsHold, StricterAsksMore
<1>3. ASSUME NEW i \in Invocations, Review(i), review' # None
      PROVE  FloorsHold' /\ StricterAsksMore'
  <2>1. /\ review'.action \in ActionProfile
        /\ Floors(review'.action, policy.security, review'.level)
    BY <1>3, ReviewFacts
  <2>2. Stricter(review'.action)
    BY <2>1, StricterAlways
  <2>3. policy' = policy
    BY <1>3 DEF Review
  <2>4. QED
    BY <2>1, <2>2, <2>3 DEF FloorsHold, StricterAsksMore
<1>4. QED
  BY <1>1, <1>2, <1>3 DEF BusNext

LEMMA InitReview == BusInit => FloorsHold /\ StricterAsksMore
  BY DEF BusInit, FloorsHold, StricterAsksMore

\* Whatever is reviewed, the level is not below the floors of every profile: for every
\* action profile, security profile, authority and assessment of the brain
\* (computeMinimumReviewLevel, applyBrainAuthority).
THEOREM FloorsAlwaysHold == BusSpec => []FloorsHold
  BY InitInv, InitReview, NextInv, NextReview, PTL DEF BusSpec

\* Whatever is reviewed, a stricter security profile would not ask for less: for every
\* action profile (computeRisk and the three tables it chooses between).
THEOREM StricterAlwaysAsksMore == BusSpec => []StricterAsksMore
  BY InitInv, InitReview, NextInv, NextReview, PTL DEF BusSpec

=============================================================================
