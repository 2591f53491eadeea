--------------------------- MODULE DriverRegistry ---------------------------
(***************************************************************************)
(* The list of drivers (DriverRegistry) and the choice among them: every   *)
(* entry scores itself against what an instrument says of itself, and the  *)
(* highest score gets it.  The drivers that are built in and the Python    *)
(* plugins compete on one scale.                                           *)
(*                                                                         *)
(* An identity is [manufacturer, model].  A built-in driver claims models  *)
(* by name or by prefix.  A plugin claims them by regular expressions, of  *)
(* which only what they find matters: the models they match somewhere, and *)
(* those they match as a whole.                                            *)
(***************************************************************************)
EXTENDS Ordering, Sequences, FiniteSetsExt, SequencesExt

CONSTANTS
  Empty,    \* the empty string
  BuiltIn   \* registerBuiltInDrivers(): [id, origin = Empty, vendor, patterns]

NoIdentity == [manufacturer |-> Empty, model |-> Empty]
NoDriver == [id |-> Empty, origin |-> Empty]

VendorOnly == 30
ModelFamily == 70
ExactModel == 100

\* makeMatcher(): a pattern is [family, models].
MatcherScore(driver, identity) ==
  IF identity.manufacturer # driver.vendor THEN 0
  ELSE Max({VendorOnly} \cup
           {IF p.family THEN ModelFamily ELSE ExactModel :
              p \in {q \in Range(driver.patterns) : identity.model \in q.models}})

\* Mutant: a family that covers the whole name counts as the name.
WholeScore(expression, model) == IF model \in expression.whole THEN ExactModel ELSE ModelFamily

\* An expression with metacharacters is a family, however much of the name it covers.
ExpressionScore(expression, model) ==
  IF expression.literal /\ model \in expression.whole THEN ExactModel ELSE ModelFamily

\* scoreManifest(): without a vendor, every manufacturer will do.
ManifestScore(manifest, identity) ==
  IF manifest.vendor \notin {Empty, identity.manufacturer} THEN 0
  ELSE Max({IF manifest.vendor = Empty THEN 0 ELSE VendorOnly} \cup
           {ExpressionScore(e, identity.model) :
              e \in {x \in Range(manifest.models) : identity.model \in x.found}})

Score(entry, identity) ==
  IF entry.origin = Empty THEN MatcherScore(entry, identity)
                          ELSE ManifestScore(entry.manifest, identity)

\* registerDriver(): an entry of the same id is replaced where it stands.
Registered(list, entry) ==
  IF \E i \in DOMAIN list : list[i].id = entry.id
  THEN [i \in DOMAIN list |-> IF list[i].id = entry.id THEN entry ELSE list[i]]
  ELSE Append(list, entry)

\* create().
Named(list, id) ==
  IF \E i \in DOMAIN list : list[i].id = id
  THEN list[CHOOSE i \in DOMAIN list : list[i].id = id]
  ELSE NoDriver

\* match(): the positions of the drivers that claim the identity, best first.
Match(list, identity) ==
  LET claimants == {i \in DOMAIN list : Score(list[i], identity) > 0}
      Claim(i) == Score(list[i], identity) IN
  Ranked(claimants, {p \in claimants \X claimants :
                       \/ Claim(p[1]) > Claim(p[2])
                       \/ Claim(p[1]) = Claim(p[2]) /\ p[1] < p[2]})

\* Mutant: of two equal claims the older is taken.
FirstMatch(list, identity) ==
  LET matches == Match(list, identity) IN
  IF matches = <<>> THEN NoDriver ELSE list[matches[1]]

\* createBestMatch(): two equal claims are left to the operator.
BestMatch(list, identity) ==
  LET matches == Match(list, identity)
      Claim(n) == Score(list[matches[n]], identity) IN
  IF matches = <<>> \/ (Len(matches) > 1 /\ Claim(1) = Claim(2))
  THEN NoDriver ELSE list[matches[1]]

=============================================================================
