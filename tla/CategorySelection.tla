--------------------------- MODULE CategorySelection ---------------------------
(***************************************************************************)
(* The deterministic tier of the classification: keyword matching and the  *)
(* decision table of one category (app/domain/filters.py), the choice      *)
(* between categories (classification.py) and what process_job makes of it *)
(* (job_processor.py).  Each job runs through once.                        *)
(*                                                                         *)
(* A text is a sequence of normalized words, a keyword a short one.  A     *)
(* matched keyword is blanked out.  Scores are ten times the code's, so    *)
(* that they are integers.                                                 *)
(***************************************************************************)
EXTENDS Integers, Sequences, SequencesExt, FiniteSets

CONSTANTS
  Words, Blank,
  Width,        \* [Words -> Nat]: letters of a word
  Clitics,      \* [Words -> Seq(Words)]: a word with an Arabic prefix
  Order,        \* the deterministic categories as the registry lists them
  Profile,      \* [categories -> keyword tiers and policy]
  MaxText, MaxTitle,  \* MAX_CLASSIFY_TEXT_CHARS and _TITLE_CHARS, in words
  Titles, Descriptions,  \* the texts a job may have
  None

Categories == ToSet(Order)

\* A loop over a list: the value it has computed after each number of entries,
\* and after all of them.
Passes(Step(_, _), base, s) ==
  LET after[n \in 0..Len(s)] == IF n = 0 THEN base ELSE Step(after[n - 1], s[n])
  IN  after

Pass(Step(_, _), base, s) == Passes(Step, base, s)[Len(s)]

KeywordWidth(keyword) == Pass(LAMBDA sum, word : sum + Width[word] + 1, 0, keyword)

\* _flatten: each tier is sorted longest-first.
LongestFirst(tier) ==
  \A i, j \in DOMAIN tier :
    i < j => KeywordWidth(tier[i].keyword) >= KeywordWidth(tier[j].keyword)

Items == [keyword : Seq(Words) \ {<< >>}, weight : Nat]

Tiers(profile) == {profile.core, profile.supporting, profile.negative, profile.against}

ASSUME SelectionAssumption ==
  /\ Blank \notin Words /\ None \notin Categories
  /\ Order \in Seq(Categories) /\ IsInjective(Order)
  /\ Clitics \in [Words -> Seq(Words)]
  /\ Titles \cup Descriptions \subseteq Seq(Words)
  /\ {MaxText, MaxTitle} \subseteq Nat
  /\ \A c \in Categories : \A tier \in Tiers(Profile[c]) :
       tier \in Seq(Items) /\ LongestFirst(tier)

VARIABLES
  title, text,  \* the bounded input
  recheck,      \* the row comes back from the guard fallback
  results,      \* [Categories -> Result] once classified
  pick,         \* the category the deterministic tier selects
  stage         \* where the job is; in the end, how it is decided

vars == <<title, text, recheck, results, pick, stage>>

Decisions == {"notify_directly", "needs_gemini", "reject"}
Stages    == {"new", "classified", "selected",
              "rejected", "arbitration", "keyword_direct", "keyword_direct_tiebreak"}

-----------------------------------------------------------------------------
(* Keywords *)

\* A keyword of several words is also found with a prefix on the first.
Forms(keyword) ==
  IF Len(keyword) = 1
  THEN <<keyword>>
  ELSE <<keyword>> \o [i \in DOMAIN Clitics[Head(keyword)] |->
                         <<Clitics[Head(keyword)][i]>> \o Tail(keyword)]

OccursAt(words, form, i) ==
  /\ i + Len(form) <= Len(words) + 1
  /\ SubSeq(words, i, i + Len(form) - 1) = form

Occurs(words, form) == \E i \in DOMAIN words : OccursAt(words, form, i)

Matches(words, keyword) == \E i \in DOMAIN Forms(keyword) : Occurs(words, Forms(keyword)[i])

\* The first form that occurs, where it first occurs.
FirstForm(words, keyword) ==
  SelectInSeq(Forms(keyword), LAMBDA form : Occurs(words, form))

Place(words, keyword) ==
  LET form == Forms(keyword)[FirstForm(words, keyword)]
  IN  CHOOSE i \in DOMAIN words :
        /\ OccursAt(words, form, i)
        /\ \A j \in 1..(i - 1) : ~OccursAt(words, form, j)

\* Mutant: a match takes the rest of the text with it.
MaskRest(words, keyword) ==
  [j \in DOMAIN words |-> IF j >= Place(words, keyword) THEN Blank ELSE words[j]]

Mask(words, keyword) ==
  LET i == Place(words, keyword)
  IN  [j \in DOMAIN words |-> IF j \in i..(i + Len(keyword) - 1) THEN Blank ELSE words[j]]

\* Mutant: a matched phrase leaves its words to shorter keywords.
MatchUnmasked(words, tier) ==
  SelectSeq(tier, LAMBDA item : Matches(words, item.keyword))

\* What is left of the text, and the keywords it was found to have.
Find(acc, item) ==
  IF Matches(acc.left, item.keyword)
  THEN [left |-> Mask(acc.left, item.keyword), hits |-> Append(acc.hits, item)]
  ELSE acc

MatchTier(words, tier) == Pass(Find, [left |-> words, hits |-> << >>], tier).hits

HasHit(words, tier) == \E i \in DOMAIN tier : Matches(words, tier[i].keyword)

Weight(hits) == Pass(LAMBDA sum, item : sum + item.weight, 0, hits)

-----------------------------------------------------------------------------
(* One category *)

\* What is found of a category in the text and in the title.
Evidence(p) ==
  LET core == MatchTier(text, p.core)
  IN [hard      |-> \E keyword \in p.hard : Matches(text, keyword),
      hits      |-> core,
      negative  |-> MatchTier(text, p.negative) # << >>,
      support   |-> Weight(MatchTier(text, p.supporting)),
      against   |-> Weight(MatchTier(text, p.against)),
      titleCore |-> HasHit(title, p.core),
      titleNegative |-> HasHit(title, p.negative)]

\* The decision table: the first rule that fires.
Decision(p, e) ==
  CASE e.hard -> "reject"
    [] ~e.hard /\ e.titleCore /\ ~e.titleNegative ->
         IF e.negative \/ e.against >= p.titleAgainst
         THEN "needs_gemini" ELSE "notify_directly"
    [] ~e.hard /\ ~e.titleCore /\ e.titleNegative /\ e.hits = << >> -> "reject"
    [] ~e.hard /\ ~(e.titleCore /\ ~e.titleNegative) /\ e.hits # << >> ->
         IF \/ e.negative
            \/ Len(e.hits) = 1 /\ e.support < p.loneSupport
            \/ e.against >= p.downgrade
         THEN "needs_gemini" ELSE "notify_directly"
    [] OTHER ->
         IF ~e.negative /\ e.support >= p.minSupport
         THEN "needs_gemini" ELSE "reject"

\* keyword_filter: the evidence with the decision it leads to.
KeywordFilter(p) ==
  LET e == Evidence(p) IN [evidence |-> e, decision |-> Decision(p, e)]

\* category_select_score: 12 for the title, 8 per core hit, 25 off for a core
\* negative, supporting weights at 1 and 0.8.
Score(e) ==
  (IF e.titleCore THEN 120 ELSE 0) + 80 * Len(e.hits) + 10 * e.support
    - (IF e.negative THEN 250 ELSE 0) - 8 * e.against

Threshold(decision) == IF decision = "notify_directly" THEN 100 ELSE 200
Margin == 10

-----------------------------------------------------------------------------
(* Between the categories *)

Deciding(decision) ==
  Pass(LAMBDA chosen, c : IF results[c].decision = decision THEN Append(chosen, c) ELSE chosen,
       << >>, Order)

Direct    == Deciding("notify_directly")
Ambiguous == Deciding("needs_gemini")
Value(c)  == Score(results[c].evidence)

\* Mutant: the old leader is forgotten when a better candidate comes.
ChallengeForgetful(best, c) ==
  CASE best.top = None \/ (best.top # None /\ Value(c) > Value(best.top)) ->
         [best EXCEPT !.top = c]
    [] OTHER -> [best EXCEPT !.second =
                   IF @ = None THEN c ELSE IF Value(c) > Value(@) THEN c ELSE @]

\* One step of the pass that keeps the two best candidates.
Challenge(best, c) ==
  IF best.top = None THEN [top |-> c, second |-> None]
  ELSE IF Value(c) > Value(best.top) THEN [top |-> c, second |-> best.top]
  ELSE IF best.second = None THEN [best EXCEPT !.second = c]
  ELSE IF Value(c) > Value(best.second) THEN [best EXCEPT !.second = c]
  ELSE best

Best == Pass(Challenge, [top |-> None, second |-> None], Direct \o Ambiguous)

Clears(best) ==
  /\ Value(best.top) >= Threshold(results[best.top].decision)
  /\ \/ best.second = None
     \/ Value(best.top) - Value(best.second) >= Margin

SelectCategory ==
  IF Len(Direct) + Len(Ambiguous) = 1 THEN Head(Direct \o Ambiguous)
  ELSE IF Direct \o Ambiguous # << >> /\ Clears(Best) THEN Best.top
  ELSE None

\* Mutant: only ambiguous candidates are arbitrated.
NeedsLLM == pick = None /\ Ambiguous # << >>

NeedsArbitration == pick = None /\ (Ambiguous # << >> \/ Len(Direct) > 1)

-----------------------------------------------------------------------------
(* The job *)

\* Mutant: a long description is classified in full.
WholeInput(words, bound) == words

BoundedInput(words, bound) == SubSeq(words, 1, IF Len(words) < bound THEN Len(words) ELSE bound)

NoEvidence ==
  [hard |-> FALSE, hits |-> << >>, negative |-> FALSE, support |-> 0, against |-> 0,
   titleCore |-> FALSE, titleNegative |-> FALSE]

Init ==
  /\ \E t \in Titles, d \in Descriptions :
       /\ title = BoundedInput(t, MaxTitle)
       /\ text = BoundedInput(t \o d, MaxText)
  /\ recheck \in BOOLEAN
  /\ results = [c \in Categories |-> [evidence |-> NoEvidence, decision |-> "reject"]]
  /\ pick = None
  /\ stage = "new"

\* classify_categories, over all profiles.
ClassifyCategories ==
  /\ stage = "new" /\ stage' = "classified"
  /\ results' = [c \in Categories |-> KeywordFilter(Profile[c])]
  /\ UNCHANGED <<title, text, recheck, pick>>

Select ==
  /\ stage = "classified" /\ stage' = "selected"
  /\ pick' = SelectCategory
  /\ UNCHANGED <<title, text, recheck, results>>

\* process_job goes on: no candidate, the LLM's choice, or the keywords' pick.
\* A job that comes back from the guard fallback goes to the LLM.
Arbitrable == Direct \o Ambiguous # << >> /\ (recheck \/ NeedsArbitration)
Acceptable == Direct \o Ambiguous # << >> /\ ~Arbitrable /\ pick # None

Arbitrate ==
  /\ stage = "selected" /\ Arbitrable
  /\ stage' = "arbitration" /\ pick' = None
  /\ UNCHANGED <<title, text, recheck, results>>

\* multi_candidate_resolved: the pick won against another candidate.
AcceptPick ==
  /\ stage = "selected" /\ Acceptable
  /\ stage' = IF Len(Direct) + Len(Ambiguous) >= 2
              THEN "keyword_direct_tiebreak" ELSE "keyword_direct"
  /\ UNCHANGED <<title, text, recheck, results, pick>>

Reject ==
  /\ stage = "selected" /\ ~Arbitrable /\ ~Acceptable
  /\ stage' = "rejected"
  /\ UNCHANGED <<title, text, recheck, results, pick>>

Next == ClassifyCategories \/ Select \/ Arbitrate \/ AcceptPick \/ Reject

Spec == Init /\ [][Next]_vars

-----------------------------------------------------------------------------
(* Properties *)

\* The bounded input is what is classified, and the pick is a category.
TypeOK ==
  /\ title \in Seq(Words) /\ Len(title) <= MaxTitle
  /\ text \in Seq(Words) /\ Len(text) <= MaxText
  /\ recheck \in BOOLEAN
  /\ DOMAIN results = Categories
  /\ \A c \in Categories : results[c].decision \in Decisions
  /\ pick \in Categories \cup {None}
  /\ stage \in Stages

\* The longest phrase wins (_flatten, _match_tier): the core keywords counted for a
\* category stand at different words of the text, and one that is in the text and
\* not counted shares a word, wherever it stands, with a counted one at least as
\* long.
HitsClaimTheirWords ==
  \A c \in Categories :
    LET hits == results[c].evidence.hits
    IN  \E at \in [DOMAIN hits -> DOMAIN text] :
          /\ \A h \in DOMAIN hits : \E i \in DOMAIN Forms(hits[h].keyword) :
               OccursAt(text, Forms(hits[h].keyword)[i], at[h])
          /\ \A g, h \in DOMAIN hits :
               g # h => \/ at[g] + Len(hits[g].keyword) <= at[h]
                        \/ at[h] + Len(hits[h].keyword) <= at[g]
          /\ stage # "new" => \A item \in ToSet(Profile[c].core) \ ToSet(hits) :
               \A f \in DOMAIN Forms(item.keyword), i \in DOMAIN text :
                 OccursAt(text, Forms(item.keyword)[f], i) =>
                   \E h \in DOMAIN hits :
                     /\ KeywordWidth(hits[h].keyword) >= KeywordWidth(item.keyword)
                     /\ i < at[h] + Len(hits[h].keyword)
                     /\ at[h] < i + Len(item.keyword)

\* The reference for the selection, whatever the order of the categories: the
\* only candidate, or the one that clears its threshold and beats all the
\* others by the margin (docstring of select_category).
Candidates == {c \in Categories : results[c].decision # "reject"}

Prevails(c) ==
  \/ Candidates = {c}
  \/ /\ c \in Candidates
     /\ Value(c) >= Threshold(results[c].decision)
     /\ \A d \in Candidates \ {c} : Value(c) - Value(d) >= Margin

SelectsWhatPrevails ==
  stage = "selected" =>
    /\ pick # None => Prevails(pick)
    /\ pick = None => \A c \in Categories : ~Prevails(c)

\* Only a job that every category rejects is rejected without the LLM: of two
\* candidates close to each other, neither is dropped (job_processor.py:690).
NoCandidateDropped == stage = "rejected" => Candidates = {}
=============================================================================
