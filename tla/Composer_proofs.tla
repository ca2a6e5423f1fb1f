-------------------------- MODULE Composer_proofs ---------------------------
(* Machine-checked proofs about Composer.                                  *)
EXTENDS Composer, TLAPS

-----------------------------------------------------------------------------
(* The arithmetic of tokens and shares.                                    *)

\* A token pays for four characters, so the rounding up of a line's tokens pays
\* for its line break.
LEMMA TokensPay ==
  ASSUME NEW n \in Nat
  PROVE  /\ Tokens(n) \in Nat
         /\ n + 1 <= 4 * Tokens(n)
BY DEF Tokens

LEMMA TokensBound ==
  ASSUME NEW n \in Nat, NEW b \in Nat, n <= 4 * b + 125
  PROVE  Tokens(n) <= b + 32
BY DEF Tokens

\* Percent of the budget granted to the sections before s, and the characters of
\* their titles, each with its marks and a blank line.
ShareBefore == <<0, 10, 40, 55, 65, 75, 85, 100>>
TitleBefore == <<0, 18, 40, 61, 77, 92, 109, 127>>

LEMMA NextShare ==
  ASSUME NEW s \in Section
  PROVE  /\ Share[s] \in Nat
         /\ ShareBefore[s] \in Nat
         /\ ShareBefore[s + 1] = ShareBefore[s] + Share[s]
         /\ ShareBefore[s + 1] <= 100
<1>1. s \in {1, 2, 3, 4, 5, 6, 7}
  BY DEF Section
<1> QED
  BY <1>1 DEF Share, ShareBefore

LEMMA NextTitle ==
  ASSUME NEW s \in Section
  PROVE  /\ Title[s] \in Nat
         /\ TitleBefore[s] \in Nat
         /\ TitleBefore[s + 1] = TitleBefore[s] + Title[s] + 5
         /\ TitleBefore[s + 1] <= 127
<1>1. s \in {1, 2, 3, 4, 5, 6, 7}
  BY DEF Section
<1> QED
  BY <1>1 DEF Title, TitleBefore

\* Rounding a share down never grants more than the share.
LEMMA AllottedBound ==
  ASSUME NEW b \in Nat, NEW s \in Section
  PROVE  /\ Allotted(b, s) \in Nat
         /\ 100 * Allotted(b, s) <= b * Share[s]
<1>1. b * Share[s] \in Nat
  BY NextShare
<1>2. ASSUME NEW n \in Nat
      PROVE  n \div 100 \in Nat /\ 100 * (n \div 100) <= n
  OBVIOUS
<1> QED
  BY <1>1, <1>2 DEF Allotted

-----------------------------------------------------------------------------
(* Type correctness.  That a grant is never negative needs `used <= granted`. *)

WithinGrant == used <= granted

LEMMA TypeInit == Init => TypeOK /\ WithinGrant
<1> SUFFICES ASSUME Init
             PROVE  TypeOK /\ WithinGrant
  OBVIOUS
<1>1. budget \in Nat
  BY ComposerAssumption DEF Init
<1>2. granted \in Nat
  BY <1>1, AllottedBound DEF Init, Section
<1> QED
  BY <1>1, <1>2 DEF Init, TypeOK, WithinGrant, Section

LEMMA TypeLine == ASSUME TypeOK, WithinGrant, Line PROVE TypeOK' /\ WithinGrant'
<1>1. PICK n \in LineLength : /\ lines' = lines + 1
                              /\ KeepLine(n) \/ DropLine(n)
                              /\ UNCHANGED <<budget, section, granted, spent, text>>
  BY DEF Line
<1>2. n \in Nat /\ Tokens(n) \in Nat
  BY ComposerAssumption, TokensPay
<1>3. CASE KeepLine(n)
  BY <1>1, <1>2, <1>3 DEF KeepLine, Fits, TypeOK, WithinGrant
<1>4. CASE DropLine(n)
  <2>1. dropped' \subseteq Nat
    BY <1>2, <1>4 DEF DropLine, TypeOK
  <2>2. lines' \in Nat
    BY <1>1 DEF TypeOK
  <2>3. UNCHANGED <<budget, section, granted, kept, used, chars, spent, text>>
    BY <1>1, <1>4 DEF DropLine
  <2> QED
    BY <2>1, <2>2, <2>3 DEF TypeOK, WithinGrant
<1> QED
  BY <1>1, <1>3, <1>4

LEMMA TypeEndSection == ASSUME TypeOK, WithinGrant, EndSection PROVE TypeOK' /\ WithinGrant'
<1>1. section \in Section /\ section' \in Section \cup {Done}
  BY DEF EndSection, Section, Done
<1>2. Carry \in Nat
  BY DEF Carry, TypeOK, WithinGrant
<1>3. section < 7 => Allotted(budget, section + 1) \in Nat
  <2>1. section < 7 => section + 1 \in Section
    BY <1>1 DEF Section
  <2> QED
    BY <2>1, AllottedBound DEF TypeOK
<1>4. granted' \in Nat
  BY <1>2, <1>3 DEF EndSection
<1>5. text' \in Nat
  BY <1>1, NextTitle DEF EndSection, Heading, TypeOK
<1> QED
  BY <1>1, <1>4, <1>5 DEF EndSection, TypeOK, WithinGrant

\* No quantity of the composer is ever negative, for any budget and any lines.
THEOREM ComposerTypeCorrect == Spec => [](TypeOK /\ WithinGrant)
<1>1. TypeOK /\ WithinGrant /\ UNCHANGED vars => TypeOK' /\ WithinGrant'
  BY DEF vars, TypeOK, WithinGrant
<1> QED
  BY <1>1, TypeInit, TypeLine, TypeEndSection, PTL DEF Spec, Next

-----------------------------------------------------------------------------
(* The budget.                                                             *)

\* What was spent and what is still granted is covered by the shares up to here.
GrantsCovered ==
  IF section = Done
  THEN 100 * (spent + granted) <= budget * 100
  ELSE 100 * (spent + granted) <= budget * ShareBefore[section + 1]

LEMMA GrantsInit == Init => GrantsCovered
<1> SUFFICES ASSUME Init
             PROVE  GrantsCovered
  OBVIOUS
<1>1. budget \in Nat /\ 1 \in Section /\ section = 1 /\ spent = 0
  BY ComposerAssumption DEF Init, Section
<1>2. granted \in Nat /\ 100 * granted <= budget * Share[1]
  BY <1>1, AllottedBound DEF Init
<1>3. Share[1] = 10 /\ ShareBefore[1 + 1] = 10
  BY DEF Share, ShareBefore
<1> QED
  BY <1>1, <1>2, <1>3 DEF GrantsCovered, Done

LEMMA GrantsEndSection ==
  ASSUME TypeOK, WithinGrant, GrantsCovered, EndSection
  PROVE  GrantsCovered'
<1>1. section \in Section /\ section # Done /\ section' = section + 1 /\ budget' = budget
  BY DEF EndSection, Section, Done
<1>2. 100 * (spent + granted) <= budget * ShareBefore[section + 1]
  BY <1>1 DEF GrantsCovered
<1>3. /\ spent' = spent + used
      /\ granted' = (granted - used) + IF section < 7 THEN Allotted(budget, section + 1) ELSE 0
      /\ spent \in Nat /\ used \in Nat /\ granted \in Nat /\ budget \in Nat
  BY DEF EndSection, Carry, TypeOK
<1>4. CASE section < 7
  <2>1. section + 1 \in Section /\ section' # Done
    BY <1>1, <1>4 DEF Section, Done
  <2> DEFINE a == Allotted(budget, section + 1)
             p == ShareBefore[section + 1]
             q == Share[section + 1]
  <2>2. a \in Nat /\ 100 * a <= budget * q
    BY <2>1, <1>3, AllottedBound
  <2>3. p \in Nat /\ q \in Nat /\ ShareBefore[section + 1 + 1] = p + q
    BY <2>1, NextShare
  <2>4. spent' + granted' = spent + granted + a
    BY <1>3, <1>4, <2>2
  <2>5. budget * (p + q) = budget * p + budget * q
    BY <1>3, <2>3
  <2>6. 100 * (spent' + granted') <= budget * (p + q)
    <3>1. budget * p \in Nat /\ budget * q \in Nat
      BY <1>3, <2>3
    <3> HIDE DEF a, p, q
    <3> QED
      BY <3>1, <1>2, <1>3, <2>2, <2>4, <2>5 DEF p
  <2> QED
    BY <1>1, <2>1, <2>3, <2>6 DEF GrantsCovered
<1>5. CASE ~(section < 7)
  <2>1. section = 7 /\ section' = Done
    BY <1>1, <1>5 DEF Section, Done
  <2>2. ShareBefore[7 + 1] = 100
    BY DEF ShareBefore
  <2>3. spent' + granted' = spent + granted
    BY <1>3, <1>5
  <2> QED
    BY <1>1, <1>2, <2>1, <2>2, <2>3 DEF GrantsCovered
<1> QED
  BY <1>4, <1>5

LEMMA GrantsStep == TypeOK /\ WithinGrant /\ GrantsCovered /\ [Next]_vars => GrantsCovered'
<1>1. ASSUME GrantsCovered, Line
      PROVE  GrantsCovered'
  BY <1>1 DEF Line, GrantsCovered
<1>2. ASSUME GrantsCovered, UNCHANGED vars
      PROVE  GrantsCovered'
  BY <1>2 DEF vars, GrantsCovered
<1> QED
  BY <1>1, <1>2, GrantsEndSection DEF Next

LEMMA GrantsWithinBudget ==
  ASSUME TypeOK, WithinGrant, GrantsCovered
  PROVE  LinesWithinBudget
<1>1. 100 * (spent + granted) <= budget * 100
  <2>1. CASE section = Done
    BY <2>1 DEF GrantsCovered
  <2>2. CASE section # Done
    <3>1. section \in Section
      BY <2>2 DEF TypeOK
    <3> DEFINE p == ShareBefore[section + 1]
    <3>2. p \in Nat /\ p <= 100
      BY <3>1, NextShare
    <3>3. budget \in Nat /\ 100 * (spent + granted) <= budget * p
      BY <2>2 DEF GrantsCovered, TypeOK
    <3>4. ASSUME NEW x \in Nat, NEW y \in Nat, x <= y
          PROVE  budget * x <= budget * y
      BY <3>3, <3>4
    <3>5. budget * p <= budget * 100
      BY <3>2, <3>4
    <3>6. budget * p \in Nat
      BY <3>2, <3>3
    <3> HIDE DEF p
    <3> QED
      BY <3>3, <3>5, <3>6 DEF TypeOK
  <2> QED
    BY <2>1, <2>2
<1> QED
  BY <1>1 DEF LinesWithinBudget, WithinGrant, TypeOK

\* The lines kept never cost more than the budget, for every budget and every
\* list of lines.
THEOREM BudgetKept == Spec => []LinesWithinBudget
BY ComposerTypeCorrect, GrantsInit, GrantsStep, GrantsWithinBudget, PTL DEF Spec

-----------------------------------------------------------------------------
(* The prompt.                                                             *)

\* Four characters for each token spent, and the titles.
TextCovered ==
  /\ chars <= 4 * used
  /\ section = Done => used = 0
  /\ text = 0 \/ text + 2 <= 4 * spent + TitleBefore[section]

LEMMA TextInit == Init => TextCovered
BY DEF Init, TextCovered, Done

LEMMA TextLine == ASSUME TypeOK, TextCovered, Line PROVE TextCovered'
<1>1. PICK n \in LineLength : KeepLine(n) \/ DropLine(n)
  BY DEF Line
<1>2. UNCHANGED <<section, spent, text>> /\ section # Done
  BY DEF Line, Section, Done
<1>3. n \in Nat /\ Tokens(n) \in Nat /\ n + 1 <= 4 * Tokens(n)
  BY ComposerAssumption, TokensPay
<1>4. chars' <= 4 * used'
  BY <1>1, <1>3 DEF KeepLine, DropLine, TextCovered, TypeOK
<1> QED
  BY <1>2, <1>4 DEF TextCovered

LEMMA TextEndSection == ASSUME TypeOK, TextCovered, EndSection PROVE TextCovered'
<1>1. section \in Section /\ section' = section + 1
  BY DEF EndSection
<1> DEFINE h == Title[section]
           p == TitleBefore[section]
<1>2. h \in Nat /\ p \in Nat /\ TitleBefore[section + 1] = p + h + 5
  BY <1>1, NextTitle
<1>3. chars' = 0 /\ used' = 0 /\ spent' = spent + used
  BY DEF EndSection
<1>4. /\ spent \in Nat /\ used \in Nat /\ chars \in Nat /\ text \in Nat
      /\ chars <= 4 * used
      /\ text = 0 \/ text + 2 <= 4 * spent + p
  BY DEF TypeOK, TextCovered
<1>5. text' = text \/ text' = text + (3 + h + IF text > 0 THEN 2 ELSE 0) + chars
  BY DEF EndSection, Heading
<1>6. text' = 0 \/ text' + 2 <= 4 * spent' + (p + h + 5)
  <2> HIDE DEF h, p
  <2>1. CASE text' = text
    BY <2>1, <1>2, <1>3, <1>4
  <2>2. CASE text' = text + (3 + h + IF text > 0 THEN 2 ELSE 0) + chars
    BY <2>2, <1>2, <1>3, <1>4
  <2> QED
    BY <2>1, <2>2, <1>5
<1> QED
  BY <1>1, <1>2, <1>3, <1>6 DEF TextCovered

LEMMA TextStep == TypeOK /\ TextCovered /\ [Next]_vars => TextCovered'
<1>1. ASSUME TextCovered, UNCHANGED vars
      PROVE  TextCovered'
  BY <1>1 DEF vars, TextCovered
<1> QED
  BY <1>1, TextLine, TextEndSection DEF Next

LEMMA CoveredIsBounded ==
  ASSUME TypeOK, LinesWithinBudget, TextCovered
  PROVE  TextBounded
<1> SUFFICES ASSUME section = Done
             PROVE  Tokens(text) <= budget + 32
  BY DEF TextBounded, Overhead
<1>1. TitleBefore[8] = 127
  BY DEF TitleBefore
<1>2. spent <= budget /\ spent \in Nat /\ budget \in Nat /\ text \in Nat
  BY DEF LinesWithinBudget, TextCovered, TypeOK
<1>3. text = 0 \/ text + 2 <= 4 * spent + 127
  BY <1>1 DEF TextCovered, Done
<1>4. text <= 4 * budget + 125
  BY <1>2, <1>3
<1> QED
  BY <1>2, <1>4, TokensBound

\* The whole prompt exceeds the budget by at most the 32 tokens of its titles and
\* blank lines, for every budget and every list of lines.
THEOREM PromptBounded == Spec => []TextBounded
BY ComposerTypeCorrect, BudgetKept, TextInit, TextStep, CoveredIsBounded, PTL DEF Spec

-----------------------------------------------------------------------------
(* What is passed over.                                                    *)

LEMMA DroppedStep ==
  TypeOK /\ NothingFittingDropped /\ [Next]_vars => NothingFittingDropped'
<1> SUFFICES ASSUME TypeOK, NothingFittingDropped, [Next]_vars
             PROVE  NothingFittingDropped'
  OBVIOUS
<1>1. CASE Line
  <2>1. PICK n \in LineLength : KeepLine(n) \/ DropLine(n)
    BY <1>1 DEF Line
  <2>2. Tokens(n) \in Nat /\ granted' = granted /\ granted \in Nat /\ used \in Nat
    BY <1>1, ComposerAssumption, TokensPay DEF Line, TypeOK
  <2>3. CASE KeepLine(n)
    BY <2>2, <2>3 DEF KeepLine, NothingFittingDropped, TypeOK
  <2>4. CASE DropLine(n)
    BY <2>2, <2>4 DEF DropLine, Fits, NothingFittingDropped
  <2> QED
    BY <2>1, <2>3, <2>4
<1>2. CASE EndSection
  BY <1>2 DEF EndSection, NothingFittingDropped
<1>3. CASE UNCHANGED vars
  BY <1>3 DEF vars, NothingFittingDropped
<1> QED
  BY <1>1, <1>2, <1>3 DEF Next

\* No line that would have fitted is passed over, for every budget and every list
\* of lines.
THEOREM FillIsGreedy == Spec => []NothingFittingDropped
<1>1. Init => NothingFittingDropped
  BY DEF Init, NothingFittingDropped
<1> QED
  BY <1>1, ComposerTypeCorrect, DroppedStep, PTL DEF Spec

=============================================================================
